---------------------------- MODULE HumanApproval ----------------------------
(***************************************************************************)
(* What the case service promises, without runs, workers or queues: the    *)
(* agents can only publish offers, and the file of a case changes because  *)
(* of an offer only when a human accepts it, once, while it is open and    *)
(* while the file still allows it (README, "Human approval by design").    *)
(*                                                                         *)
(* An offer is a suggested action together with the data that accepting it *)
(* will write.  Offers that were accepted, declined or replaced are spent. *)
(***************************************************************************)
EXTENDS FiniteSets

CONSTANTS Cases, Docs, Reqs, Extractions, Offer, NoDoc, NoCase, NoExtraction

VARIABLES caseStatus, reqStatus, satisfiedBy, docCase, docStatus, docExtraction,
          offers, spent

file == <<caseStatus, reqStatus, satisfiedBy, docCase, docStatus, docExtraction>>
vars == <<file, offers, spent>>

Init ==
    /\ caseStatus = [c \in Cases |-> "absent"]
    /\ reqStatus = [c \in Cases |-> [q \in Reqs |-> "open"]]
    /\ satisfiedBy = [c \in Cases |-> [q \in Reqs |-> NoDoc]]
    /\ docCase = [d \in Docs |-> NoCase]
    /\ docStatus = [d \in Docs |-> "absent"]
    /\ docExtraction = [d \in Docs |-> NoExtraction]
    /\ offers = {}
    /\ spent = {}

\* Humans open cases and add documents as they like.
Open(c) ==
    /\ caseStatus[c] = "absent"
    /\ caseStatus' = [caseStatus EXCEPT ![c] = "open"]
    /\ UNCHANGED <<reqStatus, satisfiedBy, docCase, docStatus, docExtraction, offers, spent>>

Upload(c, d) ==
    /\ caseStatus[c] # "absent"
    /\ docStatus[d] = "absent"
    /\ docCase' = [docCase EXCEPT ![d] = c]
    /\ docStatus' = [docStatus EXCEPT ![d] = "pending_review"]
    /\ UNCHANGED <<caseStatus, reqStatus, satisfiedBy, docExtraction, offers, spent>>

\* A review publishes: its offers replace all open offers of its case and of no
\* other case, they are new, and they target documents of the case.
Publish(c) ==
    LET new == offers' \ offers
    IN  /\ new \subseteq Offer
        /\ \A o \in new : o.case = c /\ (o.doc # NoDoc => docCase[o.doc] = c)
        /\ new \cap spent = {}
        /\ offers' = {o \in offers : o.case # c} \cup new
        /\ spent' = spent \cup {o \in offers : o.case = c}
        /\ UNCHANGED file

Spend(o) ==
    /\ o \in offers
    /\ offers' = offers \ {o}
    /\ spent' = spent \cup {o}

Decline(o) == Spend(o) /\ UNCHANGED file

AcceptDocument(o) ==
    /\ o.kind = "accept_document"
    /\ Spend(o)
    /\ docStatus[o.doc] = "pending_review"
    /\ o.payload \in Extractions
    /\ docStatus' = [docStatus EXCEPT ![o.doc] = "accepted"]
    /\ docExtraction' = [docExtraction EXCEPT ![o.doc] = o.payload]
    /\ UNCHANGED <<caseStatus, reqStatus, satisfiedBy, docCase>>

RejectDocument(o) ==
    /\ o.kind = "reject_document"
    /\ Spend(o)
    /\ docStatus[o.doc] = "pending_review"
    /\ docStatus' = [docStatus EXCEPT ![o.doc] = "rejected"]
    /\ UNCHANGED <<caseStatus, reqStatus, satisfiedBy, docCase, docExtraction>>

\* Satisfying a requirement takes an accepted document of the same case.
SatisfyRequirement(o) ==
    /\ o.kind = "mark_requirement_satisfied"
    /\ Spend(o)
    /\ reqStatus[o.case][o.req] = "open"
    /\ docCase[o.doc] = o.case
    /\ docStatus[o.doc] = "accepted"
    /\ reqStatus' = [reqStatus EXCEPT ![o.case][o.req] = "satisfied"]
    /\ satisfiedBy' = [satisfiedBy EXCEPT ![o.case][o.req] = o.doc]
    /\ UNCHANGED <<caseStatus, docCase, docStatus, docExtraction>>

DeclareReady(o) ==
    /\ o.kind = "change_case_status"
    /\ Spend(o)
    /\ \A q \in Reqs : reqStatus[o.case][q] = "satisfied"
    /\ caseStatus' = [caseStatus EXCEPT ![o.case] = "ready_for_submission"]
    /\ UNCHANGED <<reqStatus, satisfiedBy, docCase, docStatus, docExtraction>>

SignOff(o) ==
    /\ o.kind \in {"request_document", "flag_for_review"}
    /\ Spend(o)
    /\ UNCHANGED file

Accept(o) ==
    \/ AcceptDocument(o)
    \/ RejectDocument(o)
    \/ SatisfyRequirement(o)
    \/ DeclareReady(o)
    \/ SignOff(o)

Next ==
    \/ \E c \in Cases : Open(c)
    \/ \E c \in Cases, d \in Docs : Upload(c, d)
    \/ \E c \in Cases : Publish(c)
    \/ \E o \in offers : Accept(o) \/ Decline(o)

Spec == Init /\ [][Next]_vars
=============================================================================
