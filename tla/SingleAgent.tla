----------------------------- MODULE SingleAgent -----------------------------
(***************************************************************************)
(* What the checklist agent (src/agents/checklist.py) promises the graph   *)
(* that calls it, without turns, tool calls and retries: it returns once,  *)
(* with an evaluation that the rules support on the extractions it was     *)
(* given, or raises once, with none.  ReviewPipeline takes it like this.   *)
(***************************************************************************)
EXTENDS Contracts

CONSTANTS Extracted, NoOutput

VARIABLES status, output

vars == <<status, output>>

Init == status = "running" /\ output = NoOutput

Return ==
    /\ status = "running"
    /\ status' = "returned"
    /\ output' \in {ev \in SUBSET Entry : EvaluationValid(ev, Docs, PassingChecks(Extracted))}

Raise ==
    /\ status = "running"
    /\ status' \in {"agent_error", "provider_error"}
    /\ UNCHANGED output

Next == Return \/ Raise

Spec == Init /\ [][Next]_vars
=============================================================================
