-------------------------- MODULE MCOfflineReview --------------------------
(***************************************************************************)
(* A passport requirement and a statement requirement, documents that are  *)
(* a good or a bad passport, a good statement or unreadable.               *)
(***************************************************************************)
EXTENDS OfflineReview, TLC

CONSTANTS c1, q1, q2, good, bad, statement, w1

TypeOfEach == good :> "passport" @@ bad :> "passport" @@ statement :> "bank_statement"
AcceptedByEach == q1 :> {"passport"} @@ q2 :> {"bank_statement"}
PassingGood == {<<q1, good>>, <<q2, statement>>}

\* A good passport and a good statement next to an unreadable document, and a
\* bad passport with a lower id than the good one.
SomeReadings == {<<good, statement, NoExtraction>>, <<bad, good, statement>>}
=============================================================================
