---------------------------- MODULE MCAgentLoop ----------------------------
(***************************************************************************)
(* The checklist agent on one requirement and two extracted documents, of  *)
(* which one passes, and a third one that could not be reviewed.           *)
(***************************************************************************)
EXTENDS AgentLoop

CONSTANTS d1, d2, d3, q1, e1, e2

OneEach == [d \in Docs |-> IF d = d1 THEN e1 ELSE IF d = d2 THEN e2 ELSE NoExtraction]
OnlyE1 == {<<q1, e1>>}

Evaluation(status, docs) == {[req |-> q1, status |-> status, docs |-> docs]}

SomeAnswers ==
    {{}, Evaluation("satisfied", {d1}), Evaluation("satisfied", {d2}),
     Evaluation("satisfied", {d1, d2}), Evaluation("not_satisfied", {d2})}

SomeCalls == {{<<q1, d1>>}, {<<q1, d2>>, BadCall}, {<<q1, d3>>}}
=============================================================================
