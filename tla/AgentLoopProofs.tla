--------------------------- MODULE AgentLoopProofs ---------------------------
(***************************************************************************)
(* The agent loop, for every budget, every set of answers and tool calls   *)
(* and every rule relation.                                                *)
(***************************************************************************)
EXTENDS AgentLoop, TLAPS

\* The log a validation looks at only has passing checks the rules support.
LEMMA LogIsTrue ==
  ASSUME TypeOK, LoopInv
  PROVE  PassedChecks(toolLog) \subseteq PassingChecks(Extracted)
<1> SUFFICES ASSUME NEW inv \in toolLog, inv.passed
             PROVE  inv.check \in PassingChecks(Extracted)
  BY DEF PassedChecks
<1>1. inv.check \in Check /\ inv.check = <<inv.check[1], inv.check[2]>>
  BY DEF TypeOK, Invocation, Check
<1>2. <<inv.check[1], Extracted[inv.check[2]]>> \in Passing
  BY DEF LoopInv
<1> QED
  BY <1>1, <1>2 DEF PassingChecks, Check

\* An evaluation valid for some checks is valid for more of them.
LEMMA EvaluationMonotone ==
  ASSUME NEW a, NEW known, NEW some, NEW more, some \subseteq more,
         EvaluationValid(a, known, some)
  PROVE  EvaluationValid(a, known, more)
BY DEF EvaluationValid, Backed

\* The first state.
LEMMA LoopInit == Init => IndInv
BY AgentLoopAssumption
DEF Init, IndInv, TypeOK, LoopInv, OutputIsGrounded, RecursionLimitUnused, RecursionLimit,
    StopsWhenSpent, Ended, Error

\* Every node of the graph keeps the invariant.
LEMMA LoopStep == IndInv /\ [Next]_vars => IndInv'
<1> SUFFICES ASSUME IndInv, [Next]_vars
             PROVE  IndInv'
  OBVIOUS
<1> USE AgentLoopAssumption
<1>1. CASE CallModel
  BY <1>1
  DEF IndInv, TypeOK, LoopInv, OutputIsGrounded, RecursionLimitUnused, RecursionLimit,
      StopsWhenSpent, Ended, Error, CallModel, Visit
<1>2. CASE ProviderFails
  BY <1>2
  DEF IndInv, TypeOK, LoopInv, OutputIsGrounded, RecursionLimitUnused, RecursionLimit,
      StopsWhenSpent, Ended, Error, ProviderFails, Visit
<1>3. CASE RunTools
  <2>1. \A c \in {c \in calls : Answered(c)} :
           /\ Verdict(c) \in Invocation
           /\ Verdict(c).passed =>
                 <<Verdict(c).check[1], Extracted[Verdict(c).check[2]]>> \in Passing
    <3> SUFFICES ASSUME NEW c \in calls, Answered(c)
                 PROVE  /\ Verdict(c) \in Invocation
                        /\ Verdict(c).passed =>
                              <<Verdict(c).check[1], Extracted[Verdict(c).check[2]]>> \in Passing
      OBVIOUS
    <3>1. calls \subseteq Check \cup {BadCall}
      BY DEF IndInv, TypeOK
    <3>2. c \in Check
      BY <3>1 DEF Answered
    <3>3. (<<c[1], Extracted[c[2]]>> \in Passing) \in BOOLEAN
      OBVIOUS
    <3>4. /\ Verdict(c).check = c
          /\ Verdict(c).passed = (<<c[1], Extracted[c[2]]>> \in Passing)
      BY DEF Verdict
    <3>5. Verdict(c) \in Invocation
      BY <3>2, <3>3 DEF Verdict, Invocation
    <3> QED
      BY <3>4, <3>5
  <2>2. /\ toolLog' \subseteq Invocation
        /\ \A inv \in toolLog' :
              inv.passed => <<inv.check[1], Extracted[inv.check[2]]>> \in Passing
    BY <1>3, <2>1 DEF IndInv, TypeOK, LoopInv, RunTools
  <2>3. node' = IF turns >= MaxTurns THEN "give_up" ELSE "call_model"
    BY <1>3 DEF IndInv, LoopInv, RunTools, Visit, RouteNext, TurnsSpent, Ended
  <2> QED
    BY <1>3, <2>2, <2>3
    DEF IndInv, TypeOK, LoopInv, OutputIsGrounded, RecursionLimitUnused, RecursionLimit,
        StopsWhenSpent, Ended, Error, RunTools, Visit
<1>4. CASE Validate
  <2>1. PassedChecks(toolLog) \subseteq PassingChecks(Extracted)
    BY LogIsTrue DEF IndInv
  <2>2. /\ node = "validate" /\ visited' = visited + 1
        /\ node' = RouteNext(output', error')
        /\ UNCHANGED <<turns, calls, answer, toolLog>>
        /\ output = NoOutput /\ error = "none"
    BY <1>4 DEF Validate, Visit, IndInv, LoopInv, Ended
  <2>3. CASE Acceptable(answer)
    <3>1. output' = answer /\ UNCHANGED <<retries, error>>
      BY <1>4, <2>3 DEF Validate
    <3>2. answer \in Answers
      BY <2>3 DEF Acceptable, IndInv, TypeOK
    <3>3. EvaluationValid(answer, Docs, PassingChecks(Extracted))
      BY <2>1, <2>3, EvaluationMonotone DEF Acceptable, Known
    <3>4. node' = "returned"
      BY <2>2, <3>1, <3>2 DEF RouteNext
    <3> QED
      BY <2>2, <3>1, <3>2, <3>3, <3>4
      DEF IndInv, TypeOK, LoopInv, OutputIsGrounded, RecursionLimitUnused, StopsWhenSpent, Ended,
          Error
  <2>4. CASE ~Acceptable(answer) /\ RetriesSpent(retries)
    <3>1. error' = "validation" /\ UNCHANGED <<retries, output>>
      BY <1>4, <2>4 DEF Validate
    <3>2. node' = "agent_error"
      BY <2>2, <3>1 DEF RouteNext
    <3> QED
      BY <2>2, <2>4, <3>1, <3>2
      DEF IndInv, TypeOK, LoopInv, OutputIsGrounded, RecursionLimitUnused, StopsWhenSpent, Ended,
          Error, RetriesSpent
  <2>5. CASE ~Acceptable(answer) /\ ~RetriesSpent(retries)
    <3>1. retries' = retries + 1 /\ UNCHANGED <<output, error>>
      BY <1>4, <2>5 DEF Validate
    <3>2. node' = IF turns >= MaxTurns THEN "give_up" ELSE "call_model"
      BY <2>2, <3>1 DEF RouteNext, TurnsSpent
    <3> QED
      BY <2>2, <2>5, <3>1, <3>2
      DEF IndInv, TypeOK, LoopInv, OutputIsGrounded, RecursionLimitUnused, RecursionLimit,
          StopsWhenSpent, Ended, Error, RetriesSpent
  <2> QED
    BY <2>3, <2>4, <2>5
<1>5. CASE GiveUp
  BY <1>5
  DEF IndInv, TypeOK, LoopInv, OutputIsGrounded, RecursionLimitUnused, RecursionLimit,
      StopsWhenSpent, Ended, Error, GiveUp, Visit
<1>6. CASE UNCHANGED vars
  BY <1>6
  DEF IndInv, TypeOK, LoopInv, OutputIsGrounded, RecursionLimitUnused, StopsWhenSpent, vars
<1> QED
  BY <1>1, <1>2, <1>3, <1>4, <1>5, <1>6 DEF Next

\* The inductive invariant of the loop.
LEMMA LoopInductive == Spec => []IndInv
  BY LoopInit, LoopStep, PTL DEF Spec

\* At every node the state of the loop has its type, and the budgets of turns and
\* retries are never exceeded.
THEOREM LoopTypeCorrect == Spec => []TypeOK
<1>1. IndInv => TypeOK
  BY DEF IndInv
<1> QED
  BY <1>1, LoopInductive, PTL

\* An evaluation that leaves the loop is supported by the rules: it is one of
\* those CaseReview lets a review use (ChecklistEvaluation, Agent._validate).
THEOREM OutputGrounded == Spec => []OutputIsGrounded
<1>1. IndInv => OutputIsGrounded
  BY DEF IndInv
<1> QED
  BY <1>1, LoopInductive, PTL

\* The turn budget stops the loop before LangGraph does, whatever max_turns is.
THEOREM TurnBudgetStopsFirst == Spec => []RecursionLimitUnused
<1>1. IndInv => RecursionLimitUnused
  BY DEF IndInv
<1> QED
  BY <1>1, LoopInductive, PTL

\* The budgets are kept, and an agent gives up only when one of them is spent.
THEOREM GivesUpOnlyWhenSpent == Spec => []StopsWhenSpent
<1>1. IndInv => StopsWhenSpent
  BY DEF IndInv
<1> QED
  BY <1>1, LoopInductive, PTL

-----------------------------------------------------------------------------
(* The agent is the single step that ReviewPipeline makes of it.           *)

\* Before it ends, the caller sees nothing.
LEMMA TurnsUnseen ==
  ASSUME IndInv, node \notin Ended, node' \notin Ended, UNCHANGED output
  PROVE  UNCHANGED Single!vars
BY DEF Single!vars

\* SingleAgent takes the contract of an evaluation from the same definitions.
LEMMA SameContract ==
  {ev \in SUBSET Single!Entry :
      Single!EvaluationValid(ev, Docs, Single!PassingChecks(Extracted))}
    = {ev \in SUBSET Entry : EvaluationValid(ev, Docs, PassingChecks(Extracted))}
<1>1. Single!Entry = Entry
  BY DEF Entry, Single!Entry, RequirementStatus, Single!RequirementStatus
<1>2. Single!PassingChecks(Extracted) = PassingChecks(Extracted)
  BY DEF PassingChecks, Single!PassingChecks
<1>3. ASSUME NEW ev, NEW known, NEW passing
      PROVE  Single!EvaluationValid(ev, known, passing) <=> EvaluationValid(ev, known, passing)
  BY DEF EvaluationValid, Single!EvaluationValid, Backed, Single!Backed
<1>4. \A ev : Single!EvaluationValid(ev, Docs, Single!PassingChecks(Extracted))
               <=> EvaluationValid(ev, Docs, PassingChecks(Extracted))
  BY <1>2, <1>3
<1> QED
  BY <1>1, <1>4

\* An answer that is accepted is returned, and only then.
LEMMA ValidateOnce ==
  ASSUME IndInv, IndInv', Validate
  PROVE  Single!Next \/ UNCHANGED Single!vars
<1>1. node = "validate" /\ node \notin Ended /\ output = NoOutput /\ error = "none"
  BY DEF Validate, Visit, IndInv, LoopInv, Ended
<1>2. node' = RouteNext(output', error')
  BY DEF Validate
<1>3. CASE Acceptable(answer) /\ output' = answer /\ UNCHANGED error
  <2>1. answer \in Answers /\ answer # NoOutput
    BY <1>3, AgentLoopAssumption DEF IndInv, TypeOK, Acceptable
  <2>2. node' = "returned"
    BY <1>2, <1>3, <2>1 DEF RouteNext
  <2>3. output' \in {ev \in SUBSET Entry : EvaluationValid(ev, Docs, PassingChecks(Extracted))}
    <3>1. answer \in SUBSET Entry
      BY <2>1, AgentLoopAssumption
    <3>2. EvaluationValid(answer, Docs, PassingChecks(Extracted))
      BY <1>3, LogIsTrue, EvaluationMonotone DEF Acceptable, Known, IndInv
    <3> QED
      BY <1>3, <3>1, <3>2
  <2>4. (IF node \in Ended THEN node ELSE "running") = "running"
    BY <1>1
  <2>5. (IF node' \in Ended THEN node' ELSE "running") = "returned"
    BY <2>2 DEF Ended
  <2>6. output' \in {ev \in SUBSET Single!Entry :
                       Single!EvaluationValid(ev, Docs, Single!PassingChecks(Extracted))}
    BY <2>3, SameContract
  <2>7. Single!Return
    BY <2>4, <2>5, <2>6 DEF Single!Return
  <2> QED
    BY <2>7 DEF Single!Next
<1>4. CASE error' = "validation" /\ UNCHANGED output
  <2>1. node' = "agent_error"
    BY <1>1, <1>2, <1>4 DEF RouteNext
  <2> QED
    BY <1>1, <1>4, <2>1 DEF Single!Next, Single!Raise, Ended
<1>5. CASE UNCHANGED <<output, error>>
  <2>1. node' \in {"give_up", "call_model"}
    BY <1>1, <1>2, <1>5 DEF RouteNext
  <2> QED
    BY <1>1, <1>5, <2>1, TurnsUnseen DEF Ended
<1> QED
  BY <1>3, <1>4, <1>5 DEF Validate

\* The loop implements SingleAgent: what ReviewPipeline takes for granted about
\* the checklist agent (_evaluate_checklist in pipeline.py) is true of base.py
\* and checklist.py, for every model, budget and set of tool calls.
THEOREM AgentsAreSingleSteps == Spec => ImplementsSingleAgent
<1>1. Init => Single!Init
  BY DEF Init, Single!Init, Ended
<1>2. IndInv /\ IndInv' /\ [Next]_vars => [Single!Next]_(Single!vars)
  <2> SUFFICES ASSUME IndInv, IndInv', [Next]_vars
               PROVE  Single!Next \/ UNCHANGED Single!vars
    OBVIOUS
  <2>1. CASE CallModel
    <3>1. node \notin Ended /\ node' \notin Ended /\ UNCHANGED output
      BY <2>1 DEF CallModel, Visit, Ended
    <3> QED
      BY <3>1, TurnsUnseen
  <2>2. CASE ProviderFails
    BY <2>2 DEF ProviderFails, Visit, Single!Next, Single!Raise, Ended
  <2>3. CASE RunTools
    <3>1. node = "run_tools" /\ node' = RouteNext(output, error) /\ UNCHANGED output
      BY <2>3 DEF RunTools, Visit
    <3>2. node' \in {"give_up", "call_model"}
      BY <3>1 DEF IndInv, LoopInv, RouteNext, Ended
    <3> QED
      BY <3>1, <3>2, TurnsUnseen DEF Ended
  <2>4. CASE Validate
    BY <2>4, ValidateOnce
  <2>5. CASE GiveUp
    BY <2>5 DEF GiveUp, Visit, Single!Next, Single!Raise, Ended
  <2>6. CASE UNCHANGED vars
    BY <2>6 DEF vars, Single!vars
  <2> QED
    BY <2>1, <2>2, <2>3, <2>4, <2>5, <2>6 DEF Next
<1> QED
  BY <1>1, <1>2, LoopInductive, PTL DEF Spec, ImplementsSingleAgent, Single!Spec
=============================================================================
