----------------------------- MODULE AgentLoop -----------------------------
(***************************************************************************)
(* One run of an agent (src/agents/base.py): the graph that calls the      *)
(* model, runs the tools it asks for, validates its answer and gives up    *)
(* when a budget is spent.  The agent is the ChecklistAgent, the one whose *)
(* answer is validated against the log of its own tool calls; the other    *)
(* agents run the same graph with a simpler validator.                     *)
(*                                                                         *)
(* The model behind the provider is a nondeterministic choice: in each     *)
(* turn any tool calls, any answer of Answers, or an exception.            *)
(***************************************************************************)
EXTENDS Contracts

CONSTANTS
    Extracted,      \* AgentContext.extractions: NoExtraction where there is none
    Answers,        \* the evaluations the model may answer ...
    Malformed,      \* ... and an answer that is not an evaluation at all
    ToolCalls,      \* the sets of tool calls the model may ask for in a turn
    BadCall,        \* a call of an unknown tool or with invalid arguments
    MaxTurns,       \* Agent.max_turns
    MaxRetries,     \* Agent.max_validation_retries
    NoOutput

Check == Reqs \X Docs

ASSUME AgentLoopAssumption ==
    /\ Extracted \in [Docs -> Extractions \cup {NoExtraction}]
    /\ Answers \subseteq SUBSET Entry
    /\ Malformed \notin Answers
    /\ NoOutput \notin Answers
    /\ ToolCalls \subseteq (SUBSET (Check \cup {BadCall})) \ {{}}
    /\ BadCall \notin Check
    /\ MaxTurns \in Nat \ {0}
    /\ MaxRetries \in Nat

VARIABLES
    node,           \* the graph node to run next, or how the run ended
    turns, retries, \* AgentState
    calls,          \* response.tool_calls, {} for a final answer
    answer,         \* response.content
    toolLog,        \* AgentState.tool_log, as a set
    output, error,  \* AgentState
    visited         \* nodes run so far, which LangGraph counts

vars == <<node, turns, retries, calls, answer, toolLog, output, error, visited>>

\* How Agent.run ends: it returns, or AgentError or an exception of the
\* provider leaves it.
Ended == {"returned", "agent_error", "provider_error"}

Error == {"none", "validation", "turns"}

\* The limit passed to graph.invoke.
TightRecursionLimit == MaxTurns * 2     \* variant: one node too few
RecursionLimit == MaxTurns * 3 + 5

Init ==
    /\ node = "call_model"
    /\ turns = 0 /\ retries = 0 /\ visited = 0
    /\ calls = {}
    /\ answer = Malformed
    /\ toolLog = {}
    /\ output = NoOutput
    /\ error = "none"

\* Every node counts towards the recursion limit.  At the limit LangGraph raises
\* a GraphRecursionError, and no node runs; RecursionLimitUnused shows that it
\* never comes to that.
Visit(n) ==
    /\ node = n
    /\ visited < RecursionLimit
    /\ visited' = visited + 1

\* Variant: no budget at all.
NeverSpent(t) == FALSE

TurnsSpent(t) == t >= MaxTurns

\* _route_next, from run_tools and validate.
RouteNext(out, err) ==
    IF out # NoOutput THEN "returned"
    ELSE IF err # "none" THEN "agent_error"
    ELSE IF TurnsSpent(turns) THEN "give_up"
    ELSE "call_model"

\* _call_model, then _route_response: tool calls win over content.
CallModel ==
    /\ Visit("call_model")
    /\ turns' = turns + 1
    /\ \/ /\ calls' \in ToolCalls
          /\ answer' = Malformed
          /\ node' = "run_tools"
       \/ /\ calls' = {}
          /\ answer' \in Answers \cup {Malformed}
          /\ node' = "validate"
    /\ UNCHANGED <<retries, toolLog, output, error>>

\* provider.complete raises something that is not an AgentError.
ProviderFails ==
    /\ Visit("call_model")
    /\ node' = "provider_error"
    /\ UNCHANGED <<turns, retries, calls, answer, toolLog, output, error>>

\* _check_requirement: a ToolError, which leaves no entry in the log, or the
\* verdict of the rules on the document's extraction.
Answered(call) == call # BadCall /\ Extracted[call[2]] # NoExtraction

Verdict(call) == [check |-> call, passed |-> <<call[1], Extracted[call[2]]>> \in Passing]

\* _run_tools
RunTools ==
    /\ Visit("run_tools")
    /\ toolLog' = toolLog \cup {Verdict(c) : c \in {c \in calls : Answered(c)}}
    /\ node' = RouteNext(output, error)
    /\ UNCHANGED <<turns, retries, calls, answer, output, error>>

\* Variant: the result of the tool is not looked at.
AnyCheck(log) == {inv.check : inv \in log}

\* ChecklistAgent.validation_context: the passing checks of this run.
PassedChecks(log) == {inv.check : inv \in {i \in log : i.passed}}

Known == Docs

Acceptable(a) == a # Malformed /\ EvaluationValid(a, Known, PassedChecks(toolLog))

\* Variant: one retry too few.
RetriesSpentEarly(r) == r + 1 >= MaxRetries

RetriesSpent(r) == r >= MaxRetries

\* _validate
Validate ==
    /\ Visit("validate")
    /\ \/ /\ Acceptable(answer)
          /\ output' = answer
          /\ UNCHANGED <<retries, error>>
       \/ /\ ~Acceptable(answer)
          /\ RetriesSpent(retries)
          /\ error' = "validation"
          /\ UNCHANGED <<retries, output>>
       \/ /\ ~Acceptable(answer)
          /\ ~RetriesSpent(retries)
          /\ retries' = retries + 1
          /\ UNCHANGED <<output, error>>
    /\ node' = RouteNext(output', error')
    /\ UNCHANGED <<turns, calls, answer, toolLog>>

\* _give_up
GiveUp ==
    /\ Visit("give_up")
    /\ error' = "turns"
    /\ node' = "agent_error"
    /\ UNCHANGED <<turns, retries, calls, answer, toolLog, output>>

Next ==
    \/ CallModel
    \/ ProviderFails
    \/ RunTools
    \/ Validate
    \/ GiveUp

Spec == Init /\ [][Next]_vars

\* The graph runs on: every provider call returns or raises (the SDK has a
\* timeout), and nothing else in the loop waits.
FairSpec == Spec /\ WF_vars(Next)

-----------------------------------------------------------------------------
Invocation == [check : Check, passed : BOOLEAN]

\* Every variable holds a value its part of AgentState can hold.
TypeOK ==
    /\ node \in {"call_model", "run_tools", "validate", "give_up"} \cup Ended
    /\ turns \in Nat /\ retries \in Nat /\ visited \in Nat
    /\ calls \in ToolCalls \cup {{}}
    /\ answer \in Answers \cup {Malformed}
    /\ toolLog \subseteq Invocation
    /\ output \in Answers \cup {NoOutput}
    /\ error \in Error

\* Whatever the model calls and claims in whatever order, an evaluation leaves
\* the loop only if the rules, applied to the extractions of this run, support
\* every requirement it calls satisfied (ChecklistEvaluation, tool_log).
OutputIsGrounded ==
    output # NoOutput => EvaluationValid(output, Docs, PassingChecks(Extracted))

\* An agent as its caller sees it: nothing before it ends.
Single == INSTANCE SingleAgent WITH status <- IF node \in Ended THEN node ELSE "running"

\* However many turns, tool calls and refused answers it takes, the agent is the
\* single step that ReviewPipeline makes of it: it ends once, with one evaluation
\* the rules support on the extractions of this run or with an exception and no
\* evaluation, and lets no answer out that was refused or is still unchecked.
ImplementsSingleAgent == Single!Spec

\* "the turn budget, not LangGraph's recursion limit, is what should stop a
\* runaway loop" (base.py): a GraphRecursionError is no AgentError, it would take
\* the reviews of all other documents down.
RecursionLimitUnused == node \notin Ended => visited < RecursionLimit

\* An agent stops with the budget it names spent, never beyond it and never
\* before, and a run that ends has an output or an error, not both.
StopsWhenSpent ==
    /\ turns <= MaxTurns /\ retries <= MaxRetries
    /\ error = "turns" => turns = MaxTurns
    /\ error = "validation" => retries = MaxRetries
    /\ node = "returned" => output # NoOutput /\ error = "none"
    /\ node = "agent_error" => output = NoOutput /\ error # "none"

\* Every run of an agent ends, even if the model never gives a valid answer.
LoopEnds == <>(node \in Ended)

-----------------------------------------------------------------------------
\* A node visited per step, two per turn; the entries of the log are verdicts.
LoopInv ==
    /\ node = "call_model" => visited = 2 * turns /\ turns < MaxTurns
    /\ node \in {"run_tools", "validate"} => visited + 1 = 2 * turns /\ turns <= MaxTurns
    /\ node = "give_up" => visited = 2 * turns /\ turns = MaxTurns
    /\ node \notin Ended => output = NoOutput /\ error = "none"
    /\ \A inv \in toolLog :
          inv.passed => <<inv.check[1], Extracted[inv.check[2]]>> \in Passing

IndInv == TypeOK /\ LoopInv /\ OutputIsGrounded /\ RecursionLimitUnused /\ StopsWhenSpent
=============================================================================
