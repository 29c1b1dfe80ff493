----------------------------- MODULE FlowExecution -----------------------------
(***************************************************************************)
(* The flow extension: start_flow runs a list of commands one by one on an *)
(* executor of the extension's own, whose command_results outlive a flow.  *)
(* A step of a flow may itself be flow.start_flow; its thread then calls   *)
(* execute_command on the same executor.                                   *)
(*                                                                         *)
(* The agent runs one command at a time (AtMostOneRunning of its own       *)
(* executor), so there is one top-level flow at a time, the caller Outer.  *)
(* The caller i \in Ids is the nested flow that runs in the thread of      *)
(* result i.                                                               *)
(***************************************************************************)
EXTENDS CommandExecution

CONSTANTS
    Outer,       \* the thread of the start_flow command of the agent
    Steps,       \* subset of {"sync", "async", "flow"}
    MaxSteps     \* bound: the length of a flow

ASSUME FlowCallersAssumption == Callers = {Outer} \cup Ids /\ Outer \notin Ids
ASSUME StepsAssumption == Steps \subseteq {"sync", "async", "flow"}
ASSUME MaxStepsAssumption == MaxSteps \in Nat

Plans == UNION {[1 .. n -> Steps] : n \in 0 .. MaxSteps}

VARIABLES
    flow,      \* where each flow is
    plan,      \* the steps it still has to run, the current one first
    joining,   \* the result it waits for
    nested,    \* the results whose thread runs a nested flow
    base       \* how many results were recorded when the flow started

flowVars == <<flow, plan, joining, nested, base>>
vars == <<execVars, flowVars>>

FlowInit ==
    /\ Init
    /\ flow = [c \in Callers |-> "off"]
    /\ plan = [c \in Callers |-> << >>]
    /\ joining = [c \in Callers |-> NoId]
    /\ nested = {}
    /\ base = 0

FlowTypeOK ==
    /\ TypeOK
    /\ flow \in [Callers -> {"off", "next", "call", "join", "failed"}]
    /\ plan \in [Callers -> Plans]
    /\ joining \in [Callers -> Ids \cup {NoId}]
    /\ nested \subseteq Ids
    /\ base \in 0 .. MaxResults

Flow(c, from, to) ==
    /\ flow[c] = from
    /\ flow' = [flow EXCEPT ![c] = to]

\* The agent starts the command start_flow.
StartFlow(p) ==
    /\ Flow(Outer, "off", "next")
    /\ created + Len(p) <= MaxResults
    /\ plan' = [plan EXCEPT ![Outer] = p]
    /\ base' = Len(results)
    /\ UNCHANGED <<joining, nested, execVars>>

StepKind(s) == IF s = "flow" THEN "async" ELSE s

NextStep(c) ==
    /\ Flow(c, "next", "call")
    /\ plan[c] # << >>
    /\ BeginExecute(c, StepKind(Head(plan[c])))
    /\ UNCHANGED <<plan, joining, nested, base>>

\* Inside execute_command.  Starting flow.start_flow starts a nested flow.
Calling(c) ==
    /\ flow[c] = "call"
    /\ InsideExecute(c)
    /\ IF ExecuteAsync(c) /\ Head(plan[c]) = "flow"
       THEN /\ nested' = nested \cup {New}
            /\ flow' = [flow EXCEPT ![New] = "next"]
            /\ \E p \in Plans : plan' = [plan EXCEPT ![New] = p]
            /\ UNCHANGED <<joining, base>>
       ELSE UNCHANGED flowVars

StepReturned(c) ==
    /\ pc[c] = "returned"
    /\ Return(c)
    /\ Flow(c, "call", "join")
    /\ joining' = [joining EXCEPT ![c] = local[c]]
    /\ UNCHANGED <<plan, nested, base>>

\* execute_command raised, and so does the flow.
StepRefused(c) ==
    /\ pc[c] = "refused"
    /\ Return(c)
    /\ Flow(c, "call", "failed")
    /\ UNCHANGED <<plan, joining, nested, base>>

\* Mutant: the result is not joined.
CheckStepAtOnce(c) ==
    /\ flow[c] = "join"
    /\ joining' = [joining EXCEPT ![c] = NoId]
    /\ IF cell[joining[c]].status = Failed
       THEN Flow(c, "join", "failed") /\ UNCHANGED plan
       ELSE Flow(c, "join", "next") /\ plan' = [plan EXCEPT ![c] = Tail(@)]
    /\ UNCHANGED <<nested, base, execVars>>

\* Mutant: a failed step does not end the flow.
JoinStepOnly(c) ==
    /\ Flow(c, "join", "next")
    /\ Joinable(joining[c])
    /\ joining' = [joining EXCEPT ![c] = NoId]
    /\ plan' = [plan EXCEPT ![c] = Tail(@)]
    /\ UNCHANGED <<nested, base, execVars>>

\* result.join() and the check for FAILED, the only status that ends a flow.
JoinStep(c) ==
    /\ flow[c] = "join"
    /\ Joinable(joining[c])
    /\ joining' = [joining EXCEPT ![c] = NoId]
    /\ IF cell[joining[c]].status = Failed
       THEN Flow(c, "join", "failed") /\ UNCHANGED plan
       ELSE Flow(c, "join", "next") /\ plan' = [plan EXCEPT ![c] = Tail(@)]
    /\ UNCHANGED <<nested, base, execVars>>

\* The flow's method returns or raises: a nested one ends its thread's body.
EndFlow(c, from, o) ==
    /\ Flow(c, from, "off")
    /\ plan' = [plan EXCEPT ![c] = << >>]
    /\ IF c = Outer THEN UNCHANGED execVars ELSE FinishBody(c, o)
    /\ UNCHANGED <<joining, nested, base>>

FlowFails(c) == EndFlow(c, "failed", Failed)

FlowSucceeds(c) == plan[c] = << >> /\ EndFlow(c, "next", Succeeded)

FlowProgress(c) ==
    \/ NextStep(c)
    \/ Calling(c)
    \/ StepReturned(c)
    \/ StepRefused(c)
    \/ JoinStep(c)
    \/ FlowFails(c)
    \/ FlowSucceeds(c)

\* The threads of the other steps.
StepBody(i) ==
    /\ i \notin nested
    /\ \E o \in Terminal : FinishBody(i, o)
    /\ UNCHANGED flowVars

FlowNext ==
    \/ \E p \in Plans : StartFlow(p)
    \/ \E c \in Callers : FlowProgress(c)
    \/ \E i \in Ids : StepBody(i)
    \/ \E i \in Ids : ThreadProgress(i) /\ UNCHANGED flowVars

\* Threads that run go on, and the body of a step ends.
FlowFairness ==
    /\ \A c \in Callers : WF_vars(FlowProgress(c))
    /\ \A i \in Ids :
          /\ WF_vars(StepBody(i))
          /\ WF_vars(ThreadProgress(i) /\ UNCHANGED flowVars)

FlowSpec == FlowInit /\ [][FlowNext]_vars /\ FlowFairness

-------------------------------------------------------------------------------
\* A flow leaves no command of its executor running behind, however it ends:
\* the results stay, and the next flow would otherwise find the agent busy.
NothingLeftRunning ==
    flow[Outer] = "off" =>
        /\ lock = NoCaller
        /\ \A i \in 1 .. created : IsDone(i)

\* A nested flow is refused its first step: start_flow is recorded as running
\* before the lock it needs is released.  It can never run a command.
NestedFlowRunsNothing ==
    \A i \in nested : pc[i] \notin {"execute", "record", "returned"}

\* A flow goes on to its next step only if no step of it has failed.
FlowStopsAtFailure ==
    flow[Outer] \in {"next", "call"} =>
        \A k \in base + 1 .. Len(results) :
            (results[k] # local[Outer]) => cell[results[k]].status # Failed

\* The steps of a flow and of the flows nested in it run one at a time, in the
\* order of the plan: the threads of a later step never overlap an earlier one.
StepsDoNotOverlap ==
    \A i, j \in Ids : (i < j /\ j <= created) => thread[i] \in {"none", "dead"}

\* Every flow ends, also one that nests itself and so waits for a thread that
\* needs the lock and the executor the outer flow is using.
FlowsEnd == flow[Outer] # "off" ~> flow[Outer] = "off"
===============================================================================
