-------------------------- MODULE FlowExecutionProofs --------------------------
(***************************************************************************)
(* Proofs about the flow extension, for any number of commands and any     *)
(* flows.  The executor's own invariant holds under it, as a step of a     *)
(* flow is a step of the executor or leaves the executor alone.            *)
(***************************************************************************)
EXTENDS FlowExecution, CommandExecutionProofs

\* A flow is in execute_command exactly while its caller is.
CallInv == \A c \in Callers : flow[c] = "call" <=> pc[c] # "idle"

\* A flow that calls, or waits for, a step has it first in its plan.
PlanInv == \A c \in Callers : flow[c] \in {"call", "join"} => plan[c] # << >>

\* A nested flow runs in the body of its thread, and never gets past the check.
NestedInv ==
    \A i \in Ids :
        /\ flow[i] # "off" => i \in nested /\ thread[i] = "body"
        /\ i \in nested => i <= created
        /\ pc[i] \in {"idle", "check", "refused"}

\* The outer flow is between two steps, or has constructed nothing in this one.
Between ==
    \/ flow[Outer] \in {"off", "next", "failed"}
    \/ pc[Outer] \in {"check", "execute", "refused"}

\* Only the thread of the newest result may be going on, and none while the
\* outer flow is between two steps; what it waits for is the newest.
OuterInv ==
    /\ \A i \in Ids : i # created => Joinable(i)
    /\ Between => \A i \in Ids : Joinable(i)
    /\ pc[Outer] \in {"idle", "check", "execute", "refused"} => local[Outer] = NoId
    /\ pc[Outer] = "returned" => local[Outer] = created
    /\ flow[Outer] = "join" => joining[Outer] = created

\* The step at hand may have failed, an earlier one of this flow has not.
FailInv ==
    \A k \in base + 1 .. Len(results) :
        /\ flow[Outer] \in {"next", "call"} /\ k # local[Outer] =>
               cell[k].status # Failed
        /\ flow[Outer] = "join" /\ k # joining[Outer] => cell[k].status # Failed

FlowInv ==
    /\ IInv /\ ReturnedInv
    /\ FlowTypeOK /\ CallInv /\ PlanInv /\ NestedInv /\ OuterInv /\ FailInv

-------------------------------------------------------------------------------
LEMMA NoPlan == << >> \in Plans
<1>1. << >> \in [1 .. 0 -> Steps]
    OBVIOUS
<1>2. 0 \in 0 .. MaxSteps
    BY MaxStepsAssumption
<1>3. QED
    BY <1>1, <1>2 DEF Plans

LEMMA InitFlowInv == FlowInit => FlowInv
<1> SUFFICES ASSUME FlowInit PROVE FlowInv
    OBVIOUS
<1> USE FlowCallersAssumption, MaxStepsAssumption, MaxResultsAssumption DEF FlowInit
<1>1. IInv
    BY InitIInv
<1>2. ReturnedInv
    BY DEF Init, ReturnedInv
<1>3. FlowTypeOK
    BY <1>1, NoPlan DEF IInv, FlowTypeOK, NoId
<1>4. CallInv /\ PlanInv /\ NestedInv /\ OuterInv
    BY DEF Init, CallInv, PlanInv, NestedInv, OuterInv, Joinable
<1>5. FailInv
    BY DEF Init, FailInv
<1>6. QED
    BY <1>1, <1>2, <1>3, <1>4, <1>5 DEF FlowInv

-------------------------------------------------------------------------------
(* To the executor, flows are callers and their ends are ends of bodies. *)

LEMMA EndFlowIsStep ==
    ASSUME NEW c \in Callers, NEW from, NEW o \in Terminal, EndFlow(c, from, o)
    PROVE  [Next]_execVars
<1>1. CASE c = Outer
    BY <1>1 DEF EndFlow
<1>2. CASE c # Outer
    <2>1. c \in Ids
        BY <1>2, FlowCallersAssumption
    <2>2. FinishBody(c, o)
        BY <1>2 DEF EndFlow
    <2>3. ThreadNext
        BY <2>1, <2>2 DEF ThreadNext
    <2>4. QED
        BY <2>3 DEF Next
<1>3. QED
    BY <1>1, <1>2

LEMMA FlowStepsAreSteps ==
    ASSUME FlowTypeOK, PlanInv, FlowNext
    PROVE  [Next]_execVars
<1>1. ASSUME NEW c \in Callers, NextStep(c)
      PROVE  Next
    <2>1. Head(plan[c]) \in Steps
        <3>1. PICK n \in 0 .. MaxSteps : plan[c] \in [1 .. n -> Steps]
            BY DEF FlowTypeOK, Plans
        <3>2. n # 0
            BY <1>1, <3>1 DEF NextStep
        <3>3. QED
            BY <3>1, <3>2
    <2>2. StepKind(Head(plan[c])) \in Kinds
        BY <2>1, StepsAssumption DEF StepKind, Kinds
    <2>3. QED
        BY <1>1, <2>2 DEF NextStep, Next, CallerNext
<1>2. ASSUME NEW c \in Callers, Calling(c) \/ StepReturned(c) \/ StepRefused(c)
      PROVE  Next
    BY <1>2 DEF Calling, StepReturned, StepRefused, Next, CallerNext
<1>3. ASSUME NEW c \in Callers, JoinStep(c)
      PROVE  UNCHANGED execVars
    BY <1>3 DEF JoinStep
<1>4. ASSUME NEW c \in Callers, FlowFails(c) \/ FlowSucceeds(c)
      PROVE  [Next]_execVars
    BY <1>4, EndFlowIsStep DEF FlowFails, FlowSucceeds, Terminal
<1>5. ASSUME NEW i \in Ids, StepBody(i) \/ ThreadProgress(i)
      PROVE  Next
    BY <1>5 DEF StepBody, Next, ThreadNext
<1>6. ASSUME NEW p \in Plans, StartFlow(p)
      PROVE  UNCHANGED execVars
    BY <1>6 DEF StartFlow
<1>7. QED
    BY <1>1, <1>2, <1>3, <1>4, <1>5, <1>6 DEF FlowNext, FlowProgress

-------------------------------------------------------------------------------
(* What flows can do. *)

\* A nested flow that calls execute_command finds its own start_flow running.
LEMMA NestedIsRefused ==
    ASSUME FlowInv, NEW i \in Ids, InsideExecute(i)
    PROVE  pc[i] = "check" /\ LeaveRefused(i)
<1> USE DEF FlowInv, IInv, TypeOK
<1>1. i \in Callers
    BY FlowCallersAssumption
<1>2. pc[i] = "check"
    BY DEF NestedInv, InsideExecute, Malformed, Busy, PassCheck, Reject,
           ExecuteSync, ExecuteFails, ExecuteAsync, Record
<1>3. i <= created /\ thread[i] = "body"
    BY <1>1, <1>2 DEF CallInv, NestedInv
<1>4. ~IsDone(i) /\ created = i
    BY <1>3 DEF ThreadInv, NewestInv, IsRunning, IsDone, BlankCell, Ids
<1>5. \A c \in Callers : pc[c] # "record"
    BY <1>1, <1>2 DEF LockInv
<1>6. Len(results) = i
    BY <1>4, <1>5 DEF RecordInv
<1>7. results # << >> /\ Newest = i
    BY <1>6 DEF RecordInv, Newest, Ids
<1>8. ~PassCheck(i)
    BY <1>4, <1>7 DEF PassCheck
<1>9. QED
    BY <1>2, <1>8
       DEF InsideExecute, Malformed, Busy, Reject, ExecuteSync, ExecuteFails,
           ExecuteAsync, Record

\* A thread that has ended, or was never started, stays so, but for the thread
\* of a command that is being started.
LEMMA EndedStaysEnded ==
    ASSUME TypeOK, ThreadNext, NEW i \in Ids, Joinable(i)
    PROVE  Joinable(i)'
BY DEF TypeOK, ThreadNext, ThreadProgress, FinishBody, PublishData, PublishStatus,
       ResetResult, EndThread, Step, Joinable

\* Only the outer flow starts a nested one, in the thread of a fresh result.
StartsNested ==
    /\ ExecuteAsync(Outer)
    /\ New \in Ids
    /\ flow[New] = "off" /\ pc[New] = "idle" /\ thread[New] = "none"
    /\ nested' = nested \cup {New}
    /\ flow' = [flow EXCEPT ![New] = "next"]
    /\ \E p \in Plans : plan' = [plan EXCEPT ![New] = p]
    /\ UNCHANGED <<joining, base>>

LEMMA CallingChanges ==
    ASSUME FlowInv, NEW c \in Callers, Calling(c)
    PROVE  /\ flow[c] = "call" /\ InsideExecute(c)
           /\ UNCHANGED flowVars \/ (c = Outer /\ StartsNested)
<1>1. flow[c] = "call" /\ InsideExecute(c)
    BY DEF Calling
<1>2. ASSUME c # Outer
      PROVE  UNCHANGED flowVars
    <2>1. c \in Ids
        BY <1>2, FlowCallersAssumption
    <2>2. pc[c] = "check"
        BY <1>1, <2>1, NestedIsRefused
    <2>3. QED
        BY <2>2 DEF Calling, ExecuteAsync
<1>3. ASSUME c = Outer, ~UNCHANGED flowVars
      PROVE  StartsNested
    <2>1. ExecuteAsync(Outer)
        BY <1>3 DEF Calling
    <2>2. New \in Ids /\ ~(New <= created)
        BY <2>1 DEF ExecuteAsync, Construct, New, FlowInv, IInv, TypeOK
    <2>3. flow[New] = "off" /\ thread[New] = "none"
        BY <2>2 DEF FlowInv, NestedInv, IInv, ThreadInv, New, TypeOK
    <2>4. pc[New] = "idle"
        BY <2>2, <2>3, FlowCallersAssumption DEF FlowInv, CallInv
    <2>5. QED
        BY <1>3, <2>1, <2>2, <2>3, <2>4 DEF Calling, StartsNested
<1>4. QED
    BY <1>1, <1>2, <1>3

\* A step inside execute_command touches the locals of its caller only.
LEMMA InsideChanges ==
    ASSUME TypeOK, NEW c \in Callers, InsideExecute(c)
    PROVE  /\ pc'[c] # "idle"
           /\ \A d \in Callers : d # c => pc'[d] = pc[d] /\ local'[d] = local[d]
BY DEF InsideExecute, Malformed, Busy, PassCheck, Reject, ExecuteSync, ExecuteFails,
       ExecuteAsync, Construct, Record, LeaveRefused, Goto, TypeOK

-------------------------------------------------------------------------------
(* Type correctness. *)

LEMMA TailOfPlan ==
    ASSUME NEW p \in Plans, p # << >>
    PROVE  Tail(p) \in Plans
<1>1. PICK n \in 0 .. MaxSteps : p \in [1 .. n -> Steps]
    BY DEF Plans
<1>2. n \in Nat
    BY <1>1, MaxStepsAssumption
<1>3. p \in Seq(Steps) /\ Len(p) = n
    BY <1>1, <1>2
<1>4. Tail(p) \in Seq(Steps) /\ Len(Tail(p)) = n - 1
    BY <1>3, HeadTailProperties
<1>5. n # 0
    BY <1>1, <1>3, EmptySeq
<1>6. Tail(p) \in [1 .. n - 1 -> Steps]
    BY <1>4, LenProperties
<1>7. n - 1 \in 0 .. MaxSteps
    BY <1>2, <1>5, MaxStepsAssumption
<1>8. QED
    BY <1>6, <1>7 DEF Plans

LEMMA FlowTypeStep ==
    ASSUME FlowInv, FlowNext, TypeOK'
    PROVE  FlowTypeOK'
<1> USE DEF FlowInv, FlowTypeOK, Flow
<1>1. ASSUME NEW p \in Plans, StartFlow(p)
      PROVE  FlowTypeOK'
    <2>1. Len(results) \in 0 .. MaxResults
        BY RecordedIds, MaxResultsAssumption DEF IInv, TypeOK
    <2>2. QED
        BY <1>1, <2>1 DEF StartFlow
<1>2. ASSUME NEW c \in Callers, NextStep(c) \/ StepRefused(c)
      PROVE  FlowTypeOK'
    BY <1>2 DEF NextStep, StepRefused
<1>3. ASSUME NEW c \in Callers, Calling(c)
      PROVE  FlowTypeOK'
    <2>1. CASE UNCHANGED flowVars
        BY <2>1 DEF flowVars
    <2>2. CASE StartsNested
        BY <2>2 DEF StartsNested
    <2>3. QED
        BY <1>3, <2>1, <2>2, CallingChanges
<1>4. ASSUME NEW c \in Callers, StepReturned(c)
      PROVE  FlowTypeOK'
    <2>1. local[c] \in Ids \cup {NoId}
        BY DEF IInv, TypeOK
    <2>2. QED
        BY <1>4, <2>1 DEF StepReturned
<1>5. ASSUME NEW c \in Callers, JoinStep(c)
      PROVE  FlowTypeOK'
    <2>1. Tail(plan[c]) \in Plans
        BY <1>5, TailOfPlan DEF JoinStep, PlanInv
    <2>2. QED
        BY <1>5, <2>1 DEF JoinStep
<1>6. ASSUME NEW c \in Callers, FlowFails(c) \/ FlowSucceeds(c)
      PROVE  FlowTypeOK'
    BY <1>6, NoPlan DEF FlowFails, FlowSucceeds, EndFlow
<1>7. CASE UNCHANGED flowVars
    BY <1>7 DEF flowVars
<1>8. QED
    BY <1>1, <1>2, <1>3, <1>4, <1>5, <1>6, <1>7 DEF FlowNext, FlowProgress, StepBody

-------------------------------------------------------------------------------
(* Flows and their callers. *)

LEMMA CallStep ==
    ASSUME FlowInv, FlowNext
    PROVE  CallInv' /\ PlanInv'
<1> USE DEF FlowInv, IInv, TypeOK, FlowTypeOK, CallInv, PlanInv, Flow, Goto
<1>1. ASSUME NEW p \in Plans, StartFlow(p)
      PROVE  CallInv' /\ PlanInv'
    BY <1>1 DEF StartFlow, execVars, callVars
<1>2. ASSUME NEW c \in Callers, NextStep(c)
      PROVE  CallInv' /\ PlanInv'
    BY <1>2 DEF NextStep, BeginExecute
<1>3. ASSUME NEW c \in Callers, StepReturned(c) \/ StepRefused(c)
      PROVE  CallInv' /\ PlanInv'
    BY <1>3 DEF StepReturned, StepRefused, Return
<1>4. ASSUME NEW c \in Callers, Calling(c)
      PROVE  CallInv' /\ PlanInv'
    <2>1. flow[c] = "call" /\ InsideExecute(c)
        BY <1>4, CallingChanges
    <2>2. pc'[c] # "idle" /\ \A d \in Callers : d # c => pc'[d] = pc[d]
        BY <2>1, InsideChanges
    <2>3. CASE UNCHANGED flowVars
        BY <2>1, <2>2, <2>3 DEF flowVars
    <2>4. CASE StartsNested
        BY <2>1, <2>2, <2>4 DEF StartsNested
    <2>5. QED
        BY <1>4, <2>3, <2>4, CallingChanges
<1>5. ASSUME NEW c \in Callers, JoinStep(c)
      PROVE  CallInv' /\ PlanInv'
    BY <1>5 DEF JoinStep, execVars, callVars
<1>6. ASSUME NEW c \in Callers, FlowFails(c) \/ FlowSucceeds(c)
      PROVE  CallInv' /\ PlanInv'
    BY <1>6 DEF FlowFails, FlowSucceeds, EndFlow, FinishBody, execVars, callVars
<1>7. ASSUME NEW i \in Ids, StepBody(i) \/ (ThreadProgress(i) /\ UNCHANGED flowVars)
      PROVE  CallInv' /\ PlanInv'
    <2>1. ThreadNext /\ UNCHANGED flowVars
        BY <1>7 DEF StepBody, ThreadNext
    <2>2. QED
        BY <2>1, ThreadKeepsCalls DEF callVars, flowVars
<1>8. QED
    BY <1>1, <1>2, <1>3, <1>4, <1>5, <1>6, <1>7 DEF FlowNext, FlowProgress

\* A thread that is not in the body of its command cannot be a flow's.
LEMMA NestedStep ==
    ASSUME FlowInv, FlowNext
    PROVE  NestedInv'
<1> USE FlowCallersAssumption
        DEF FlowInv, IInv, TypeOK, FlowTypeOK, NestedInv, Flow, Goto
<1>1. ASSUME NEW p \in Plans, StartFlow(p)
      PROVE  NestedInv'
    BY <1>1 DEF StartFlow, execVars, callVars, resultVars, threadVars
<1>2. ASSUME NEW c \in Callers, NextStep(c)
      PROVE  NestedInv'
    BY <1>2 DEF NextStep, BeginExecute, resultVars, threadVars
<1>3. ASSUME NEW c \in Callers, StepReturned(c)
      PROVE  NestedInv'
    BY <1>3 DEF StepReturned, Return, resultVars, threadVars
<1>4. ASSUME NEW c \in Callers, StepRefused(c)
      PROVE  NestedInv'
    BY <1>4 DEF StepRefused, Return, resultVars, threadVars
<1>5. ASSUME NEW c \in Ids, Calling(c)
      PROVE  NestedInv'
    <2>1. LeaveRefused(c) /\ UNCHANGED flowVars
        BY <1>5, NestedIsRefused, CallingChanges
    <2>2. QED
        BY <2>1 DEF LeaveRefused, resultVars, threadVars, flowVars
<1>6. CASE Calling(Outer)
    <2>1. InsideExecute(Outer)
        BY <1>6, CallingChanges
    <2>2. \A i \in Ids : pc'[i] = pc[i]
        BY <2>1, InsideChanges
    <2>3. created \in Nat /\ created' \in Nat /\ created <= created'
        BY <2>1, CreatedGrows DEF Next, CallerNext
    <2>4. \A i \in Ids : i <= created => thread'[i] = thread[i]
        BY <2>1, <2>3 DEF InsideExecute, Malformed, Busy, PassCheck, Reject,
           ExecuteSync, ExecuteFails, ExecuteAsync, Construct, New, Record,
           LeaveRefused, threadVars
    <2>5. CASE UNCHANGED flowVars
        BY <2>2, <2>3, <2>4, <2>5 DEF flowVars, Ids
    <2>6. CASE StartsNested
        <3>1. created' = New /\ thread'[New] = "body"
            BY <2>6 DEF StartsNested, ExecuteAsync, Construct
        <3>2. SUFFICES ASSUME NEW i \in Ids
                       PROVE  NestedInv!(i)'
            OBVIOUS
        <3>3. CASE i = New
            BY <2>2, <2>6, <3>1, <3>3 DEF StartsNested, Ids
        <3>4. CASE i # New
            BY <2>2, <2>3, <2>4, <2>6, <3>4 DEF StartsNested, Ids
        <3>5. QED
            BY <3>3, <3>4
    <2>7. QED
        BY <1>6, <2>5, <2>6, CallingChanges
<1>7. ASSUME NEW c \in Callers, JoinStep(c)
      PROVE  NestedInv'
    BY <1>7 DEF JoinStep, execVars, callVars, resultVars, threadVars
<1>8. ASSUME NEW c \in Callers, FlowFails(c) \/ FlowSucceeds(c)
      PROVE  NestedInv'
    <2>1. CASE c = Outer
        BY <1>8, <2>1 DEF FlowFails, FlowSucceeds, EndFlow, execVars, callVars,
                          resultVars, threadVars
    <2>2. CASE c # Outer
        BY <1>8, <2>2 DEF FlowFails, FlowSucceeds, EndFlow, FinishBody, Step,
                          callVars, resultVars
    <2>3. QED
        BY <2>1, <2>2
<1>9. ASSUME NEW i \in Ids, StepBody(i) \/ (ThreadProgress(i) /\ UNCHANGED flowVars)
      PROVE  NestedInv'
    <2>1. UNCHANGED <<pc, created>> /\ UNCHANGED flowVars
        BY <1>9, ThreadKeepsCalls DEF StepBody, ThreadNext, callVars
    <2>2. thread[i] # "body" \/ i \notin nested
        BY <1>9 DEF StepBody, ThreadProgress, PublishData, PublishStatus,
                    ResetResult, EndThread, Step
    <2>3. \A j \in Ids : j # i => thread'[j] = thread[j]
        BY <1>9 DEF StepBody, FinishBody, ThreadProgress, PublishData, PublishStatus,
                    ResetResult, EndThread, Step
    <2>4. QED
        BY <2>1, <2>2, <2>3 DEF flowVars
<1>10. QED
    BY <1>1, <1>2, <1>3, <1>4, <1>5, <1>6, <1>7, <1>8, <1>9
       DEF FlowNext, FlowProgress

-------------------------------------------------------------------------------
(* The order of the steps. *)

\* What the outer flow sees of the executor when it is not the one that moves.
OuterUnmoved ==
    UNCHANGED <<flow[Outer], pc[Outer], local[Outer], joining[Outer], base, created,
                results>>

LEMMA OuterUnmovedKeeps ==
    ASSUME FlowInv, OuterUnmoved, \A i \in Ids : Joinable(i) => Joinable(i)'
    PROVE  OuterInv'
BY DEF FlowInv, OuterInv, OuterUnmoved, Between

\* A thread, or a nested flow, moves.
LEMMA InnerStep ==
    ASSUME FlowInv,
           \/ \E i \in Ids : FlowProgress(i) \/ StepBody(i)
           \/ \E i \in Ids : ThreadProgress(i) /\ UNCHANGED flowVars
    PROVE  OuterUnmoved /\ \A i \in Ids : Joinable(i) => Joinable(i)'
<1> USE FlowCallersAssumption
        DEF FlowInv, IInv, TypeOK, FlowTypeOK, OuterUnmoved, Flow, Goto, Joinable
<1>1. ASSUME NEW i \in Ids, NextStep(i)
      PROVE  OuterUnmoved /\ thread' = thread
    BY <1>1 DEF NextStep, BeginExecute, resultVars, threadVars
<1>2. ASSUME NEW i \in Ids, Calling(i)
      PROVE  OuterUnmoved /\ thread' = thread
    <2>1. LeaveRefused(i) /\ UNCHANGED flowVars
        BY <1>2, NestedIsRefused, CallingChanges
    <2>2. QED
        BY <2>1 DEF LeaveRefused, resultVars, threadVars, flowVars
<1>3. ASSUME NEW i \in Ids, StepReturned(i) \/ StepRefused(i)
      PROVE  OuterUnmoved /\ thread' = thread
    BY <1>3 DEF StepReturned, StepRefused, Return, resultVars, threadVars
<1>4. ASSUME NEW i \in Ids, JoinStep(i)
      PROVE  OuterUnmoved /\ thread' = thread
    BY <1>4 DEF JoinStep, execVars, callVars, resultVars, threadVars
<1>5. ASSUME NEW i \in Ids, FlowFails(i) \/ FlowSucceeds(i)
      PROVE  OuterUnmoved /\ ThreadNext
    <2>1. \E o \in Terminal : EndFlow(i, "failed", o) \/ EndFlow(i, "next", o)
        BY <1>5 DEF FlowFails, FlowSucceeds, Terminal
    <2>2. PICK o \in Terminal : FinishBody(i, o)
        BY <2>1 DEF EndFlow
    <2>3. OuterUnmoved
        BY <2>1, <2>2 DEF EndFlow, FinishBody, callVars, resultVars
    <2>4. QED
        BY <2>2, <2>3 DEF ThreadNext
<1>6. ASSUME NEW i \in Ids, StepBody(i) \/ (ThreadProgress(i) /\ UNCHANGED flowVars)
      PROVE  OuterUnmoved /\ ThreadNext
    <2>1. ThreadNext /\ UNCHANGED flowVars
        BY <1>6 DEF StepBody, ThreadNext
    <2>2. QED
        BY <2>1, ThreadKeepsCalls DEF callVars, flowVars
<1>7. ThreadNext => \A i \in Ids : Joinable(i) => Joinable(i)'
    BY EndedStaysEnded
<1>8. QED
    BY <1>1, <1>2, <1>3, <1>4, <1>5, <1>6, <1>7 DEF FlowProgress

LEMMA OuterStep ==
    ASSUME FlowInv, FlowNext
    PROVE  OuterInv'
<1> USE FlowCallersAssumption
        DEF FlowInv, IInv, TypeOK, FlowTypeOK, OuterInv, Between, Flow, Goto
<1>1. ASSUME NEW p \in Plans, StartFlow(p)
      PROVE  OuterInv'
    BY <1>1 DEF StartFlow, execVars, callVars, resultVars, threadVars, Joinable
<1>2. CASE NextStep(Outer)
    BY <1>2 DEF NextStep, BeginExecute, resultVars, threadVars, Joinable
<1>3. CASE StepReturned(Outer)
    BY <1>3 DEF StepReturned, Return, resultVars, threadVars, Joinable
<1>4. CASE StepRefused(Outer)
    BY <1>4 DEF StepRefused, Return, resultVars, threadVars, Joinable
<1>5. CASE Calling(Outer)
    <2>1. flow[Outer] = "call" /\ InsideExecute(Outer) /\ Outer \in Callers
        BY <1>5, CallingChanges
    <2>2. flow'[Outer] = "call"
        <3>1. CASE UNCHANGED flowVars
            BY <2>1, <3>1 DEF flowVars
        <3>2. CASE StartsNested
            BY <2>1, <3>2 DEF StartsNested
        <3>3. QED
            BY <1>5, <2>1, <3>1, <3>2, CallingChanges
    <2>3. ASSUME Malformed(Outer) \/ Busy(Outer) \/ Reject(Outer) \/ PassCheck(Outer)
          PROVE  OuterInv'
        BY <2>2, <2>3 DEF Malformed, Busy, Reject, PassCheck, LeaveRefused,
                          resultVars, threadVars, Joinable
    <2>4. ASSUME ExecuteSync(Outer) \/ ExecuteFails(Outer) \/ ExecuteAsync(Outer)
          PROVE  OuterInv'
        <3>1. \A i \in Ids : Joinable(i)
            BY <2>4 DEF ExecuteSync, ExecuteFails, ExecuteAsync
        <3>2. \A i \in Ids : i # created' => thread'[i] = thread[i]
            BY <2>4 DEF ExecuteSync, ExecuteFails, ExecuteAsync, Construct, threadVars
        <3>3. pc'[Outer] = "record"
            BY <2>1, <2>4 DEF ExecuteSync, ExecuteFails, ExecuteAsync, Construct
        <3>4. QED
            BY <2>2, <3>1, <3>2, <3>3 DEF Joinable
    <2>5. ASSUME Record(Outer)
          PROVE  OuterInv'
        BY <2>1, <2>2, <2>5 DEF Record, RecordInv, threadVars, Joinable
    <2>6. QED
        BY <2>1, <2>3, <2>4, <2>5 DEF InsideExecute
<1>6. CASE JoinStep(Outer)
    <2>1. \A i \in Ids : Joinable(i)
        BY <1>6 DEF JoinStep
    <2>2. UNCHANGED <<pc, created, thread, local>> /\ flow'[Outer] \in {"next", "failed"}
        BY <1>6 DEF JoinStep, execVars, callVars, resultVars, threadVars
    <2>3. pc[Outer] = "idle"
        BY <1>6 DEF JoinStep, CallInv
    <2>4. QED
        BY <2>1, <2>2, <2>3 DEF Joinable
<1>7. CASE FlowFails(Outer) \/ FlowSucceeds(Outer)
    BY <1>7 DEF FlowFails, FlowSucceeds, EndFlow, execVars, callVars, resultVars,
                threadVars, Joinable
<1>8. QED
    BY <1>1, <1>2, <1>3, <1>4, <1>5, <1>6, <1>7, InnerStep, OuterUnmovedKeeps
       DEF FlowNext, FlowProgress

-------------------------------------------------------------------------------
(* A failed step ends its flow. *)

\* The results FailInv speaks of are done, so that no thread changes them.
LEMMA PastIsDone ==
    ASSUME FlowInv, NEW k \in base + 1 .. Len(results),
           \/ flow[Outer] \in {"next", "call"} /\ k # local[Outer]
           \/ flow[Outer] = "join" /\ k # joining[Outer]
    PROVE  k \in Ids /\ k <= created /\ IsDone(k)
<1> USE DEF FlowInv
<1>1. k \in Ids /\ k <= created /\ results[k] = k
    BY RecordedIds DEF FlowTypeOK
<1>2. CASE k < created
    BY <1>1, <1>2 DEF IInv, TypeOK, NewestInv, IsRunning, IsDone, Ids
<1>3. CASE k = created
    <2>1. pc[Outer] # "record"
        <3>1. Len(results) \in Nat /\ created \in {Len(results), Len(results) + 1}
            BY RecordedIds
        <3>2. k <= Len(results) /\ base \in Nat
            BY <3>1 DEF FlowTypeOK
        <3>3. Len(results) = created
            BY <1>3, <3>1, <3>2
        <3>4. QED
            BY <3>1, <3>3, FlowCallersAssumption DEF IInv, RecordInv
    <2>2. pc[Outer] # "returned" /\ flow[Outer] # "join"
        BY <1>3, FlowCallersAssumption DEF OuterInv, CallInv
    <2>3. Between
        BY <2>1, <2>2, FlowCallersAssumption
           DEF Between, CallInv, IInv, TypeOK, CallerAt
    <2>4. QED
        BY <1>1, <2>3, JoinedIsDone DEF OuterInv
<1>4. QED
    BY <1>1, <1>2, <1>3 DEF IInv, TypeOK, Ids

LEMMA FailStep ==
    ASSUME FlowInv, FlowNext
    PROVE  FailInv'
<1> USE FlowCallersAssumption
        DEF FlowInv, IInv, TypeOK, FlowTypeOK, Flow, Goto
<1>0. ASSUME NEW k \in base + 1 .. Len(results),
             \/ flow[Outer] \in {"next", "call"} /\ k # local[Outer]
             \/ flow[Outer] = "join" /\ k # joining[Outer]
      PROVE  cell[k].status # Failed /\ cell'[k] = cell[k]
    BY <1>0, PastIsDone, StepKeepsFinished, FlowStepsAreSteps DEF FailInv
<1>1. CASE OuterUnmoved
    BY <1>0, <1>1 DEF FailInv, OuterUnmoved
<1>2. ASSUME NEW p \in Plans, StartFlow(p)
      PROVE  FailInv'
    BY <1>2 DEF StartFlow, FailInv, execVars, resultVars
<1>3. CASE NextStep(Outer)
    BY <1>0, <1>3 DEF NextStep, BeginExecute, FailInv, resultVars
<1>4. CASE StepReturned(Outer)
    BY <1>0, <1>4 DEF StepReturned, Return, FailInv, resultVars
<1>5. CASE StepRefused(Outer) \/ FlowFails(Outer) \/ FlowSucceeds(Outer)
    BY <1>5 DEF StepRefused, FlowFails, FlowSucceeds, EndFlow, FailInv
<1>6. CASE Calling(Outer)
    <2>1. flow[Outer] = "call" /\ InsideExecute(Outer) /\ Outer \in Callers
        BY <1>6, CallingChanges
    <2>2. flow'[Outer] # "join" /\ base' = base
        <3>1. CASE UNCHANGED flowVars
            BY <2>1, <3>1 DEF flowVars
        <3>2. CASE StartsNested
            BY <2>1, <3>2 DEF StartsNested
        <3>3. QED
            BY <1>6, <2>1, <3>1, <3>2, CallingChanges
    <2>3. ASSUME Malformed(Outer) \/ Busy(Outer) \/ Reject(Outer) \/ PassCheck(Outer)
          PROVE  local' = local /\ results' = results
        BY <2>3 DEF Malformed, Busy, Reject, PassCheck, LeaveRefused, resultVars
    <2>4. ASSUME ExecuteSync(Outer) \/ ExecuteFails(Outer) \/ ExecuteAsync(Outer)
          PROVE  local[Outer] = NoId /\ results' = results
        BY <2>4 DEF ExecuteSync, ExecuteFails, ExecuteAsync, Construct, OuterInv
    <2>5. ASSUME Record(Outer)
          PROVE  /\ local'[Outer] = local[Outer] /\ local[Outer] = Len(results) + 1
                 /\ Len(results') = Len(results) + 1
        BY <2>1, <2>5 DEF Record, RecordInv
    <2>6. SUFFICES ASSUME NEW k \in base + 1 .. Len(results'), k # local'[Outer]
                   PROVE  cell'[k].status # Failed
        BY <2>2 DEF FailInv
    <2>7. k \in base + 1 .. Len(results) /\ k # local[Outer]
        <3>1. Len(results) \in Nat
            BY RecordedIds
        <3>2. CASE Record(Outer)
            BY <2>5, <2>6, <3>1, <3>2
        <3>3. CASE ~Record(Outer)
            BY <2>1, <2>3, <2>4, <2>6, <3>1, <3>3 DEF InsideExecute, NoId
        <3>4. QED
            BY <3>2, <3>3
    <2>8. QED
        BY <1>0, <2>1, <2>7
<1>7. CASE JoinStep(Outer)
    <2>1. /\ flow[Outer] = "join"
          /\ flow'[Outer] = "next" => cell[joining[Outer]].status # Failed
          /\ flow'[Outer] \in {"next", "failed"}
          /\ UNCHANGED <<cell, results, base>>
        BY <1>7 DEF JoinStep, execVars, resultVars
    <2>2. QED
        BY <1>0, <2>1 DEF FailInv
<1>8. QED
    BY <1>1, <1>2, <1>3, <1>4, <1>5, <1>6, <1>7, InnerStep DEF FlowNext, FlowProgress

-------------------------------------------------------------------------------
LEMMA StepFlowInv == FlowInv /\ [FlowNext]_vars => FlowInv'
<1> SUFFICES ASSUME FlowInv, [FlowNext]_vars
             PROVE  FlowInv'
    OBVIOUS
<1>1. CASE FlowNext
    <2>1. [Next]_execVars
        BY <1>1, FlowStepsAreSteps DEF FlowInv
    <2>2. IInv' /\ ReturnedInv'
        BY <2>1, StepIInv, ReturnedStep DEF FlowInv
    <2>3. FlowTypeOK'
        BY <1>1, <2>2, FlowTypeStep DEF IInv
    <2>4. QED
        BY <1>1, <2>2, <2>3, CallStep, NestedStep, OuterStep, FailStep DEF FlowInv
<1>2. CASE UNCHANGED vars
    BY <1>2 DEF vars, flowVars, execVars, callVars, resultVars, threadVars, FlowInv,
       IInv, TypeOK, LockInv, RecordInv, ThreadInv, NewestInv, IsRunning, ReturnedInv,
       FlowTypeOK, CallInv, PlanInv, NestedInv, OuterInv, Between, Joinable, FailInv
<1>3. QED
    BY <1>1, <1>2

\* The inductive invariant of the flows and the executor they share.
THEOREM FlowInvariance == FlowSpec => []FlowInv
BY InitFlowInv, StepFlowInv, PTL DEF FlowSpec

\* Every variable of the flow extension keeps its type.
THEOREM FlowTypeCorrect == FlowSpec => []FlowTypeOK
<1>1. FlowInv => FlowTypeOK
    BY DEF FlowInv
<1>2. QED
    BY <1>1, FlowInvariance, PTL

\* However a flow ends, it leaves the executor free and nothing running on it.
THEOREM NothingIsLeft == FlowSpec => []NothingLeftRunning
<1>1. FlowInv => NothingLeftRunning
    <2>1. SUFFICES ASSUME FlowInv, flow[Outer] = "off"
                   PROVE  lock = NoCaller /\ \A i \in 1 .. created : IsDone(i)
        BY DEF NothingLeftRunning
    <2>2. \A i \in Ids : Joinable(i)
        BY <2>1 DEF FlowInv, OuterInv, Between
    <2>3. \A c \in Callers : pc[c] = "idle"
        BY <2>1, <2>2, FlowCallersAssumption DEF FlowInv, CallInv, NestedInv, Joinable
    <2>4. lock = NoCaller
        BY <2>1, <2>3 DEF FlowInv, IInv, TypeOK, LockInv
    <2>5. \A i \in 1 .. created : IsDone(i)
        BY <2>1, <2>2, JoinedIsDone, MaxResultsAssumption DEF FlowInv, IInv, TypeOK, Ids
    <2>6. QED
        BY <2>4, <2>5
<1>2. QED
    BY <1>1, FlowInvariance, PTL

\* A nested flow is refused its first step.
THEOREM NestedRunsNothing == FlowSpec => []NestedFlowRunsNothing
<1>1. FlowInv => NestedFlowRunsNothing
    BY DEF FlowInv, FlowTypeOK, NestedInv, NestedFlowRunsNothing
<1>2. QED
    BY <1>1, FlowInvariance, PTL

\* The threads of two steps, nested or not, of one flow or of two, never overlap.
THEOREM StepsRunInOrder == FlowSpec => []StepsDoNotOverlap
<1>1. FlowInv => StepsDoNotOverlap
    BY DEF FlowInv, IInv, TypeOK, OuterInv, Joinable, StepsDoNotOverlap, Ids
<1>2. QED
    BY <1>1, FlowInvariance, PTL

\* A flow that starts a step has had no failed one.
THEOREM FailureEndsFlow == FlowSpec => []FlowStopsAtFailure
<1>1. FlowInv => FlowStopsAtFailure
    <2>1. SUFFICES ASSUME FlowInv, flow[Outer] \in {"next", "call"},
                          NEW k \in base + 1 .. Len(results),
                          results[k] # local[Outer]
                   PROVE  cell[results[k]].status # Failed
        BY DEF FlowStopsAtFailure
    <2>2. results[k] = k
        BY <2>1, RecordedIds DEF FlowInv, FlowTypeOK
    <2>3. QED
        BY <2>1, <2>2 DEF FlowInv, FailInv
<1>2. QED
    BY <1>1, FlowInvariance, PTL

\* To its executor the flow extension is a caller like any other: one command
\* at a time, and the command log, hold of it too.
THEOREM FlowsCallExecutor ==
    FlowSpec => []AtMostOneRunning /\ FinalResultsAreStable /\ ImplementsLog
<1>1. FlowInit => Init
    BY DEF FlowInit
<1>2. FlowInv /\ [FlowNext]_vars => [Next]_execVars
    BY FlowStepsAreSteps DEF FlowInv, vars
<1>3. FlowSpec => Spec
    BY <1>1, <1>2, FlowInvariance, PTL DEF FlowSpec, Spec
<1>4. QED
    BY <1>3, OneCommandAtATime, FinishedStaysFinished, Refinement, PTL
===============================================================================
