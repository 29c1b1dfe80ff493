--------------------------- MODULE AgentServiceProofs ---------------------------
(***************************************************************************)
(* Proofs about the agent process: its main thread, the heartbeat thread   *)
(* and the command threads, for any number of commands and any delays.     *)
(***************************************************************************)
EXTENDS AgentService, CommandExecutionProofs

\* What has happened before each place of the main thread.
MainInv ==
    /\ main \in {"lookup", "bind", "start"} => hbAt = "new"
    /\ main \in {"bind", "start", "serve", "handle"} => nodeKnown
    /\ main \in {"start", "serve", "handle"} => listening
    /\ main \in {"stop", "exited"} => ~serveApi
    /\ hbAt # "new" => nodeKnown

\* The heartbeat thread reads the pipe only when there is a byte in it.
PipeInv == hbAt = "read" => pipe # << >>

ServiceInv == IInv /\ ServiceTypeOK /\ MainInv /\ PipeInv

-------------------------------------------------------------------------------
LEMMA InitServiceInv == ServiceInit => ServiceInv
<1> SUFFICES ASSUME ServiceInit PROVE ServiceInv
    OBVIOUS
<1> USE DEF ServiceInit, HBInit
<1>1. IInv
    BY InitIInv
<1>2. << >> \in Seq({"a", "b"})
    BY EmptySeq
<1>3. HBTypeOK
    BY <1>2, DelayAssumption DEF HBTypeOK
<1>4. ServiceTypeOK
    BY <1>1, <1>3 DEF IInv, ServiceTypeOK
<1>5. MainInv /\ PipeInv
    BY DEF MainInv, PipeInv
<1>6. QED
    BY <1>1, <1>4, <1>5 DEF ServiceInv

-------------------------------------------------------------------------------
(* To the executor the main thread is its caller. *)

MainActs ==
    \/ LookupNode \/ LookupFails \/ BindServer \/ EnterHandle \/ HandleOther
    \/ ServeFails \/ LeaveLoop \/ Exit

MainCalls ==
    (\E k \in Kinds : HandleRequest(k)) \/ Executing \/ FinalizeRescue \/ Respond

LEMMA MainParts ==
    /\ MainActs => UNCHANGED <<execVars, hbVars>>
    /\ MainCalls => CallerNext /\ UNCHANGED hbVars
<1>1. Main \in Callers
    BY ServiceAssumption
<1>2. ASSUME MainActs
      PROVE  UNCHANGED <<execVars, hbVars>>
    BY <1>2 DEF MainActs, LookupNode, LookupFails, BindServer, EnterHandle, HandleOther,
       ServeFails, LeaveLoop, Exit
<1>3. ASSUME Executing \/ FinalizeRescue \/ Respond
      PROVE  CallerNext /\ UNCHANGED hbVars
    BY <1>1, <1>3 DEF Executing, FinalizeRescue, Respond, CallerNext, InsideExecute
<1>4. ASSUME NEW k \in Kinds, HandleRequest(k)
      PROVE  CallerNext /\ UNCHANGED hbVars
    BY <1>1, <1>4 DEF HandleRequest, CallerNext
<1>5. QED
    BY <1>2, <1>3, <1>4 DEF MainCalls

\* Which part of the process each step belongs to.
LEMMA ServiceSteps ==
    ASSUME ServiceNext
    PROVE  \/ MainActs /\ UNCHANGED <<execVars, hbVars>>
           \/ /\ StartHeartbeater \/ Stopping \/ Beating \/ Tick
              /\ UNCHANGED execVars
           \/ CallerNext /\ MainCalls /\ UNCHANGED hbVars
           \/ \E i \in Ids : FlowFinalizes(i)
           \/ /\ ThreadNext \/ UNCHANGED execVars
              /\ UNCHANGED mainVars
              /\ \/ UNCHANGED hbVars
                 \/ \E i \in Ids : ForceHeartbeat(i)
<1>1. ASSUME MainProgress \/ MainServes
      PROVE  MainActs \/ MainCalls \/ StartHeartbeater \/ Stopping
    BY <1>1 DEF MainProgress, MainServes, MainActs, MainCalls
<1>2. ASSUME NEW i \in Ids, CommandBody(i)
      PROVE  ThreadNext /\ UNCHANGED mainVars /\ UNCHANGED hbVars
    BY <1>2 DEF CommandBody, ThreadNext, Terminal
<1>3. ASSUME NEW i \in Ids, CommandPublishes(i) \/ CommandEnds(i)
      PROVE  ThreadNext /\ UNCHANGED mainVars /\ UNCHANGED hbVars
    BY <1>3 DEF CommandPublishes, CommandEnds, ThreadNext, ThreadProgress
<1>4. ASSUME NEW i \in Ids, CommandForces(i)
      PROVE  UNCHANGED execVars /\ UNCHANGED mainVars /\ ForceHeartbeat(i)
    BY <1>4 DEF CommandForces
<1>5. Beating \/ Tick \/ StartHeartbeater \/ Stopping => UNCHANGED execVars
    BY DEF Beating, Tick, StartHeartbeater, Stopping
<1>6. QED
    BY MainParts, <1>1, <1>2, <1>3, <1>4, <1>5 DEF ServiceNext, CommandProgress

-------------------------------------------------------------------------------
(* The heartbeater. *)

\* The error delay grows from initial_delay to max_delay and no further.
LEMMA BackoffBounds ==
    ASSUME NEW d \in InitialDelay .. MaxDelay
    PROVE  Backoff(d) \in InitialDelay .. MaxDelay
<1>1. d \in Nat /\ InitialDelay \in Nat /\ MaxDelay \in Nat
    BY DelayAssumption
<1>2. (d * 27) \div 10 \in Nat /\ (d * 27) \div 10 >= d
    BY <1>1
<1>3. QED
    BY <1>1, <1>2 DEF Backoff

\* One byte goes into the pipe and none of those before it is lost.
LEMMA PipeAppend ==
    ASSUME NEW q \in Seq({"a", "b"}), NEW b \in {"a", "b"}
    PROVE  Append(q, b) \in Seq({"a", "b"}) /\ Append(q, b) # << >>
BY AppendProperties

LEMMA HeartbeaterStep ==
    ASSUME HBTypeOK, PipeInv, HBNext
    PROVE  HBTypeOK' /\ PipeInv'
<1> USE DEF HBTypeOK, PipeInv, HBGoto, hbThreadVars
<1>1. CASE StartThread \/ NoAddress \/ PollReady \/ PollTimeout \/ SendHeartbeat
    BY <1>1 DEF StartThread, NoAddress, PollReady, PollTimeout, SendHeartbeat
<1>2. CASE FindAddress
    BY <1>2 DEF FindAddress
<1>3. CASE ReadByte
    <2>1. Tail(pipe) \in Seq({"a", "b"})
        BY <1>3, HeadTailProperties DEF ReadByte
    <2>2. QED
        BY <1>3, <2>1 DEF ReadByte
<1>4. ASSUME NEW ok \in BOOLEAN, HeartbeatReturns(ok)
      PROVE  HBTypeOK' /\ PipeInv'
    <2>1. errorDelay' \in InitialDelay .. MaxDelay
        BY <1>4, BackoffBounds, DelayAssumption DEF HeartbeatReturns
    <2>2. interval' \in Nat
        <3>1. PICK m \in Multipliers : interval' = (HeartbeatTimeout * m) \div 10
            BY <1>4 DEF HeartbeatReturns
        <3>2. m \in Nat /\ HeartbeatTimeout \in Nat
            BY MultiplierAssumption, DelayAssumption
        <3>3. QED
            BY <3>1, <3>2
    <2>3. QED
        BY <1>4, <2>1, <2>2 DEF HeartbeatReturns
<1>5. CASE ClosePipe \/ ClearPipe
    <2>1. << >> \in Seq({"a", "b"})
        BY EmptySeq
    <2>2. QED
        BY <1>5, <2>1 DEF ClosePipe, ClearPipe
<1>6. ASSUME NEW f \in Forcers, ForceHeartbeat(f)
      PROVE  HBTypeOK' /\ PipeInv'
    BY <1>6, PipeAppend DEF ForceHeartbeat, LoadWriter, WriteForce
<1>7. CASE StopHeartbeater
    BY <1>7, PipeAppend DEF StopHeartbeater, CheckWriter, WriteStop, JoinHeartbeater
<1>8. QED
    BY <1>1, <1>2, <1>3, <1>4, <1>5, <1>6, <1>7 DEF HBNext, HBProgress

LEMMA ServiceStepsHeartbeater ==
    ASSUME ServiceNext
    PROVE  HBNext \/ UNCHANGED hbVars
<1>1. StartHeartbeater \/ Stopping \/ Beating \/ Tick => HBNext
    BY DEF StartHeartbeater, Stopping, Beating, Tick, HBNext
<1>2. ASSUME NEW i \in Ids, ForceHeartbeat(i)
      PROVE  HBNext
    BY <1>2, ServiceAssumption DEF HBNext
<1>3. ASSUME NEW i \in Ids, FlowFinalizes(i)
      PROVE  UNCHANGED hbVars
    BY <1>3 DEF FlowFinalizes
<1>4. QED
    BY <1>1, <1>2, <1>3, ServiceSteps

-------------------------------------------------------------------------------
(* The main thread. *)

LEMMA ServiceTypeStep ==
    ASSUME ServiceInv, ServiceNext, TypeOK', HBTypeOK'
    PROVE  ServiceTypeOK'
<1> USE DEF ServiceInv, ServiceTypeOK, MainGoto
<1>1. ASSUME MainActs
      PROVE  ServiceTypeOK'
    BY <1>1 DEF MainActs, LookupNode, LookupFails, BindServer, EnterHandle, HandleOther,
                ServeFails, LeaveLoop, Exit
<1>2. ASSUME StartHeartbeater \/ Stopping \/ Executing \/ FinalizeRescue \/ Respond
      PROVE  ServiceTypeOK'
    BY <1>2 DEF StartHeartbeater, Stopping, Executing, FinalizeRescue, Respond, mainVars
<1>3. ASSUME NEW k \in Kinds, HandleRequest(k)
      PROVE  ServiceTypeOK'
    BY <1>3 DEF HandleRequest, mainVars
<1>4. ASSUME NEW i \in Ids, \/ CommandBody(i) \/ FlowFinalizes(i)
                            \/ CommandForces(i) \/ CommandEnds(i)
      PROVE  ServiceTypeOK'
    BY <1>4 DEF CommandBody, FlowFinalizes, CommandForces, CommandEnds, mainVars
<1>5. ASSUME NEW i \in Ids, CommandPublishes(i)
      PROVE  ServiceTypeOK'
    BY <1>5 DEF CommandPublishes, mainVars
<1>6. CASE Beating \/ Tick
    BY <1>6 DEF Beating, Tick, mainVars
<1>7. QED
    BY <1>1, <1>2, <1>3, <1>4, <1>5, <1>6
       DEF ServiceNext, MainProgress, MainServes, MainActs, CommandProgress

\* A thread of the process but the main one never begins its loop.
LEMMA OnlyMainStarts ==
    ASSUME ServiceNext, ~StartHeartbeater
    PROVE  hbAt' = "new" <=> hbAt = "new"
<1> USE DEF HBGoto
<1>1. CASE UNCHANGED hbVars
    BY <1>1 DEF hbVars, hbThreadVars
<1>2. CASE Beating \/ Tick
    BY <1>2 DEF Beating, Tick, HBProgress, FindAddress, NoAddress, PollReady,
       PollTimeout, ReadByte, SendHeartbeat, HeartbeatReturns, ClosePipe, ClearPipe
<1>3. CASE Stopping
    BY <1>3 DEF Stopping, StopHeartbeater, CheckWriter, WriteStop, JoinHeartbeater,
                hbThreadVars
<1>4. ASSUME NEW i \in Ids, ForceHeartbeat(i)
      PROVE  hbAt' = hbAt
    BY <1>4 DEF ForceHeartbeat, LoadWriter, WriteForce, hbThreadVars
<1>5. ASSUME NEW i \in Ids, FlowFinalizes(i)
      PROVE  UNCHANGED hbVars
    BY <1>5 DEF FlowFinalizes
<1>6. QED
    BY <1>1, <1>2, <1>3, <1>4, <1>5, ServiceSteps

LEMMA MainStep ==
    ASSUME ServiceInv, ServiceNext
    PROVE  MainInv'
<1> USE DEF ServiceInv, MainInv, MainGoto
<1>1. CASE StartHeartbeater
    BY <1>1 DEF StartHeartbeater, StartThread
<1>2. ASSUME MainActs, UNCHANGED <<execVars, hbVars>>
      PROVE  MainInv'
    BY <1>2 DEF MainActs, LookupNode, LookupFails, BindServer, EnterHandle, HandleOther,
                ServeFails, LeaveLoop, Exit, hbVars, hbThreadVars
<1>3. ASSUME main' = main \/ (main = "handle" /\ main' = "serve"),
             UNCHANGED <<listening, nodeKnown>>, ~serveApi => ~serveApi',
             ~StartHeartbeater
      PROVE  MainInv'
    BY <1>3, OnlyMainStarts
<1>4. ASSUME Stopping \/ Beating \/ Tick
      PROVE  UNCHANGED mainVars /\ ~StartHeartbeater
    BY <1>4 DEF Stopping, Beating, Tick, StartHeartbeater, mainVars
<1>5. ASSUME MainCalls
      PROVE  /\ main' = main \/ (main = "handle" /\ main' = "serve")
             /\ UNCHANGED <<listening, nodeKnown>> /\ (~serveApi => ~serveApi')
    BY <1>5 DEF MainCalls, HandleRequest, Executing, FinalizeRescue, Respond, mainVars
<1>6. ASSUME NEW i \in Ids, FlowFinalizes(i)
      PROVE  UNCHANGED <<main, listening, nodeKnown>> /\ (~serveApi => ~serveApi')
    BY <1>6 DEF FlowFinalizes
<1>7. QED
    BY <1>1, <1>2, <1>3, <1>4, <1>5, <1>6, ServiceSteps DEF mainVars

-------------------------------------------------------------------------------
LEMMA ServiceStepsAreSteps == [ServiceNext]_vars => [Next]_execVars
<1>1. ASSUME NEW i \in Ids, FlowFinalizes(i)
      PROVE  UNCHANGED execVars
    BY <1>1 DEF FlowFinalizes
<1>2. QED
    BY <1>1, ServiceSteps DEF Next, vars

LEMMA StepServiceInv == ServiceInv /\ [ServiceNext]_vars => ServiceInv'
<1> SUFFICES ASSUME ServiceInv, [ServiceNext]_vars
             PROVE  ServiceInv'
    OBVIOUS
<1>1. IInv'
    BY ServiceStepsAreSteps, StepIInv DEF ServiceInv
<1>2. CASE ServiceNext
    <2>1. HBTypeOK' /\ PipeInv'
        <3>1. CASE HBNext
            BY <3>1, HeartbeaterStep DEF ServiceInv, ServiceTypeOK
        <3>2. CASE UNCHANGED hbVars
            BY <3>2 DEF ServiceInv, ServiceTypeOK, HBTypeOK, PipeInv, hbVars,
                        hbThreadVars
        <3>3. QED
            BY <1>2, <3>1, <3>2, ServiceStepsHeartbeater
    <2>2. ServiceTypeOK'
        BY <1>1, <1>2, <2>1, ServiceTypeStep DEF IInv
    <2>3. QED
        BY <1>1, <1>2, <2>1, <2>2, MainStep DEF ServiceInv
<1>3. CASE UNCHANGED vars
    BY <1>1, <1>3 DEF vars, hbVars, hbThreadVars, mainVars, execVars, callVars,
       resultVars, IInv, ServiceInv, ServiceTypeOK, HBTypeOK, MainInv, PipeInv
<1>4. QED
    BY <1>2, <1>3

\* The inductive invariant of the agent process.
THEOREM ServiceInvariance == ServiceSpec => []ServiceInv
BY InitServiceInv, StepServiceInv, PTL DEF ServiceSpec

\* Every variable of the process keeps its type; in particular the error delay
\* never leaves its bounds.
THEOREM ServiceTypeCorrect == ServiceSpec => []ServiceTypeOK
<1>1. ServiceInv => ServiceTypeOK
    BY DEF ServiceInv
<1>2. QED
    BY <1>1, ServiceInvariance, PTL

\* A flow that finalizes is the command that runs, and nothing beside it does.
LEMMA FlowIsRunning ==
    ASSUME ServiceInv, NEW i \in Ids, FlowFinalizes(i), NEW j \in Ids, IsRunning(j)
    PROVE  j = i
<1> USE DEF ServiceInv, IInv, ThreadInv, NewestInv, TypeOK
<1>1. thread[i] = "body" /\ i <= created
    BY MaxResultsAssumption DEF FlowFinalizes, Ids
<1>2. IsRunning(i)
    BY <1>1 DEF IsRunning, BlankCell
<1>3. i = created /\ j = created
    BY <1>1, <1>2, MaxResultsAssumption DEF IsRunning, Ids
<1>4. QED
    BY <1>3

LEMMA RescueIsIdle ==
    ASSUME ServiceInv, FinalizeRescue
    PROVE  \A i \in Ids : ~IsRunning(i)
BY ServiceAssumption DEF ServiceInv, IInv, NewestInv, FinalizeRescue, ExecuteSync

\* A finalize_rescue posted by a client ends the serve loop only when no command
\* is running, and one that is a step of a flow only under that flow's command.
THEOREM ShutsDownItself == ServiceSpec => NoForeignShutdown
<1>1. ServiceInv /\ [ServiceNext]_vars =>
          [serveApi' # serveApi =>
              \A i \in Ids : IsRunning(i) => FlowFinalizes(i)]_vars
    <2>1. SUFFICES ASSUME ServiceInv, ServiceNext, serveApi' # serveApi,
                          NEW i \in Ids, IsRunning(i)
                   PROVE  FlowFinalizes(i)
        OBVIOUS
    <2>2. CASE FinalizeRescue
        BY <2>1, <2>2, RescueIsIdle
    <2>3. ASSUME NEW j \in Ids, FlowFinalizes(j)
          PROVE  FlowFinalizes(i)
        BY <2>1, <2>3, FlowIsRunning
    <2>4. ASSUME MainActs \/ StartHeartbeater \/ Stopping \/ Beating \/ Tick
          PROVE  serveApi' = serveApi
        BY <2>4 DEF MainActs, LookupNode, LookupFails, BindServer, EnterHandle,
           HandleOther, ServeFails, LeaveLoop, Exit, StartHeartbeater, Stopping,
           Beating, Tick, mainVars
    <2>5. MainCalls => FinalizeRescue \/ serveApi' = serveApi
        BY DEF MainCalls, HandleRequest, Executing, Respond, mainVars
    <2>6. QED
        BY <2>1, <2>2, <2>3, <2>4, <2>5, ServiceSteps DEF mainVars
<1>2. QED
    BY <1>1, ServiceInvariance, PTL DEF ServiceSpec, NoForeignShutdown

\* A heartbeat is sent only when the node is known and, but while the agent
\* stops or after it crashed, the server listens.
THEOREM ListensWhenHeard == ServiceSpec => HeartbeatsWhileListening
<1>1. ServiceInv /\ [ServiceNext]_vars =>
          [hbAt' = "sending" =>
              nodeKnown /\ (listening \/ ~serveApi \/ main = "crashed")]_vars
    <2>1. SUFFICES ASSUME ServiceInv, ServiceNext, hbAt' = "sending"
                   PROVE  nodeKnown /\ (listening \/ ~serveApi \/ main = "crashed")
        OBVIOUS
    <2>2. hbAt # "new"
        <3>1. CASE StartHeartbeater
            BY <2>1, <3>1 DEF StartHeartbeater, StartThread, HBGoto
        <3>2. CASE ~StartHeartbeater
            BY <2>1, <3>2, OnlyMainStarts
        <3>3. QED
            BY <3>1, <3>2
    <2>3. QED
        BY <2>1, <2>2 DEF ServiceInv, MainInv, ServiceTypeOK
<1>2. QED
    BY <1>1, ServiceInvariance, PTL DEF ServiceSpec, HeartbeatsWhileListening

\* To the executor of commands the agent's main thread is a caller like any
\* other: one command at a time, and the command log, hold of the process.
THEOREM ServiceCallsExecutor ==
    ServiceSpec => []AtMostOneRunning /\ FinalResultsAreStable /\ ImplementsLog
<1>1. ServiceInit => Init
    BY DEF ServiceInit
<1>2. ServiceSpec => Spec
    BY <1>1, ServiceStepsAreSteps, PTL DEF ServiceSpec, Spec
<1>3. QED
    BY <1>2, OneCommandAtATime, FinishedStaysFinished, Refinement, PTL

-------------------------------------------------------------------------------
(* The byte of force_heartbeat.  That a heartbeat follows a finished command *)
(* is liveness; that what brings it about is never lost is an invariant.     *)

\* The pipe is made after the thread is started and, until the agent stops,
\* is never closed and holds the bytes of force_heartbeat only.
WriterInv ==
    /\ hbAt \in {"new", "address"} => writer = "none" /\ interval = 0
    /\ serveApi =>
          /\ \A n \in DOMAIN pipe : pipe[n] = "b"
          /\ hbAt \notin {"close", "clear"} /\ writer # "closed"
          /\ hbAt \notin {"new", "address", "dead"} => writer = "open"
          /\ \A i \in Ids : forcing[i] = "writing" => writer = "open"

\* A command forces a heartbeat when its result is published, not before.
ForcingInv ==
    \A i \in Ids : forcing[i] # "idle" => thread[i] \in {"finally", "dead"}

\* The heartbeat thread is on its way to a heartbeat and waits for no clock.
BeatIsDue ==
    \/ hbAt \in {"new", "address", "read", "beat"}
    \/ hbAt = "poll" /\ interval = 0
    \/ pipe # << >>

\* A command that has finished, that no heartbeat has followed and that is
\* through force_heartbeat has a heartbeat due: in no interleaving of the
\* write with the making of the pipe, the poll and the read is it lost.
WakeupIsPending ==
    serveApi /\ hbAt # "dead" =>
        \A i \in unreported : forcing[i] = "done" => BeatIsDue

WakeInv == WriterInv /\ ForcingInv /\ WakeupIsPending

LEMMA InitWakeInv == ServiceInit => WakeInv
BY ServiceAssumption
   DEF ServiceInit, HBInit, WakeInv, WriterInv, ForcingInv, WakeupIsPending

\* A step of the executor alone that starts no thread which has forced.
LEMMA ExecutorKeepsWake ==
    ASSUME ServiceInv, WakeInv, UNCHANGED hbVars, UNCHANGED unreported,
           serveApi' => serveApi,
           \A i \in Ids : thread[i] \in {"finally", "dead"} =>
                             thread'[i] \in {"finally", "dead"}
    PROVE  WakeInv'
BY DEF WakeInv, WriterInv, ForcingInv, WakeupIsPending, BeatIsDue, hbVars, hbThreadVars

\* A caller touches the thread of a new result only, which has not begun.
LEMMA CallerKeepsBegun ==
    ASSUME IInv, CallerNext, NEW i \in Ids, thread[i] \in {"finally", "dead"}
    PROVE  thread'[i] \in {"finally", "dead"}
<1> USE DEF IInv, TypeOK
<1>1. ASSUME NEW c \in Callers, ExecuteAsync(c)
      PROVE  thread'[i] = thread[i]
    <2>1. thread[New] = "none" /\ New \in Ids
        BY <1>1 DEF ExecuteAsync, Construct, ThreadInv, New, Ids
    <2>2. i # New
        BY <2>1
    <2>3. QED
        BY <1>1, <2>2 DEF ExecuteAsync
<1>2. QED
    BY <1>1 DEF CallerNext, InsideExecute, BeginExecute, Malformed, Busy, PassCheck,
       Reject, LeaveRefused, ExecuteSync, ExecuteFails, Construct, Record, Return,
       threadVars

LEMMA ThreadKeepsBegun ==
    ASSUME TypeOK, ThreadNext, NEW i \in Ids, thread[i] \in {"finally", "dead"}
    PROVE  thread'[i] \in {"finally", "dead"}
BY DEF TypeOK, ThreadNext, FinishBody, ThreadProgress, PublishData, PublishStatus,
       ResetResult, EndThread, Step

\* The heartbeat thread reads "b" while the agent serves, and so goes on.
LEMMA BeatingKeepsWake ==
    ASSUME ServiceInv, WakeInv, Beating \/ Tick
    PROVE  WakeInv'
<1> USE DEF ServiceInv, ServiceTypeOK, HBTypeOK, WakeInv, WriterInv, ForcingInv,
            WakeupIsPending, BeatIsDue, HBGoto, execVars, threadVars, mainVars
<1>1. CASE Tick
    BY <1>1 DEF Tick, PollTimeout
<1>2. ASSUME Beating, FindAddress \/ NoAddress \/ PollReady \/ PollTimeout
                      \/ SendHeartbeat \/ ClosePipe \/ ClearPipe
      PROVE  WakeInv'
    BY <1>2 DEF Beating, FindAddress, NoAddress, PollReady, PollTimeout, SendHeartbeat,
                ClosePipe, ClearPipe
<1>3. ASSUME Beating, ReadByte
      PROVE  WakeInv'
    <2>1. pipe # << >>
        BY <1>3 DEF ReadByte, PipeInv
    <2>2. /\ Len(pipe) \in Nat /\ Len(pipe) > 0
          /\ Tail(pipe) \in Seq({"a", "b"}) /\ Len(Tail(pipe)) = Len(pipe) - 1
          /\ \A n \in 1 .. Len(Tail(pipe)) : Tail(pipe)[n] = pipe[n + 1]
        BY <2>1, HeadTailProperties
    <2>3. serveApi => Head(pipe) = "b" /\ \A n \in DOMAIN Tail(pipe) : Tail(pipe)[n] = "b"
        BY <2>1, <2>2
    <2>4. serveApi => hbAt' = "beat"
        BY <1>3, <2>3 DEF ReadByte
    <2>5. QED
        BY <1>3, <2>3, <2>4 DEF Beating, ReadByte
<1>4. ASSUME Beating, NEW ok \in BOOLEAN, HeartbeatReturns(ok)
      PROVE  WakeInv'
    BY <1>4 DEF Beating, HeartbeatReturns
<1>5. QED
    BY <1>1, <1>2, <1>3, <1>4 DEF Beating, HBProgress

\* While the agent serves the descriptor a command loads stays open, so the
\* byte it writes gets into the pipe.
LEMMA ForcingKeepsWake ==
    ASSUME ServiceInv, WakeInv, NEW i \in Ids, CommandForces(i)
    PROVE  WakeInv'
<1> USE ServiceAssumption
        DEF ServiceInv, ServiceTypeOK, HBTypeOK, hbThreadVars, execVars, threadVars,
            mainVars, CommandForces
<1>1. UNCHANGED <<hbAt, interval, writer, serveApi, thread, unreported>>
    BY DEF ForceHeartbeat, LoadWriter, WriteForce
<1>2. \A j \in Ids : j # i => forcing'[j] = forcing[j]
    BY DEF ForceHeartbeat, LoadWriter, WriteForce
<1>3. ForcingInv'
    BY <1>1, <1>2 DEF WakeInv, ForcingInv
<1>4. CASE LoadWriter(i)
    <2>1. pipe' = pipe /\ forcing'[i] = IF writer = "none" THEN "done" ELSE "writing"
        BY <1>4 DEF LoadWriter
    <2>2. serveApi => writer \in {"none", "open"}
        BY DEF WakeInv, WriterInv
    <2>3. WriterInv'
        BY <1>1, <1>2, <2>1, <2>2 DEF WakeInv, WriterInv
    <2>4. WakeupIsPending'
        BY <1>1, <1>2, <2>1 DEF WakeInv, WriterInv, WakeupIsPending, BeatIsDue
    <2>5. QED
        BY <1>3, <2>3, <2>4 DEF WakeInv
<1>5. CASE WriteForce(i)
    <2>1. ASSUME serveApi
          PROVE  pipe' = Append(pipe, "b")
        BY <1>5, <2>1 DEF WriteForce, WakeInv, WriterInv
    <2>2. /\ Append(pipe, "b") # << >>
          /\ (\A n \in DOMAIN pipe : pipe[n] = "b") =>
                \A n \in DOMAIN Append(pipe, "b") : Append(pipe, "b")[n] = "b"
        BY AppendProperties
    <2>3. WriterInv'
        BY <1>1, <1>2, <1>5, <2>1, <2>2 DEF WriteForce, WakeInv, WriterInv
    <2>4. WakeupIsPending'
        BY <1>1, <2>1, <2>2 DEF WakeupIsPending, BeatIsDue
    <2>5. QED
        BY <1>3, <2>3, <2>4 DEF WakeInv
<1>6. QED
    BY <1>4, <1>5 DEF ForceHeartbeat

\* A command that finishes has not forced a heartbeat yet.
LEMMA PublishingKeepsWake ==
    ASSUME ServiceInv, WakeInv, NEW i \in Ids, CommandPublishes(i)
    PROVE  WakeInv'
<1> USE DEF ServiceInv, IInv, ServiceTypeOK, HBTypeOK, hbVars, hbThreadVars, mainVars,
            CommandPublishes
<1>1. ThreadNext
    BY DEF ThreadNext, ThreadProgress
<1>2. \A j \in Ids : thread[j] \in {"finally", "dead"} =>
                         thread'[j] \in {"finally", "dead"}
    BY <1>1, ThreadKeepsBegun
<1>3. thread[i] \notin {"finally", "dead"}
    BY DEF PublishData, PublishStatus, ResetResult, Step
<1>4. forcing[i] = "idle"
    BY <1>3 DEF WakeInv, ForcingInv
<1>5. WriterInv' /\ ForcingInv'
    BY <1>2 DEF WakeInv, WriterInv, ForcingInv
<1>6. WakeupIsPending'
    BY <1>4 DEF WakeInv, WakeupIsPending, BeatIsDue
<1>7. QED
    BY <1>5, <1>6 DEF WakeInv

LEMMA StepWakeInv == ServiceInv /\ WakeInv /\ [ServiceNext]_vars => WakeInv'
<1> SUFFICES ASSUME ServiceInv, WakeInv, [ServiceNext]_vars
             PROVE  WakeInv'
    OBVIOUS
<1>0. IInv /\ TypeOK
    BY DEF ServiceInv, IInv
<1>1. CASE StartHeartbeater
    BY <1>1 DEF StartHeartbeater, StartThread, HBGoto, WakeInv, WriterInv, ForcingInv,
       WakeupIsPending, BeatIsDue, execVars, threadVars
<1>2. CASE Stopping
    <2>1. ~serveApi
        BY <1>2 DEF Stopping, ServiceInv, MainInv
    <2>2. QED
        BY <1>2, <2>1 DEF Stopping, StopHeartbeater, CheckWriter, WriteStop,
           JoinHeartbeater, hbThreadVars, WakeInv, WriterInv, ForcingInv,
           WakeupIsPending, execVars, threadVars, mainVars
<1>3. CASE Beating \/ Tick
    BY <1>3, BeatingKeepsWake
<1>4. CASE MainActs /\ UNCHANGED <<execVars, hbVars>>
    <2>1. UNCHANGED unreported /\ (serveApi' => serveApi) /\ thread' = thread
        BY <1>4 DEF MainActs, LookupNode, LookupFails, BindServer, EnterHandle,
           HandleOther, ServeFails, LeaveLoop, Exit, execVars, threadVars
    <2>2. QED
        BY <1>4, <2>1, ExecutorKeepsWake
<1>5. CASE CallerNext /\ MainCalls /\ UNCHANGED hbVars
    <2>1. UNCHANGED unreported /\ (serveApi' => serveApi)
        BY <1>5 DEF MainCalls, HandleRequest, Executing, FinalizeRescue, Respond, mainVars
    <2>2. QED
        BY <1>0, <1>5, <2>1, CallerKeepsBegun, ExecutorKeepsWake
<1>6. ASSUME NEW i \in Ids, CommandBody(i) \/ CommandEnds(i)
      PROVE  WakeInv'
    <2>1. ThreadNext /\ UNCHANGED hbVars /\ UNCHANGED unreported /\ serveApi' = serveApi
        BY <1>6 DEF CommandBody, CommandEnds, ThreadNext, ThreadProgress, Terminal,
                    mainVars
    <2>2. QED
        BY <1>0, <2>1, ThreadKeepsBegun, ExecutorKeepsWake
<1>7. ASSUME NEW i \in Ids, CommandPublishes(i)
      PROVE  WakeInv'
    BY <1>7, PublishingKeepsWake
<1>8. ASSUME NEW i \in Ids, CommandForces(i)
      PROVE  WakeInv'
    BY <1>8, ForcingKeepsWake
<1>9. ASSUME NEW i \in Ids, FlowFinalizes(i)
      PROVE  WakeInv'
    <2>1. /\ UNCHANGED unreported /\ (serveApi' => serveApi) /\ thread' = thread
          /\ UNCHANGED hbVars
        BY <1>9 DEF FlowFinalizes, execVars, threadVars
    <2>2. QED
        BY <2>1, ExecutorKeepsWake
<1>10. CASE UNCHANGED vars
    BY <1>10, ExecutorKeepsWake DEF vars, execVars, threadVars, mainVars
<1>11. CASE ServiceNext
    <2>1. CASE MainActs \/ MainCalls \/ StartHeartbeater \/ Stopping
        BY <1>1, <1>2, <1>4, <1>5, <1>11, <2>1, MainParts
    <2>2. CASE \E i \in Ids : CommandBody(i) \/ FlowFinalizes(i) \/ CommandProgress(i)
        BY <1>6, <1>7, <1>8, <1>9, <2>2 DEF CommandProgress
    <2>3. QED
        BY <1>3, <1>11, <2>1, <2>2 DEF ServiceNext, MainProgress, MainServes, MainActs,
                                       MainCalls
<1>12. QED
    BY <1>10, <1>11

\* A finished command that has forced a heartbeat has one due, at any moment
\* in which the agent serves and has a heartbeat thread.
THEOREM WakeupIsNotLost == ServiceSpec => []WakeupIsPending
<1>1. ServiceInit => ServiceInv /\ WakeInv
    BY InitServiceInv, InitWakeInv
<1>2. ServiceInv /\ WakeInv /\ [ServiceNext]_vars => ServiceInv' /\ WakeInv'
    BY StepServiceInv, StepWakeInv
<1>3. WakeInv => WakeupIsPending
    BY DEF WakeInv
<1>4. QED
    BY <1>1, <1>2, <1>3, PTL DEF ServiceSpec
===============================================================================
