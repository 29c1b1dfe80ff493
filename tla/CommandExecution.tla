--------------------------- MODULE CommandExecution ---------------------------
(***************************************************************************)
(* The command executor shared by the agent and by the flow extension      *)
(* (ExecuteCommandMixin) together with the background threads of the       *)
(* asynchronous commands it starts (AsyncCommandResult).                   *)
(*                                                                         *)
(* A caller takes command_lock, is refused if the newest command is still  *)
(* running, runs the command, and records its result before it releases    *)
(* the lock.  An asynchronous command goes on in a thread of its own,      *)
(* which publishes data and status, one field at a time, under a lock of   *)
(* the result.                                                             *)
(***************************************************************************)
EXTENDS Naturals, Sequences

CONSTANTS
    Callers,     \* the threads that call execute_command on this executor
    NoCaller,    \* what lock holds when command_lock is free
    MaxResults   \* bound: how many commands are ever accepted

ASSUME CallersAssumption == NoCaller \notin Callers
ASSUME MaxResultsAssumption == MaxResults \in Nat

Running == "RUNNING"
Succeeded == "SUCCEEDED"
Failed == "FAILED"
VersionMismatch == "CLEAN_VERSION_MISMATCH"
Terminal == {Succeeded, Failed, VersionMismatch}
Status == Terminal \cup {Running}

Ids == 1 .. MaxResults
NoId == 0

\* A command as the executor tells commands apart: a name that does not split
\* into extension and command, or one that runs in the caller, or in a thread.
Kinds == {"malformed", "sync", "async"}

\* The fields of a result a client reads; error and result say whether the
\* field is set.
Cell == [status : Status, error : BOOLEAN, result : BOOLEAN]

VARIABLES
    lock,      \* the holder of command_lock
    pc,        \* where each caller is in execute_command
    request,   \* the kind of command each caller executes
    local,     \* each caller's local variable `result`
    created,   \* how many results have been constructed
    cell,      \* the fields of each result
    results,   \* command_results, an OrderedDict, in its order
    thread,    \* where each result's execution thread is
    outcome    \* how each thread's execute_method ended

callVars == <<lock, pc, request, local>>
resultVars == <<created, cell, results>>
threadVars == <<thread, outcome>>
execVars == <<callVars, resultVars, threadVars>>

CallerAt == {"idle", "check", "execute", "record", "returned", "refused"}
ThreadAt == {"none", "body", "data", "status", "reset", "finally", "dead"}

BlankCell == [status |-> Running, error |-> FALSE, result |-> FALSE]

Init ==
    /\ lock = NoCaller
    /\ pc = [c \in Callers |-> "idle"]
    /\ request = [c \in Callers |-> "malformed"]
    /\ local = [c \in Callers |-> NoId]
    /\ created = 0
    /\ cell = [i \in Ids |-> BlankCell]
    /\ results = << >>
    /\ thread = [i \in Ids |-> "none"]
    /\ outcome = [i \in Ids |-> Failed]

TypeOK ==
    /\ lock \in Callers \cup {NoCaller}
    /\ pc \in [Callers -> CallerAt]
    /\ request \in [Callers -> Kinds]
    /\ local \in [Callers -> Ids \cup {NoId}]
    /\ created \in 0 .. MaxResults
    /\ cell \in [Ids -> Cell]
    /\ results \in Seq(Ids)
    /\ thread \in [Ids -> ThreadAt]
    /\ outcome \in [Ids -> Terminal]

-------------------------------------------------------------------------------
(* A caller in execute_command. *)

Goto(c, at) == pc' = [pc EXCEPT ![c] = at]

\* Entering `with self.command_lock`.
BeginExecute(c, k) ==
    /\ pc[c] = "idle"
    /\ lock = NoCaller
    /\ lock' = c
    /\ request' = [request EXCEPT ![c] = k]
    /\ Goto(c, "check")
    /\ UNCHANGED <<local, resultVars, threadVars>>

\* Mutant: an exception leaves the lock taken.
LeaveRefusedLocked(c) ==
    /\ Goto(c, "refused")
    /\ UNCHANGED <<lock, request, local, resultVars, threadVars>>

\* An exception leaves execute_command: the lock is released and nothing is
\* recorded.
LeaveRefused(c) ==
    /\ lock' = NoCaller
    /\ Goto(c, "refused")
    /\ UNCHANGED <<request, local, resultVars, threadVars>>

\* split_command runs first, so a malformed name is reported even when busy.
Malformed(c) ==
    /\ pc[c] = "check"
    /\ request[c] = "malformed"
    /\ LeaveRefused(c)

\* Mutant: the state lock is never released.
KeepsStateLock(i) == thread[i] \in {"data", "status", "reset", "finally", "dead"}

\* The command_state_lock of a result is held by its own thread only.
HoldsStateLock(i) == thread[i] \in {"data", "status", "reset"}

\* is_done takes the state lock: it waits while the thread publishes.
CanCheck(i) == ~HoldsStateLock(i)
IsDone(i) == cell[i].status # Running

Newest == results[Len(results)]

\* "agent is busy": the newest command is not done.
Busy(c) ==
    /\ pc[c] = "check"
    /\ request[c] # "malformed"
    /\ results # << >>
    /\ CanCheck(Newest)
    /\ ~IsDone(Newest)
    /\ LeaveRefused(c)

\* Mutant: no check for a running command.
PassCheckWhenBusy(c) ==
    /\ pc[c] = "check"
    /\ request[c] # "malformed"
    /\ Goto(c, "execute")
    /\ UNCHANGED <<lock, request, local, resultVars, threadVars>>

\* Mutant: the oldest command is checked instead of the newest.
PassCheckOldest(c) ==
    /\ pc[c] = "check"
    /\ request[c] # "malformed"
    /\ results # << >> => CanCheck(Head(results)) /\ IsDone(Head(results))
    /\ Goto(c, "execute")
    /\ UNCHANGED <<lock, request, local, resultVars, threadVars>>

PassCheck(c) ==
    /\ pc[c] = "check"
    /\ request[c] # "malformed"
    /\ results # << >> => CanCheck(Newest) /\ IsDone(Newest)
    /\ Goto(c, "execute")
    /\ UNCHANGED <<lock, request, local, resultVars, threadVars>>

\* No such extension, a KeyError from the command itself, or an
\* InvalidContentError (unknown command, bad parameters): re-raised.
Reject(c) ==
    /\ pc[c] = "execute"
    /\ LeaveRefused(c)

New == created + 1

\* A result object is constructed and becomes the caller's local `result`.
Construct(c, cl) ==
    /\ New \in Ids
    /\ created' = New
    /\ cell' = [cell EXCEPT ![New] = cl]
    /\ local' = [local EXCEPT ![c] = New]
    /\ Goto(c, "record")
    /\ UNCHANGED <<lock, request, results>>

\* Mutant: a result that lacks the command_error field.
SuccessCellNoError == [status |-> Succeeded, result |-> TRUE]

SuccessCell == [status |-> Succeeded, error |-> FALSE, result |-> TRUE]
FailureCell == [status |-> Failed, error |-> TRUE, result |-> FALSE]

\* A synchronous command returns a SyncCommandResult.
ExecuteSync(c) ==
    /\ pc[c] = "execute"
    /\ request[c] = "sync"
    /\ Construct(c, SuccessCell)
    /\ UNCHANGED threadVars

\* Any other exception, also one from an asynchronous command before its
\* thread starts, is recorded as a failed SyncCommandResult.
ExecuteFails(c) ==
    /\ pc[c] = "execute"
    /\ Construct(c, FailureCell)
    /\ UNCHANGED threadVars

\* AsyncCommandResult(...).start(): the thread runs before the result is
\* recorded.
ExecuteAsync(c) ==
    /\ pc[c] = "execute"
    /\ request[c] = "async"
    /\ Construct(c, BlankCell)
    /\ thread' = [thread EXCEPT ![New] = "body"]
    /\ UNCHANGED outcome

\* The result is recorded and only then is the lock released.
Record(c) ==
    /\ pc[c] = "record"
    /\ results' = Append(results, local[c])
    /\ lock' = NoCaller
    /\ Goto(c, "returned")
    /\ UNCHANGED <<request, local, created, cell, threadVars>>

\* The caller has used what execute_command returned or raised; the call's
\* arguments and locals are gone.
Return(c) ==
    /\ pc[c] \in {"returned", "refused"}
    /\ Goto(c, "idle")
    /\ request' = [request EXCEPT ![c] = "malformed"]
    /\ local' = [local EXCEPT ![c] = NoId]
    /\ UNCHANGED <<lock, resultVars, threadVars>>

-------------------------------------------------------------------------------
(* The execution thread of result i: AsyncCommandResult.run. *)

Step(i, from, to) ==
    /\ thread[i] = from
    /\ thread' = [thread EXCEPT ![i] = to]

\* execute_method returns or raises; the thread takes command_state_lock.
FinishBody(i, o) ==
    /\ Step(i, "body", "data")
    /\ outcome' = [outcome EXCEPT ![i] = o]
    /\ UNCHANGED <<callVars, resultVars>>

\* First the data ...
PublishData(i) ==
    /\ Step(i, "data", "status")
    /\ cell' = IF outcome[i] = Succeeded THEN [cell EXCEPT ![i].result = TRUE]
                                         ELSE [cell EXCEPT ![i].error = TRUE]
    /\ UNCHANGED <<callVars, created, results, outcome>>

\* ... then the status; on a version mismatch the result is reset after it.
PublishStatus(i) ==
    /\ Step(i, "status", IF outcome[i] = VersionMismatch THEN "reset"
                                                         ELSE "finally")
    /\ cell' = [cell EXCEPT ![i].status = outcome[i]]
    /\ UNCHANGED <<callVars, created, results, outcome>>

\* Mutant: the wrong field is reset.
ResetError(i) ==
    /\ Step(i, "reset", "finally")
    /\ cell' = [cell EXCEPT ![i].error = FALSE]
    /\ UNCHANGED <<callVars, created, results, outcome>>

ResetResult(i) ==
    /\ Step(i, "reset", "finally")
    /\ cell' = [cell EXCEPT ![i].result = FALSE]
    /\ UNCHANGED <<callVars, created, results, outcome>>

\* The finally clause asks for a heartbeat (see AgentService) and the thread
\* ends, also when that request raises.
EndThread(i) ==
    /\ Step(i, "finally", "dead")
    /\ UNCHANGED <<callVars, resultVars, outcome>>

ThreadProgress(i) ==
    \/ PublishData(i)
    \/ PublishStatus(i)
    \/ ResetResult(i)
    \/ EndThread(i)

\* Mutant: join waits only for execute_method.
JoinableAfterBody(i) == thread[i] # "body"

\* Thread.join returns; a SyncCommandResult's join returns at once.
Joinable(i) == thread[i] \in {"none", "dead"}

-------------------------------------------------------------------------------
\* What a caller does inside execute_command.
InsideExecute(c) ==
    \/ Malformed(c)
    \/ Busy(c)
    \/ PassCheck(c)
    \/ Reject(c)
    \/ ExecuteSync(c)
    \/ ExecuteFails(c)
    \/ ExecuteAsync(c)
    \/ Record(c)

CallerNext ==
    \/ \E c \in Callers, k \in Kinds : BeginExecute(c, k)
    \/ \E c \in Callers : InsideExecute(c)
    \/ \E c \in Callers : Return(c)

ThreadNext ==
    \/ \E i \in Ids, o \in Terminal : FinishBody(i, o)
    \/ \E i \in Ids : ThreadProgress(i)

Next == CallerNext \/ ThreadNext

Spec == Init /\ [][Next]_execVars

-------------------------------------------------------------------------------
(* The command log a client sees, as CommandLog states it. *)
Log == INSTANCE CommandLog WITH
           log <- [k \in DOMAIN results |-> cell[results[k]].status]

\* The executor implements the command log (execute_command, run).
ImplementsLog == Log!Spec

\* At most one command of this executor is running, counting the one that is
\* started but not recorded yet (the "agent is busy" check of
\* execute_command together with command_lock).
IsRunning(i) == i <= created /\ cell[i].status = Running
AtMostOneRunning ==
    \A i, j \in Ids : IsRunning(i) /\ IsRunning(j) => i = j

\* Once a result has left RUNNING none of its fields changes (run writes the
\* status last, and nothing writes a SyncCommandResult).
FinalResultsAreStable ==
    [][\A i \in Ids : IsDone(i) => cell'[i] = cell[i]]_cell
===============================================================================
