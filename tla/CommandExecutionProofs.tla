------------------------ MODULE CommandExecutionProofs ------------------------
(***************************************************************************)
(* Proofs about the command executor and about the command API over it,    *)
(* for any set of callers and any number of commands.  The API stands here *)
(* because to the executor it is just its callers, and its handlers read   *)
(* what the executor's invariant speaks of.                                *)
(***************************************************************************)
EXTENDS CommandAPI, SequenceTheorems, TLAPS

\* Mutual exclusion: exactly the holder of command_lock is between the lock
\* and the return.
LockInv ==
    \A c \in Callers :
        pc[c] \in {"check", "execute", "record"} <=> lock = c

\* command_results holds the constructed results in their order, except the
\* one that is about to be recorded.
RecordInv ==
    /\ \A k \in 1 .. Len(results) : results[k] = k
    /\ \A c \in Callers :
           pc[c] = "record" => /\ created = Len(results) + 1
                               /\ local[c] = created
    /\ (\A c \in Callers : pc[c] # "record") => created = Len(results)

\* What a result holds at each point of its thread.
ThreadInv ==
    \A i \in Ids :
        /\ i > created => thread[i] = "none" /\ cell[i] = BlankCell
        /\ thread[i] \in {"body", "data"} => cell[i] = BlankCell
        /\ thread[i] = "status" =>
               /\ cell[i].status = Running
               /\ outcome[i] # Succeeded => cell[i].result = FALSE
        /\ thread[i] = "reset" => cell[i].result = FALSE
        /\ IsRunning(i) => thread[i] \in {"body", "data", "status"}

\* Only the newest result may be running, and none while a caller that has
\* passed the check executes its command.
NewestInv ==
    /\ \A i \in Ids : i < created => ~IsRunning(i)
    /\ \A c \in Callers : pc[c] = "execute" => \A i \in Ids : ~IsRunning(i)

IInv == TypeOK /\ LockInv /\ RecordInv /\ ThreadInv /\ NewestInv

-------------------------------------------------------------------------------
LEMMA InitIInv == Init => IInv
<1> SUFFICES ASSUME Init PROVE IInv
    OBVIOUS
<1> USE DEF Init, Ids, NoId, BlankCell, Running, Failed, Terminal, Status
<1>1. TypeOK
    BY MaxResultsAssumption DEF TypeOK, CallerAt, ThreadAt, Kinds, Cell, Succeeded
<1>2. LockInv
    BY CallersAssumption DEF LockInv
<1>3. RecordInv
    BY DEF RecordInv
<1>4. ThreadInv
    BY MaxResultsAssumption DEF ThreadInv, IsRunning
<1>5. NewestInv
    BY MaxResultsAssumption DEF NewestInv, IsRunning
<1>6. QED
    BY <1>1, <1>2, <1>3, <1>4, <1>5 DEF IInv

-------------------------------------------------------------------------------
(* Type correctness, one group of actions at a time. *)

LEMMA CallerType ==
    ASSUME TypeOK, RecordInv, CallerNext
    PROVE  TypeOK'
<1> USE DEF TypeOK, CallerAt, Goto
<1>1. ASSUME NEW c \in Callers, NEW k \in Kinds, BeginExecute(c, k)
      PROVE  TypeOK'
    BY <1>1 DEF BeginExecute, resultVars, threadVars
<1>2. ASSUME NEW c \in Callers, LeaveRefused(c)
      PROVE  TypeOK'
    BY <1>2 DEF LeaveRefused, resultVars, threadVars
<1>3. ASSUME NEW c \in Callers, PassCheck(c)
      PROVE  TypeOK'
    BY <1>3 DEF PassCheck, resultVars, threadVars
<1>4. ASSUME NEW c \in Callers, NEW cl \in Cell, Construct(c, cl),
             thread' \in [Ids -> ThreadAt], outcome' \in [Ids -> Terminal]
      PROVE  TypeOK'
    BY <1>4, MaxResultsAssumption DEF Construct, New, Ids
<1>5. BlankCell \in Cell /\ SuccessCell \in Cell /\ FailureCell \in Cell
    BY DEF BlankCell, SuccessCell, FailureCell, Cell, Status, Terminal,
           Running, Succeeded, Failed
<1>6. ASSUME NEW c \in Callers, ExecuteSync(c) \/ ExecuteFails(c)
      PROVE  TypeOK'
    BY <1>4, <1>5, <1>6 DEF ExecuteSync, ExecuteFails, threadVars
<1>7. ASSUME NEW c \in Callers, ExecuteAsync(c)
      PROVE  TypeOK'
    <2>1. thread' \in [Ids -> ThreadAt] /\ outcome' \in [Ids -> Terminal]
        BY <1>7 DEF ExecuteAsync, ThreadAt
    <2>2. QED
        BY <1>4, <1>5, <1>7, <2>1 DEF ExecuteAsync
<1>8. ASSUME NEW c \in Callers, Record(c)
      PROVE  TypeOK'
    <2>1. local[c] \in Ids
        BY <1>8 DEF Record, RecordInv, Ids
    <2>2. QED
        BY <1>8, <2>1 DEF Record, threadVars
<1>9. ASSUME NEW c \in Callers, Return(c)
      PROVE  TypeOK'
    BY <1>9 DEF Return, resultVars, threadVars, Kinds
<1>10. QED
    BY <1>1, <1>2, <1>3, <1>6, <1>7, <1>8, <1>9
       DEF CallerNext, InsideExecute, Malformed, Busy, Reject

LEMMA ThreadType ==
    ASSUME TypeOK, ThreadNext
    PROVE  TypeOK'
<1> USE DEF TypeOK, ThreadAt, Step, callVars, resultVars
<1>1. ASSUME NEW i \in Ids, NEW o \in Terminal, FinishBody(i, o)
      PROVE  TypeOK'
    BY <1>1 DEF FinishBody
<1>2. ASSUME NEW i \in Ids, NEW cl \in Cell, NEW t \in ThreadAt,
             cell' = [cell EXCEPT ![i] = cl],
             thread' = [thread EXCEPT ![i] = t],
             UNCHANGED <<callVars, created, results, outcome>>
      PROVE  TypeOK'
    BY <1>2
<1>3. ASSUME NEW i \in Ids, PublishData(i)
      PROVE  TypeOK'
    BY <1>3 DEF PublishData, Cell
<1>4. ASSUME NEW i \in Ids, PublishStatus(i)
      PROVE  TypeOK'
    BY <1>4 DEF PublishStatus, Cell, Status
<1>5. ASSUME NEW i \in Ids, ResetResult(i)
      PROVE  TypeOK'
    BY <1>5 DEF ResetResult, Cell
<1>6. ASSUME NEW i \in Ids, EndThread(i)
      PROVE  TypeOK'
    BY <1>6 DEF EndThread
<1>7. QED
    BY <1>1, <1>3, <1>4, <1>5, <1>6 DEF ThreadNext, ThreadProgress

-------------------------------------------------------------------------------
(* The lock. *)

LEMMA CallerLock ==
    ASSUME TypeOK, LockInv, CallerNext
    PROVE  LockInv'
<1> USE CallersAssumption DEF TypeOK, LockInv, Goto
<1>1. ASSUME NEW c \in Callers, NEW k \in Kinds, BeginExecute(c, k)
      PROVE  LockInv'
    BY <1>1 DEF BeginExecute
<1>2. ASSUME NEW c \in Callers, LeaveRefused(c), lock = c
      PROVE  LockInv'
    BY <1>2 DEF LeaveRefused
<1>3. ASSUME NEW c \in Callers, Malformed(c) \/ Busy(c) \/ Reject(c)
      PROVE  LockInv'
    BY <1>2, <1>3 DEF Malformed, Busy, Reject
<1>4. ASSUME NEW c \in Callers,
             PassCheck(c) \/ ExecuteSync(c) \/ ExecuteFails(c) \/ ExecuteAsync(c)
      PROVE  LockInv'
    BY <1>4 DEF PassCheck, ExecuteSync, ExecuteFails, ExecuteAsync, Construct
<1>5. ASSUME NEW c \in Callers, Record(c)
      PROVE  LockInv'
    BY <1>5 DEF Record
<1>6. ASSUME NEW c \in Callers, Return(c)
      PROVE  LockInv'
    BY <1>6 DEF Return
<1>7. QED
    BY <1>1, <1>3, <1>4, <1>5, <1>6 DEF CallerNext, InsideExecute

\* The threads of the commands touch neither the lock nor the callers.
LEMMA ThreadKeepsCalls ==
    ASSUME ThreadNext
    PROVE  UNCHANGED <<callVars, created, results>>
BY DEF ThreadNext, ThreadProgress, FinishBody, PublishData, PublishStatus,
       ResetResult, EndThread, resultVars

-------------------------------------------------------------------------------
(* The order of command_results. *)

LEMMA CallerRecord ==
    ASSUME TypeOK, LockInv, RecordInv, CallerNext
    PROVE  RecordInv'
<1> USE CallersAssumption DEF TypeOK, Goto
<1>1. ASSUME NEW c \in Callers, pc[c] # "record", UNCHANGED <<created, results>>,
             NEW place \in CallerAt, place # "record", pc' = [pc EXCEPT ![c] = place],
             \A d \in Callers : d # c => local'[d] = local[d]
      PROVE  RecordInv'
    BY <1>1 DEF RecordInv
<1>2. ASSUME NEW c \in Callers, NEW k \in Kinds, BeginExecute(c, k)
      PROVE  RecordInv'
    BY <1>1, <1>2 DEF BeginExecute, CallerAt, resultVars
<1>3. ASSUME NEW c \in Callers,
             Malformed(c) \/ Busy(c) \/ Reject(c) \/ PassCheck(c)
      PROVE  RecordInv'
    BY <1>1, <1>3
       DEF Malformed, Busy, Reject, PassCheck, LeaveRefused, CallerAt, resultVars
<1>4. ASSUME NEW c \in Callers, Return(c)
      PROVE  RecordInv'
    BY <1>1, <1>4 DEF Return, CallerAt, resultVars
<1>5. ASSUME NEW c \in Callers, pc[c] = "execute", NEW cl, Construct(c, cl)
      PROVE  RecordInv'
    <2>1. \A d \in Callers : pc[d] # "record"
        BY <1>5 DEF LockInv
    <2>2. created = Len(results)
        BY <2>1 DEF RecordInv
    <2>3. \A d \in Callers : pc'[d] = "record" => d = c
        BY <1>5, <2>1 DEF Construct
    <2>4. /\ created' = Len(results') + 1
          /\ local'[c] = created'
          /\ results' = results
        BY <1>5, <2>2 DEF Construct, New
    <2>5. pc'[c] = "record"
        BY <1>5 DEF Construct
    <2>6. QED
        BY <2>3, <2>4, <2>5 DEF RecordInv
<1>6. ASSUME NEW c \in Callers,
             ExecuteSync(c) \/ ExecuteFails(c) \/ ExecuteAsync(c)
      PROVE  RecordInv'
    BY <1>5, <1>6 DEF ExecuteSync, ExecuteFails, ExecuteAsync
<1>7. ASSUME NEW c \in Callers, Record(c)
      PROVE  RecordInv'
    <2>1. created = Len(results) + 1 /\ local[c] = created
        BY <1>7 DEF Record, RecordInv
    <2>2. \A d \in Callers : pc'[d] # "record"
        BY <1>7 DEF Record, LockInv
    <2>3. Len(results') = created'
        BY <1>7, <2>1 DEF Record
    <2>4. \A k \in 1 .. Len(results') : results'[k] = k
        BY <1>7, <2>1 DEF Record, RecordInv
    <2>5. QED
        BY <2>2, <2>3, <2>4 DEF RecordInv
<1>8. QED
    BY <1>2, <1>3, <1>4, <1>6, <1>7 DEF CallerNext, InsideExecute

-------------------------------------------------------------------------------
(* The fields of the results and their threads. *)

LEMMA CallerThread ==
    ASSUME TypeOK, ThreadInv, CallerNext
    PROVE  ThreadInv'
<1> USE MaxResultsAssumption DEF TypeOK, ThreadInv, IsRunning
<1>1. ASSUME UNCHANGED <<created, cell, threadVars>>
      PROVE  ThreadInv'
    BY <1>1 DEF threadVars
<1>2. ASSUME NEW c \in Callers, NEW k \in Kinds,
             \/ BeginExecute(c, k) \/ Malformed(c) \/ Busy(c) \/ PassCheck(c)
             \/ Reject(c) \/ Record(c) \/ Return(c)
      PROVE  ThreadInv'
    BY <1>1, <1>2 DEF BeginExecute, Malformed, Busy, PassCheck, Reject, Record,
                      Return, LeaveRefused, resultVars
<1>3. ASSUME NEW c \in Callers, ExecuteSync(c) \/ ExecuteFails(c)
      PROVE  ThreadInv'
    <2>1. PICK cl \in {SuccessCell, FailureCell} : Construct(c, cl)
        BY <1>3 DEF ExecuteSync, ExecuteFails
    <2>2. cl.status # Running
        BY DEF SuccessCell, FailureCell, Running, Succeeded, Failed
    <2>3. thread' = thread /\ outcome' = outcome
        BY <1>3 DEF ExecuteSync, ExecuteFails, threadVars
    <2>4. thread[New] = "none" /\ New \in Ids /\ created' = New
        BY <2>1 DEF Construct, New, Ids
    <2>5. QED
        BY <2>1, <2>2, <2>3, <2>4 DEF Construct, New, Ids
<1>4. ASSUME NEW c \in Callers, ExecuteAsync(c)
      PROVE  ThreadInv'
    BY <1>4 DEF ExecuteAsync, Construct, New, Ids
<1>5. QED
    BY <1>2, <1>3, <1>4 DEF CallerNext, InsideExecute

LEMMA ThreadThread ==
    ASSUME TypeOK, ThreadInv, ThreadNext
    PROVE  ThreadInv'
<1> USE DEF TypeOK, ThreadInv, IsRunning, Step
<1>0. created' = created
    BY ThreadKeepsCalls DEF callVars
<1>1. ASSUME NEW i \in Ids, NEW o \in Terminal, FinishBody(i, o)
      PROVE  ThreadInv'
    BY <1>0, <1>1 DEF FinishBody, resultVars
<1>2. ASSUME NEW i \in Ids, PublishData(i)
      PROVE  ThreadInv'
    <2>1. cell[i] = BlankCell /\ i <= created
        BY <1>2 DEF PublishData, Ids
    <2>2. /\ thread'[i] = "status"
          /\ cell'[i].status = Running
          /\ outcome[i] # Succeeded => cell'[i].result = FALSE
        BY <1>2, <2>1 DEF PublishData, BlankCell, Cell
    <2>3. \A j \in Ids : j # i => thread'[j] = thread[j] /\ cell'[j] = cell[j]
        BY <1>2 DEF PublishData
    <2>4. outcome' = outcome
        BY <1>2 DEF PublishData
    <2>5. QED
        BY <1>0, <2>1, <2>2, <2>3, <2>4, MaxResultsAssumption DEF Ids
<1>3. ASSUME NEW i \in Ids, PublishStatus(i)
      PROVE  ThreadInv'
    <2>1. i <= created
        BY <1>3 DEF PublishStatus, Ids
    <2>2. /\ thread'[i] \in {"reset", "finally"}
          /\ cell'[i].status # Running
          /\ thread'[i] = "reset" => cell'[i].result = FALSE
        BY <1>3 DEF PublishStatus, Cell, Terminal, Running, Succeeded, Failed,
                    VersionMismatch
    <2>3. \A j \in Ids : j # i => thread'[j] = thread[j] /\ cell'[j] = cell[j]
        BY <1>3 DEF PublishStatus
    <2>4. outcome' = outcome
        BY <1>3 DEF PublishStatus
    <2>5. SUFFICES ASSUME NEW j \in Ids
                   PROVE  ThreadInv!(j)'
        OBVIOUS
    <2>6. CASE j = i
        BY <1>0, <2>1, <2>2, <2>6, MaxResultsAssumption DEF Ids
    <2>7. CASE j # i
        BY <1>0, <2>3, <2>4, <2>7
    <2>8. QED
        BY <2>6, <2>7
<1>4. ASSUME NEW i \in Ids, ResetResult(i)
      PROVE  ThreadInv'
    BY <1>0, <1>4 DEF ResetResult, Cell
<1>5. ASSUME NEW i \in Ids, EndThread(i)
      PROVE  ThreadInv'
    BY <1>0, <1>5 DEF EndThread, resultVars
<1>6. QED
    BY <1>1, <1>2, <1>3, <1>4, <1>5 DEF ThreadNext, ThreadProgress

-------------------------------------------------------------------------------
(* Only the newest result runs. *)

\* What a caller that passes the check has established: every result is done.
LEMMA CheckedMeansDone ==
    ASSUME IInv, NEW c \in Callers, PassCheck(c)
    PROVE  \A i \in Ids : ~IsRunning(i)
<1> USE DEF IInv, TypeOK
<1>1. \A d \in Callers : pc[d] # "record"
    BY DEF LockInv, PassCheck
<1>2. created = Len(results)
    BY <1>1 DEF RecordInv
<1>3. CASE results = << >>
    BY <1>2, <1>3 DEF IsRunning, Ids
<1>4. CASE results # << >>
    <2>1. Newest = created
        BY <1>2, <1>4 DEF Newest, RecordInv
    <2>2. cell[created].status # Running
        BY <1>4, <2>1 DEF PassCheck, IsDone
    <2>3. QED
        BY <2>2 DEF NewestInv, IsRunning, Ids
<1>5. QED
    BY <1>3, <1>4

LEMMA CallerNewest ==
    ASSUME IInv, CallerNext
    PROVE  NewestInv'
<1> USE MaxResultsAssumption DEF IInv, TypeOK, NewestInv, Goto
<1>1. ASSUME NEW c \in Callers, NEW place \in CallerAt, place # "execute",
             pc' = [pc EXCEPT ![c] = place], UNCHANGED <<created, cell>>
      PROVE  NewestInv'
    BY <1>1 DEF IsRunning
<1>2. ASSUME NEW c \in Callers, NEW k \in Kinds,
             \/ BeginExecute(c, k) \/ Malformed(c) \/ Busy(c)
             \/ Reject(c) \/ Record(c) \/ Return(c)
      PROVE  NewestInv'
    BY <1>1, <1>2 DEF BeginExecute, Malformed, Busy, Reject, Record, Return,
                      LeaveRefused, CallerAt, resultVars
<1>3. ASSUME NEW c \in Callers, PassCheck(c)
      PROVE  NewestInv'
    BY <1>3, CheckedMeansDone DEF PassCheck, IsRunning, resultVars
<1>4. ASSUME NEW c \in Callers, NEW cl, pc[c] = "execute", Construct(c, cl)
      PROVE  NewestInv'
    <2>1. \A d \in Callers : pc'[d] # "execute"
        BY <1>4 DEF LockInv, Construct
    <2>2. \A i \in Ids : i < created' => ~IsRunning(i)'
        BY <1>4 DEF Construct, New, IsRunning, Ids
    <2>3. QED
        BY <2>1, <2>2
<1>5. ASSUME NEW c \in Callers,
             ExecuteSync(c) \/ ExecuteFails(c) \/ ExecuteAsync(c)
      PROVE  NewestInv'
    BY <1>4, <1>5 DEF ExecuteSync, ExecuteFails, ExecuteAsync
<1>6. QED
    BY <1>2, <1>3, <1>5 DEF CallerNext, InsideExecute

\* A thread never makes a result run that did not.
LEMMA ThreadsOnlyFinish ==
    ASSUME TypeOK, ThreadNext, NEW j \in Ids, cell'[j].status = Running
    PROVE  cell[j].status = Running
<1> USE DEF TypeOK, Cell
<1>1. CASE \E i \in Ids, o \in Terminal : FinishBody(i, o)
    BY <1>1 DEF FinishBody, resultVars
<1>2. CASE \E i \in Ids : PublishData(i)
    BY <1>2 DEF PublishData
<1>3. CASE \E i \in Ids : PublishStatus(i)
    BY <1>3 DEF PublishStatus, Terminal, Running, Succeeded, Failed, VersionMismatch
<1>4. CASE \E i \in Ids : ResetResult(i)
    BY <1>4 DEF ResetResult
<1>5. CASE \E i \in Ids : EndThread(i)
    BY <1>5 DEF EndThread, resultVars
<1>6. QED
    BY <1>1, <1>2, <1>3, <1>4, <1>5 DEF ThreadNext, ThreadProgress

-------------------------------------------------------------------------------
LEMMA StepIInv == IInv /\ [Next]_execVars => IInv'
<1> SUFFICES ASSUME IInv, [Next]_execVars
             PROVE  IInv'
    OBVIOUS
<1>1. CASE CallerNext
    BY <1>1, CallerType, CallerLock, CallerRecord, CallerThread, CallerNewest
       DEF IInv
<1>2. CASE ThreadNext
    <2>1. TypeOK' /\ ThreadInv'
        BY <1>2, ThreadType, ThreadThread DEF IInv
    <2>2. LockInv' /\ RecordInv'
        BY <1>2, ThreadKeepsCalls DEF IInv, LockInv, RecordInv, callVars
    <2>3. NewestInv'
        BY <1>2, ThreadKeepsCalls, ThreadsOnlyFinish
           DEF IInv, NewestInv, IsRunning, callVars
    <2>4. QED
        BY <2>1, <2>2, <2>3 DEF IInv
<1>3. CASE UNCHANGED execVars
    BY <1>3 DEF execVars, callVars, resultVars, threadVars, IInv, TypeOK,
                LockInv, RecordInv, ThreadInv, NewestInv, IsRunning
<1>4. QED
    BY <1>1, <1>2, <1>3 DEF Next

\* The inductive invariant holds in every state of the executor.
THEOREM Invariance == Spec => []IInv
BY InitIInv, StepIInv, PTL DEF Spec

\* Every variable keeps its type, whatever callers and threads interleave.
THEOREM TypeCorrect == Spec => []TypeOK
<1>1. IInv => TypeOK
    BY DEF IInv
<1>2. QED
    BY <1>1, Invariance, PTL

\* However many threads call execute_command, at most one command of an
\* executor is running at any time.
THEOREM OneCommandAtATime == Spec => []AtMostOneRunning
<1>1. IInv => AtMostOneRunning
    BY DEF IInv, TypeOK, NewestInv, AtMostOneRunning, IsRunning, Ids
<1>2. QED
    BY <1>1, Invariance, PTL

-------------------------------------------------------------------------------
(* Finished results. *)

\* The callers write a result only when they construct it.
LEMMA CallersKeepResults ==
    ASSUME TypeOK, CallerNext, NEW i \in Ids, i <= created
    PROVE  cell'[i] = cell[i]
<1> USE DEF TypeOK, Ids
<1>1. ASSUME NEW c \in Callers, NEW k \in Kinds,
             \/ BeginExecute(c, k) \/ Malformed(c) \/ Busy(c) \/ PassCheck(c)
             \/ Reject(c) \/ Record(c) \/ Return(c)
      PROVE  cell' = cell
    BY <1>1 DEF BeginExecute, Malformed, Busy, PassCheck, Reject, Record,
                Return, LeaveRefused, resultVars
<1>2. ASSUME NEW c \in Callers, NEW cl, Construct(c, cl)
      PROVE  cell'[i] = cell[i]
    BY <1>2, MaxResultsAssumption DEF Construct, New
<1>3. QED
    BY <1>1, <1>2 DEF CallerNext, InsideExecute, ExecuteSync, ExecuteFails,
                      ExecuteAsync

LEMMA StepKeepsFinished ==
    ASSUME IInv, [Next]_execVars, NEW i \in Ids, IsDone(i)
    PROVE  cell'[i] = cell[i]
<1> USE DEF IInv, TypeOK
<1>1. i <= created
    BY MaxResultsAssumption DEF ThreadInv, IsDone, BlankCell, Ids
<1>2. CASE CallerNext
    BY <1>1, <1>2, CallersKeepResults
<1>3. ASSUME NEW j \in Ids, PublishData(j) \/ PublishStatus(j)
      PROVE  j # i
    BY <1>3 DEF PublishData, PublishStatus, Step, ThreadInv, IsDone, BlankCell
<1>4. ASSUME NEW j \in Ids, ResetResult(j)
      PROVE  cell'[i] = cell[i]
    BY <1>4 DEF ResetResult, Step, ThreadInv, Cell
<1>5. CASE ThreadNext
    BY <1>3, <1>4, <1>5
       DEF ThreadNext, ThreadProgress, FinishBody, EndThread, PublishData,
           PublishStatus, resultVars
<1>6. CASE UNCHANGED execVars
    BY <1>6 DEF execVars, resultVars
<1>7. QED
    BY <1>2, <1>5, <1>6 DEF Next

\* A result that has left RUNNING keeps its status, its error and its result:
\* what a client has once read of a finished command stays true.
THEOREM FinishedStaysFinished == Spec => FinalResultsAreStable
<1>1. IInv /\ [Next]_execVars =>
          [\A i \in Ids : IsDone(i) => cell'[i] = cell[i]]_cell
    BY StepKeepsFinished
<1>2. QED
    BY <1>1, Invariance, PTL DEF Spec, FinalResultsAreStable

-------------------------------------------------------------------------------
(* The executor implements the command log. *)

\* The k-th recorded result is the k-th constructed one.
LEMMA RecordedIds ==
    ASSUME IInv
    PROVE  /\ Len(results) \in Nat
           /\ DOMAIN results = 1 .. Len(results)
           /\ created \in {Len(results), Len(results) + 1}
           /\ \A k \in DOMAIN results :
                  results[k] = k /\ k \in Ids /\ k <= created
<1>1. Len(results) \in Nat /\ DOMAIN results = 1 .. Len(results)
    BY DEF IInv, TypeOK
<1>2. created \in {Len(results), Len(results) + 1}
    BY DEF IInv, RecordInv
<1>3. SUFFICES ASSUME NEW k \in 1 .. Len(results)
               PROVE  results[k] = k /\ k \in Ids /\ k <= created
    BY <1>1, <1>2
<1>4. results[k] = k
    BY DEF IInv, RecordInv
<1>5. results[k] \in Ids
    BY DEF IInv, TypeOK
<1>6. k <= created
    BY <1>1, <1>2
<1>7. QED
    BY <1>4, <1>5, <1>6

LEMMA InitLog == Init => Log!Init
BY DEF Init, Log!Init

\* The log as a function of the recorded results.
LogNow == [k \in DOMAIN results |-> cell[results[k]].status]

LEMMA CallerLog ==
    ASSUME IInv, CallerNext
    PROVE  Log!Next \/ LogNow' = LogNow
<1> USE DEF IInv, TypeOK
<1>1. CASE UNCHANGED results
    <2>1. \A k \in DOMAIN results : cell'[results[k]] = cell[results[k]]
        BY RecordedIds, CallersKeepResults
    <2>2. QED
        BY <1>1, <2>1 DEF LogNow
<1>2. ASSUME NEW c \in Callers, Record(c)
      PROVE  Log!Next
    <2> DEFINE s == cell[created].status
    <2>1. created = Len(results) + 1 /\ local[c] = created /\ created \in Ids
        BY <1>2 DEF Record, RecordInv, Ids
    <2>2. s \in Log!Status
        BY <2>1 DEF Cell, Status, Log!Status, Terminal, Log!Terminal, Running,
                    Log!Running, Succeeded, Failed, VersionMismatch
    <2>3. \A k \in DOMAIN results : cell[results[k]].status \in Terminal
        <3>1. SUFFICES ASSUME NEW k \in DOMAIN results
                       PROVE  cell[results[k]].status \in Terminal
            OBVIOUS
        <3>2. results[k] = k /\ k < created /\ k \in Ids
            BY <2>1, RecordedIds
        <3>3. ~IsRunning(k)
            BY <3>2 DEF NewestInv
        <3>4. QED
            BY <3>2, <3>3 DEF IsRunning, Cell, Status, Ids
    <2>4. Log!AllDone
        BY <2>3 DEF Log!AllDone, Log!Terminal, Terminal, Succeeded, Failed,
                    VersionMismatch
    <2>5. LogNow' = Append(LogNow, s)
        BY <1>2, <2>1 DEF Record, LogNow
    <2>6. QED
        BY <2>2, <2>4, <2>5 DEF Log!Next, Log!Accept, LogNow
<1>3. QED
    BY <1>1, <1>2
       DEF CallerNext, InsideExecute, BeginExecute, Malformed, Busy, PassCheck,
           Reject, ExecuteSync, ExecuteFails, ExecuteAsync, Construct, Return,
           LeaveRefused, resultVars

LEMMA ThreadLog ==
    ASSUME IInv, ThreadNext
    PROVE  Log!Next \/ LogNow' = LogNow
<1> USE DEF IInv, TypeOK
<1>0. results' = results
    BY ThreadKeepsCalls
<1>1. CASE \A i \in Ids : cell'[i].status = cell[i].status
    BY <1>0, <1>1 DEF LogNow
<1>2. ASSUME NEW i \in Ids, PublishStatus(i)
      PROVE  Log!Next \/ LogNow' = LogNow
    <2>1. i = created /\ IsRunning(i)
        BY <1>2 DEF PublishStatus, Step, ThreadInv, NewestInv, IsRunning, Ids
    <2>2. /\ cell'[i].status = outcome[i]
          /\ \A j \in Ids : j # i => cell'[j] = cell[j]
        BY <1>2 DEF PublishStatus, Cell
    <2>3. CASE Len(results) = created
        <3>1. results[Len(results)] = i /\ results # << >>
            BY <2>1, <2>3, RecordedIds DEF Ids
        <3>2. /\ LogNow = [k \in DOMAIN results |-> cell[k].status]
              /\ LogNow' = [k \in DOMAIN results |-> cell'[k].status]
            BY <1>0, RecordedIds DEF LogNow
        <3>3. LogNow' = [LogNow EXCEPT ![i] = outcome[i]]
            BY <2>2, <3>2, RecordedIds
        <3>4. LogNow[i] = Running /\ Len(LogNow) = i /\ LogNow # << >>
            BY <2>1, <2>3, <3>1 DEF LogNow, IsRunning
        <3>5. outcome[i] \in Log!Terminal
            BY DEF Terminal, Log!Terminal, Succeeded, Failed, VersionMismatch
        <3>6. QED
            BY <3>3, <3>4, <3>5 DEF Log!Next, Log!Finish, Log!Running, Running, LogNow
    <2>4. CASE Len(results) # created
        <3>1. \A k \in DOMAIN results : results[k] \in Ids /\ results[k] # i
            BY <2>1, <2>4, RecordedIds DEF Ids
        <3>2. QED
            BY <1>0, <2>2, <3>1 DEF LogNow
    <2>5. QED
        BY <2>3, <2>4
<1>3. ASSUME NEW i \in Ids, PublishData(i) \/ ResetResult(i)
      PROVE  \A j \in Ids : cell'[j].status = cell[j].status
    <2>1. CASE PublishData(i)
        BY <2>1 DEF PublishData, Cell
    <2>2. CASE ResetResult(i)
        BY <2>2 DEF ResetResult, Cell
    <2>3. QED
        BY <1>3, <2>1, <2>2
<1>4. QED
    BY <1>1, <1>2, <1>3
       DEF ThreadNext, ThreadProgress, FinishBody, EndThread, resultVars

\* The executor implements the command log it promises its clients: commands
\* are only appended, only when all earlier ones are done, and only the newest
\* finishes.
THEOREM Refinement == Spec => ImplementsLog
<1>1. IInv /\ [Next]_execVars => [Log!Next]_LogNow
    <2>1. UNCHANGED execVars => LogNow' = LogNow
        BY DEF execVars, resultVars, LogNow
    <2>2. QED
        BY <2>1, CallerLog, ThreadLog DEF Next
<1>2. QED
    BY <1>1, InitLog, Invariance, PTL DEF Spec, ImplementsLog, Log!Spec, LogNow

-------------------------------------------------------------------------------
(* The handlers of the command API. *)

\* What a command that ended with status s shows: its result or its error.
Agrees(s, v) ==
    /\ s = Succeeded => v.result /\ ~v.error
    /\ s \in {Failed, VersionMismatch} => v.error /\ ~v.result

Complete(v) == Agrees(v.status, v)

\* The fields of a result agree with how its command ended from the moment its
\* thread is about to write the status.
CellInv ==
    \A i \in Ids :
        /\ Complete(cell[i])
        /\ thread[i] = "status" => Agrees(outcome[i], cell[i])

\* A caller holds the result of its call until it returns.
ReturnedInv ==
    \A c \in Callers : pc[c] = "returned" => local[c] \in 1 .. created

Reading == {"status", "error", "result"}

\* A handler is in execute_command while its caller is, and reads exactly while
\* there is something left to read: constructed results, all but the last of
\* them older than the newest.
TodoInv ==
    \A c \in Callers :
        /\ at[c] = "execute" <=> pc[c] # "idle"
        /\ todo[c] = << >> <=> at[c] \in {"idle", "execute"}
        /\ \A k \in 1 .. Len(todo[c]) : todo[c][k] <= created
        /\ \A k \in 1 .. Len(todo[c]) - 1 : todo[c][k] < created

\* A handler with wait=true reads one result, which it has joined.
WaitInv ==
    \A c \in Callers :
        /\ at[c] = "join" => wait[c] /\ Tail(todo[c]) = << >>
        /\ wait[c] /\ at[c] \in Reading =>
               Tail(todo[c]) = << >> /\ IsDone(Head(todo[c]))
        /\ wait[c] /\ at[c] \in {"error", "result"} => view[c].status # Running

\* What a handler has read of a finished result is what the result holds; one it
\* has seen running is the last it reads.
ViewInv ==
    \A c \in Callers : at[c] \in {"error", "result"} =>
        LET now == cell[Head(todo[c])] IN
        /\ view[c].status # Running =>
               /\ now.status = view[c].status
               /\ at[c] = "result" => now.error = view[c].error
        /\ view[c].status = Running => Tail(todo[c]) = << >>

\* The finished part of a response.
ReplyInv ==
    \A c \in Callers : \A k \in 1 .. Len(reply[c]) :
        /\ Complete(reply[c][k])
        /\ reply[c][k].status = Running => k = Len(reply[c]) /\ todo[c] = << >>
        /\ wait[c] => reply[c][k].status # Running

APIInv ==
    /\ IInv /\ CellInv /\ ReturnedInv
    /\ APITypeOK /\ TodoInv /\ WaitInv /\ ViewInv /\ ReplyInv

\* To the executor a step of the API is a step of its own or none.
LEMMA APIStepsAreCalls == APINext => [Next]_execVars
<1>1. ASSUME NEW c \in Callers, PostExecuting(c)
      PROVE  Next
    BY <1>1 DEF PostExecuting, Next, CallerNext
<1>2. ASSUME NEW c \in Callers, PostReturned(c) \/ PostRefused(c)
      PROVE  Next
    BY <1>2 DEF PostReturned, PostRefused, Next, CallerNext
<1>3. ASSUME NEW c \in Callers, NEW k \in Kinds, NEW w \in BOOLEAN, Post(c, k, w)
      PROVE  Next
    BY <1>3 DEF Post, Next, CallerNext
<1>4. ASSUME NEW c \in Callers,
             \/ Join(c) \/ ReadStatus(c) \/ ReadError(c) \/ ReadResult(c) \/ GetAll(c)
             \/ \E i \in Ids, w \in BOOLEAN : GetOne(c, i, w)
      PROVE  UNCHANGED execVars
    BY <1>4 DEF Join, ReadStatus, ReadError, ReadResult, GetAll, GetOne
<1>5. ThreadNext => Next
    BY DEF Next
<1>6. QED
    BY <1>1, <1>2, <1>3, <1>4, <1>5 DEF APINext, Request, Handling

LEMMA CreatedGrows ==
    ASSUME IInv, [Next]_execVars
    PROVE  created \in Nat /\ created' \in Nat /\ created <= created'
<1>1. created \in Nat
    BY DEF IInv, TypeOK
<1>2. CASE CallerNext
    BY <1>1, <1>2
       DEF CallerNext, InsideExecute, BeginExecute, Malformed, Busy, PassCheck,
           Reject, ExecuteSync, ExecuteFails, ExecuteAsync, Construct, New, Record,
           Return, LeaveRefused, resultVars
<1>3. CASE ThreadNext
    BY <1>1, <1>3, ThreadKeepsCalls
<1>4. CASE UNCHANGED execVars
    BY <1>1, <1>4 DEF execVars, resultVars
<1>5. QED
    BY <1>2, <1>3, <1>4 DEF Next

-------------------------------------------------------------------------------
(* What the executor keeps, beyond IInv, for those who read its results. *)

LEMMA CellStep ==
    ASSUME IInv, CellInv, [Next]_execVars
    PROVE  CellInv'
<1> USE DEF IInv, TypeOK, CellInv, Complete, Agrees
<1>1. ASSUME NEW c \in Callers, NEW cl, Complete(cl), Construct(c, cl),
             \A i \in Ids : i # New => thread'[i] = thread[i],
             thread'[New] # "status", outcome' = outcome
      PROVE  CellInv'
    BY <1>1 DEF Construct
<1>2. Complete(SuccessCell) /\ Complete(FailureCell) /\ Complete(BlankCell)
    BY DEF SuccessCell, FailureCell, BlankCell, Running, Succeeded, Failed,
           VersionMismatch
<1>3. ASSUME NEW c \in Callers,
             ExecuteSync(c) \/ ExecuteFails(c) \/ ExecuteAsync(c)
      PROVE  CellInv'
    <2>1. New \in Ids /\ thread[New] = "none"
        BY <1>3 DEF ExecuteSync, ExecuteFails, ExecuteAsync, Construct, New,
                    ThreadInv, Ids
    <2>2. QED
        BY <1>1, <1>2, <1>3, <2>1
           DEF ExecuteSync, ExecuteFails, ExecuteAsync, threadVars
<1>4. ASSUME UNCHANGED <<cell, threadVars>>
      PROVE  CellInv'
    BY <1>4 DEF threadVars
<1>5. CASE CallerNext
    BY <1>3, <1>4, <1>5
       DEF CallerNext, InsideExecute, BeginExecute, Malformed, Busy, PassCheck,
           Reject, Record, Return, LeaveRefused, resultVars
<1>6. ASSUME NEW i \in Ids, NEW o \in Terminal, FinishBody(i, o)
      PROVE  CellInv'
    BY <1>6 DEF FinishBody, Step, resultVars
<1>7. ASSUME NEW i \in Ids, PublishData(i)
      PROVE  CellInv'
    <2>1. cell[i] = BlankCell
        BY <1>7 DEF PublishData, Step, ThreadInv
    <2>2. Complete(cell'[i]) /\ Agrees(outcome[i], cell'[i])
        BY <1>7, <2>1 DEF PublishData, BlankCell, Cell, Running, Succeeded, Failed,
                          VersionMismatch, Terminal
    <2>3. /\ \A j \in Ids : j # i => cell'[j] = cell[j] /\ thread'[j] = thread[j]
          /\ outcome' = outcome
        BY <1>7 DEF PublishData, Step
    <2>4. QED
        BY <2>2, <2>3
<1>8. ASSUME NEW i \in Ids, PublishStatus(i)
      PROVE  CellInv'
    BY <1>8 DEF PublishStatus, Step, Cell
<1>9. ASSUME NEW i \in Ids, ResetResult(i)
      PROVE  CellInv'
    <2>1. cell' = cell
        BY <1>9 DEF ResetResult, Step, ThreadInv, Cell
    <2>2. QED
        BY <1>9, <2>1 DEF ResetResult, Step
<1>10. ASSUME NEW i \in Ids, EndThread(i)
      PROVE  CellInv'
    BY <1>10 DEF EndThread, Step, resultVars
<1>11. CASE ThreadNext
    BY <1>6, <1>7, <1>8, <1>9, <1>10, <1>11 DEF ThreadNext, ThreadProgress
<1>12. CASE UNCHANGED execVars
    BY <1>4, <1>12 DEF execVars, resultVars
<1>13. QED
    BY <1>5, <1>11, <1>12 DEF Next

LEMMA ReturnedStep ==
    ASSUME IInv, ReturnedInv, [Next]_execVars
    PROVE  ReturnedInv'
<1> USE DEF ReturnedInv
<1>1. created \in Nat /\ created' \in Nat /\ created <= created'
    BY CreatedGrows
<1>2. ASSUME NEW c \in Callers, NEW k \in Kinds,
             \/ BeginExecute(c, k) \/ Malformed(c) \/ Busy(c) \/ PassCheck(c)
             \/ Reject(c) \/ Return(c)
      PROVE  ReturnedInv'
    BY <1>2 DEF BeginExecute, Malformed, Busy, PassCheck, Reject, Return, Goto,
                LeaveRefused, resultVars, IInv, TypeOK
<1>3. ASSUME NEW c \in Callers,
             ExecuteSync(c) \/ ExecuteFails(c) \/ ExecuteAsync(c)
      PROVE  ReturnedInv'
    BY <1>1, <1>3
       DEF ExecuteSync, ExecuteFails, ExecuteAsync, Construct, Goto, IInv, TypeOK
<1>4. ASSUME NEW c \in Callers, Record(c)
      PROVE  ReturnedInv'
    BY <1>1, <1>4 DEF Record, Goto, IInv, TypeOK, RecordInv
<1>5. CASE CallerNext
    BY <1>2, <1>3, <1>4, <1>5 DEF CallerNext, InsideExecute, Kinds
<1>6. CASE ThreadNext
    BY <1>6, ThreadKeepsCalls DEF callVars
<1>7. CASE UNCHANGED execVars
    BY <1>7 DEF execVars, callVars, resultVars
<1>8. QED
    BY <1>5, <1>6, <1>7 DEF Next

-------------------------------------------------------------------------------
(* The handlers.  One that does not move keeps what it has read. *)

HandlerInv(c) ==
    TodoInv!(c) /\ WaitInv!(c) /\ ViewInv!(c) /\ ReplyInv!(c)

Unmoved(c) ==
    /\ UNCHANGED <<at[c], wait[c], todo[c], view[c], reply[c]>>
    /\ (pc'[c] = "idle") <=> (pc[c] = "idle")

LEMMA HeadAndTail ==
    ASSUME NEW S, NEW s \in Seq(S), s # << >>
    PROVE  /\ Len(s) \in Nat \ {0}
           /\ Head(s) = s[1] /\ Head(s) \in S
           /\ Tail(s) \in Seq(S)
           /\ Len(Tail(s)) = Len(s) - 1
           /\ \A k \in 1 .. Len(s) - 1 : Tail(s)[k] = s[k + 1]
           /\ Tail(s) = << >> <=> Len(s) = 1
<1>1. Len(s) \in Nat \ {0}
    BY EmptySeq
<1>2. Head(s) \in S /\ Tail(s) \in Seq(S) /\ Len(Tail(s)) = Len(s) - 1
    BY HeadTailProperties
<1>3. \A k \in 1 .. Len(s) - 1 : Tail(s)[k] = s[k + 1]
    BY <1>1, HeadTailProperties
<1>4. Tail(s) = << >> <=> Len(s) = 1
    <2>1. Tail(s) = << >> <=> Len(Tail(s)) = 0
        BY <1>2, EmptySeq
    <2>2. QED
        BY <1>1, <1>2, <2>1
<1>5. QED
    BY <1>1, <1>2, <1>3, <1>4

LEMMA HeadOfTodo ==
    ASSUME APITypeOK, NEW c \in Callers, todo[c] # << >>
    PROVE  /\ Head(todo[c]) \in Ids
           /\ Head(todo[c]) = todo[c][1]
           /\ Tail(todo[c]) \in Seq(Ids)
           /\ Len(todo[c]) \in Nat \ {0}
           /\ Len(Tail(todo[c])) = Len(todo[c]) - 1
           /\ \A k \in 1 .. Len(todo[c]) - 1 : Tail(todo[c])[k] = todo[c][k + 1]
           /\ Tail(todo[c]) = << >> <=> Len(todo[c]) = 1
BY HeadAndTail DEF APITypeOK

LEMMA UnmovedKeeps ==
    ASSUME APIInv, [Next]_execVars, NEW c \in Callers, Unmoved(c)
    PROVE  HandlerInv(c)'
<1> USE DEF APIInv, Unmoved
<1>1. created \in Nat /\ created' \in Nat /\ created <= created'
    BY CreatedGrows
<1>2. todo[c] \in Seq(Ids) /\ \A k \in 1 .. Len(todo[c]) : todo[c][k] \in Ids
    BY DEF APITypeOK
<1>3. TodoInv!(c)'
    <2>1. TodoInv!(c)
        BY DEF TodoInv
    <2>2. todo'[c] = todo[c] /\ at'[c] = at[c]
        OBVIOUS
    <2>3. ASSUME NEW k \in 1 .. Len(todo[c])
          PROVE  /\ todo[c][k] <= created'
                 /\ k <= Len(todo[c]) - 1 => todo[c][k] < created'
        <3>1. Len(todo[c]) \in Nat /\ todo[c][k] \in Nat
            BY <1>2 DEF Ids
        <3>2. todo[c][k] <= created /\ (k <= Len(todo[c]) - 1 => todo[c][k] < created)
            BY <2>1, <3>1
        <3>3. QED
            BY <1>1, <3>1, <3>2
    <2>4. Len(todo[c]) \in Nat
        BY <1>2
    <2>5. /\ \A k \in 1 .. Len(todo[c]) : todo[c][k] <= created'
          /\ \A k \in 1 .. Len(todo[c]) - 1 : todo[c][k] < created'
        BY <2>3, <2>4
    <2>6. QED
        BY <2>1, <2>2, <2>5
<1>4. at[c] \in Reading => Head(todo[c]) \in Ids
    BY HeadOfTodo DEF TodoInv, Reading
<1>5. at[c] \in Reading /\ IsDone(Head(todo[c])) =>
          cell'[Head(todo[c])] = cell[Head(todo[c])]
    BY <1>4, StepKeepsFinished
<1>6. WaitInv!(c)'
    <2>1. WaitInv!(c)
        BY DEF WaitInv
    <2>2. QED
        BY <1>5, <2>1 DEF Reading, IsDone
<1>7. ViewInv!(c)'
    <2>1. ViewInv!(c)
        BY DEF ViewInv
    <2>2. at[c] \in {"error", "result"} /\ view[c].status # Running =>
              IsDone(Head(todo[c]))
        BY <2>1 DEF IsDone
    <2>3. QED
        BY <1>5, <2>1, <2>2 DEF Reading
<1>8. ReplyInv!(c)'
    <2>1. ReplyInv!(c)
        BY DEF ReplyInv
    <2>2. QED
        BY <2>1
<1>9. QED
    BY <1>3, <1>6, <1>7, <1>8 DEF HandlerInv

\* A step of one handler leaves the others alone.
LEMMA OthersUnmoved ==
    ASSUME APIInv, NEW c \in Callers, Request(c) \/ Handling(c),
           NEW d \in Callers, d # c
    PROVE  Unmoved(d)
<1> USE DEF Unmoved, APIInv, IInv, TypeOK, APITypeOK, Handler, StartReading, Goto
<1>1. ASSUME NEW k \in Kinds, NEW w \in BOOLEAN, Post(c, k, w)
      PROVE  Unmoved(d)
    BY <1>1 DEF Post, BeginExecute
<1>2. ASSUME PostExecuting(c)
      PROVE  Unmoved(d)
    BY <1>2 DEF PostExecuting, InsideExecute, Malformed, Busy, PassCheck, Reject,
                ExecuteSync, ExecuteFails, ExecuteAsync, Construct, Record,
                LeaveRefused, handlerVars
<1>3. ASSUME PostReturned(c) \/ PostRefused(c)
      PROVE  Unmoved(d)
    BY <1>3 DEF PostReturned, PostRefused, Return
<1>4. ASSUME NEW i \in Ids, NEW w \in BOOLEAN, GetOne(c, i, w)
      PROVE  Unmoved(d)
    BY <1>4 DEF GetOne, execVars, callVars
<1>5. ASSUME GetAll(c)
      PROVE  Unmoved(d)
    BY <1>5 DEF GetAll, execVars, callVars
<1>6. ASSUME Join(c) \/ ReadStatus(c) \/ ReadError(c) \/ ReadResult(c)
      PROVE  Unmoved(d)
    BY <1>6 DEF Join, ReadStatus, ReadError, ReadResult, execVars, callVars
<1>7. QED
    BY <1>1, <1>2, <1>3, <1>4, <1>5, <1>6 DEF Request, Handling

-------------------------------------------------------------------------------
(* The handler that moves, one action at a time. *)

LEMMA ReturnedId ==
    ASSUME APIInv, NEW c \in Callers, pc[c] = "returned"
    PROVE  local[c] \in Ids /\ local[c] <= created
<1>1. local[c] \in 1 .. created /\ created \in 0 .. MaxResults
    BY DEF APIInv, ReturnedInv, IInv, TypeOK
<1>2. QED
    BY <1>1, MaxResultsAssumption DEF Ids

LEMMA TypeStep ==
    ASSUME APIInv, APINext, TypeOK'
    PROVE  APITypeOK'
<1> USE DEF APIInv, APITypeOK, HandlerAt, Handler
<1>1. << >> \in Seq(Ids) /\ << >> \in Seq(Cell)
    BY EmptySeq
<1>2. ASSUME NEW c \in Callers, NEW k \in Kinds, NEW w \in BOOLEAN, Post(c, k, w)
      PROVE  APITypeOK'
    BY <1>1, <1>2 DEF Post
<1>3. CASE UNCHANGED handlerVars
    BY <1>3 DEF handlerVars
<1>4. ASSUME NEW c \in Callers, NEW place, NEW w, NEW ids \in Seq(Ids),
             StartReading(c, place, w, ids), wait' \in [Callers -> BOOLEAN],
             view' = view
      PROVE  APITypeOK'
    BY <1>1, <1>4 DEF StartReading
<1>5. ASSUME NEW c \in Callers, PostReturned(c)
      PROVE  APITypeOK'
    <2>1. local[c] \in Ids
        BY <1>5, ReturnedId DEF PostReturned
    <2>2. <<local[c]>> \in Seq(Ids)
        BY <2>1
    <2>3. QED
        BY <1>4, <1>5, <2>2 DEF PostReturned
<1>6. ASSUME NEW c \in Callers, PostRefused(c)
      PROVE  APITypeOK'
    BY <1>6 DEF PostRefused
<1>7. ASSUME NEW c \in Callers, NEW i \in Ids, NEW w \in BOOLEAN, GetOne(c, i, w)
      PROVE  APITypeOK'
    <2>1. <<i>> \in Seq(Ids)
        OBVIOUS
    <2>2. QED
        BY <1>4, <1>7, <2>1 DEF GetOne
<1>8. ASSUME NEW c \in Callers, GetAll(c)
      PROVE  APITypeOK'
    BY <1>4, <1>8 DEF GetAll, TypeOK
<1>9. ASSUME NEW c \in Callers, Join(c)
      PROVE  APITypeOK'
    BY <1>9 DEF Join
<1>10. ASSUME NEW c \in Callers, ReadStatus(c) \/ ReadError(c)
       PROVE  APITypeOK'
    <2>1. at[c] \in {"status", "error"} /\ todo[c] # << >>
        BY <1>10 DEF ReadStatus, ReadError, TodoInv
    <2>2. cell[Head(todo[c])] \in Cell
        BY <2>1, HeadOfTodo DEF TypeOK
    <2>3. /\ cell[Head(todo[c])].status \in Status
          /\ cell[Head(todo[c])].error \in BOOLEAN
        BY <2>2 DEF Cell
    <2>4. view[c] \in [status : Status, error : BOOLEAN, result : BOOLEAN]
        BY DEF Cell
    <2>5. CASE ReadStatus(c)
        <3>1. [view[c] EXCEPT !.status = cell[Head(todo[c])].status] \in Cell
            BY <2>3, <2>4 DEF Cell
        <3>2. view' \in [Callers -> Cell]
            BY <2>5, <3>1 DEF ReadStatus
        <3>3. QED
            BY <2>5, <3>2 DEF ReadStatus
    <2>6. CASE ReadError(c)
        <3>1. [view[c] EXCEPT !.error = cell[Head(todo[c])].error] \in Cell
            BY <2>3, <2>4 DEF Cell
        <3>2. view' \in [Callers -> Cell]
            BY <2>6, <3>1 DEF ReadError
        <3>3. QED
            BY <2>6, <3>2 DEF ReadError
    <2>7. QED
        BY <1>10, <2>5, <2>6
<1>11. ASSUME NEW c \in Callers, ReadResult(c)
       PROVE  APITypeOK'
    <2> DEFINE seen == [view[c] EXCEPT !.result = cell[Head(todo[c])].result]
    <2>1. todo[c] # << >>
        BY <1>11 DEF ReadResult, TodoInv
    <2>2. cell[Head(todo[c])] \in Cell /\ Tail(todo[c]) \in Seq(Ids)
        BY <2>1, HeadOfTodo DEF TypeOK
    <2>3. seen \in Cell
        BY <2>2 DEF Cell
    <2>4. Append(reply[c], seen) \in Seq(Cell)
        BY <2>3, AppendProperties
    <2>5. BlankCell \in Cell
        BY DEF BlankCell, Cell, Status
    <2>6. QED
        BY <1>11, <2>2, <2>4, <2>5 DEF ReadResult
<1>12. QED
    BY <1>2, <1>3, <1>5, <1>6, <1>7, <1>8, <1>9, <1>10, <1>11
       DEF APINext, Request, Handling, PostExecuting

\* A handler that starts to read constructed results.
LEMMA StartKeeps ==
    ASSUME APIInv, NEW c \in Callers, NEW place \in {"idle", "execute"},
           NEW w \in BOOLEAN, NEW ids \in Seq(Ids), StartReading(c, place, w, ids),
           w => Len(ids) = 1, \A k \in 1 .. Len(ids) : ids[k] <= created,
           \A k \in 1 .. Len(ids) - 1 : ids[k] < created,
           created' = created, wait'[c] = w, pc'[c] = "idle"
    PROVE  HandlerInv(c)'
<1> USE DEF APIInv, APITypeOK, StartReading, Handler
<1>1. todo'[c] = ids /\ reply'[c] = << >>
    OBVIOUS
<1>2. at'[c] = IF w THEN "join" ELSE IF ids = << >> THEN "idle" ELSE "status"
    OBVIOUS
<1>3. Len(ids) \in Nat /\ (ids = << >> <=> Len(ids) = 0)
    BY EmptySeq
<1>4. w => Tail(ids) = << >> /\ ids # << >>
    <2>1. SUFFICES ASSUME w PROVE Tail(ids) = << >> /\ ids # << >>
        OBVIOUS
    <2>2. Len(ids) = 1
        BY <2>1
    <2>3. ids # << >>
        BY <1>3, <2>2
    <2>4. QED
        BY <2>2, <2>3, HeadAndTail
<1>5. TodoInv!(c)'
    BY <1>1, <1>2, <1>4
<1>6. WaitInv!(c)' /\ ViewInv!(c)'
    BY <1>1, <1>2, <1>4 DEF Reading
<1>7. ReplyInv!(c)'
    BY <1>1
<1>8. QED
    BY <1>5, <1>6, <1>7 DEF HandlerInv

LEMMA StartKeepsOne ==
    ASSUME APIInv, NEW c \in Callers, NEW place \in {"idle", "execute"},
           NEW w \in BOOLEAN, NEW i \in Ids, i <= created,
           StartReading(c, place, w, <<i>>),
           created' = created, wait'[c] = w, pc'[c] = "idle"
    PROVE  HandlerInv(c)'
<1>1. <<i>> \in Seq(Ids) /\ Len(<<i>>) = 1
    OBVIOUS
<1>2. /\ \A k \in 1 .. Len(<<i>>) : <<i>>[k] <= created
      /\ \A k \in 1 .. Len(<<i>>) - 1 : <<i>>[k] < created
    BY <1>1
<1>3. QED
    BY <1>1, <1>2, StartKeeps

LEMMA PostKeeps ==
    ASSUME APIInv, NEW c \in Callers, NEW k \in Kinds, NEW w \in BOOLEAN,
           Post(c, k, w)
    PROVE  HandlerInv(c)'
<1> USE DEF APIInv, APITypeOK, IInv, TypeOK, Post, Handler
<1>1. at[c] = "idle" /\ at'[c] = "execute" /\ todo'[c] = todo[c] /\ reply'[c] = << >>
    OBVIOUS
<1>2. pc'[c] # "idle"
    BY DEF BeginExecute, Goto
<1>3. TodoInv!(c)'
    BY <1>1, <1>2 DEF TodoInv
<1>4. WaitInv!(c)' /\ ViewInv!(c)' /\ ReplyInv!(c)'
    BY <1>1 DEF Reading
<1>5. QED
    BY <1>3, <1>4 DEF HandlerInv

LEMMA PostExecutingKeeps ==
    ASSUME APIInv, NEW c \in Callers, PostExecuting(c)
    PROVE  Unmoved(c)
<1>1. at[c] = "execute" /\ pc[c] # "idle"
    BY DEF PostExecuting, APIInv, TodoInv
<1>2. pc'[c] # "idle"
    BY DEF PostExecuting, InsideExecute, Malformed, Busy, PassCheck, Reject,
           ExecuteSync, ExecuteFails, ExecuteAsync, Construct, Record,
           LeaveRefused, Goto, APIInv, IInv, TypeOK
<1>3. QED
    BY <1>1, <1>2 DEF Unmoved, PostExecuting, handlerVars

LEMMA PostReturnedKeeps ==
    ASSUME APIInv, NEW c \in Callers, PostReturned(c)
    PROVE  HandlerInv(c)'
<1> USE DEF APIInv, IInv, TypeOK, PostReturned
<1>1. local[c] \in Ids /\ local[c] <= created
    BY ReturnedId
<1>2. pc'[c] = "idle" /\ created' = created /\ wait'[c] = wait[c]
    BY DEF Return, Goto, resultVars
<1>3. StartReading(c, "execute", wait[c], <<local[c]>>) /\ wait[c] \in BOOLEAN
    BY DEF APITypeOK
<1>4. QED
    BY <1>1, <1>2, <1>3, StartKeepsOne

LEMMA PostRefusedKeeps ==
    ASSUME APIInv, NEW c \in Callers, PostRefused(c)
    PROVE  HandlerInv(c)'
<1> USE DEF APIInv, APITypeOK, IInv, TypeOK, PostRefused, Handler
<1>1. at[c] = "execute" /\ at'[c] = "idle" /\ todo'[c] = todo[c] /\ reply'[c] = reply[c]
    OBVIOUS
<1>2. pc'[c] = "idle" /\ created' = created /\ wait'[c] = wait[c]
    BY DEF Return, Goto, resultVars
<1>3. TodoInv!(c)' /\ ReplyInv!(c)'
    BY <1>1, <1>2 DEF TodoInv, ReplyInv
<1>4. WaitInv!(c)' /\ ViewInv!(c)'
    BY <1>1 DEF Reading
<1>5. QED
    BY <1>3, <1>4 DEF HandlerInv

LEMMA GetOneKeeps ==
    ASSUME APIInv, NEW c \in Callers, NEW i \in Ids, NEW w \in BOOLEAN,
           GetOne(c, i, w)
    PROVE  HandlerInv(c)'
<1> USE DEF APIInv, APITypeOK, IInv, TypeOK, GetOne
<1>1. i <= created
    BY RecordedIds
<1>2. pc'[c] = "idle" /\ created' = created /\ wait'[c] = w
    BY DEF execVars, callVars, resultVars, StartReading, Handler, TodoInv
<1>3. QED
    BY <1>1, <1>2, StartKeepsOne

LEMMA GetAllKeeps ==
    ASSUME APIInv, NEW c \in Callers, GetAll(c)
    PROVE  HandlerInv(c)'
<1> USE DEF APIInv, APITypeOK, IInv, TypeOK, GetAll
<1>1. /\ \A k \in 1 .. Len(results) : results[k] <= created
      /\ \A k \in 1 .. Len(results) - 1 : results[k] < created
    BY RecordedIds
<1>2. pc'[c] = "idle" /\ created' = created /\ wait'[c] = FALSE
    BY DEF execVars, callVars, resultVars, StartReading, Handler, TodoInv
<1>3. QED
    BY <1>1, <1>2, StartKeeps

\* A handler that reads, or waits for, the first of its results.
LEMMA CurrentResult ==
    ASSUME APIInv, NEW c \in Callers, todo[c] # << >>
    PROVE  /\ Head(todo[c]) \in Ids
           /\ Head(todo[c]) <= created
           /\ Tail(todo[c]) # << >> => IsDone(Head(todo[c]))
<1>1. /\ Head(todo[c]) \in Ids /\ Head(todo[c]) = todo[c][1]
      /\ Len(todo[c]) \in Nat \ {0}
      /\ Tail(todo[c]) = << >> <=> Len(todo[c]) = 1
    BY HeadOfTodo DEF APIInv
<1>2. todo[c][1] <= created /\ (Len(todo[c]) # 1 => todo[c][1] < created)
    BY <1>1 DEF APIInv, TodoInv
<1>3. Head(todo[c]) < created => IsDone(Head(todo[c]))
    BY <1>1 DEF APIInv, IInv, TypeOK, NewestInv, IsRunning, IsDone, Ids
<1>4. QED
    BY <1>1, <1>2, <1>3

\* join returns when the command has published its status.
LEMMA JoinedIsDone ==
    ASSUME IInv, NEW i \in Ids, i <= created, Joinable(i)
    PROVE  IsDone(i)
BY DEF IInv, ThreadInv, Joinable, IsRunning, IsDone

LEMMA JoinKeeps ==
    ASSUME APIInv, NEW c \in Callers, Join(c)
    PROVE  HandlerInv(c)'
<1> USE DEF APIInv, APITypeOK, Join, Handler
<1>1. /\ at[c] = "join" /\ at'[c] = "status"
      /\ UNCHANGED <<wait, todo, reply, pc, created, cell>>
    BY DEF execVars, callVars, resultVars
<1>2. todo[c] # << >> /\ Tail(todo[c]) = << >>
    BY <1>1 DEF TodoInv, WaitInv
<1>3. IsDone(Head(todo[c]))
    BY <1>2, CurrentResult, JoinedIsDone
<1>4. TodoInv!(c)' /\ ReplyInv!(c)'
    BY <1>1, <1>2 DEF TodoInv, ReplyInv
<1>5. WaitInv!(c)' /\ ViewInv!(c)'
    BY <1>1, <1>2, <1>3 DEF Reading, IsDone
<1>6. QED
    BY <1>4, <1>5 DEF HandlerInv

LEMMA ReadStatusKeeps ==
    ASSUME APIInv, NEW c \in Callers, ReadStatus(c)
    PROVE  HandlerInv(c)'
<1> USE DEF APIInv, APITypeOK, ReadStatus, Handler
<1>1. /\ at[c] = "status" /\ at'[c] = "error"
      /\ UNCHANGED <<wait, todo, reply, pc, created, cell>>
    BY DEF execVars, callVars, resultVars
<1>2. view'[c].status = cell[Head(todo[c])].status
    BY DEF Cell
<1>3. todo[c] # << >>
    BY <1>1 DEF TodoInv
<1>4. Tail(todo[c]) # << >> => IsDone(Head(todo[c]))
    BY <1>3, CurrentResult
<1>5. TodoInv!(c)' /\ ReplyInv!(c)'
    BY <1>1, <1>3 DEF TodoInv, ReplyInv
<1>6. WaitInv!(c)'
    BY <1>1, <1>2 DEF WaitInv, Reading, IsDone
<1>7. ViewInv!(c)'
    BY <1>1, <1>2, <1>4 DEF IsDone
<1>8. QED
    BY <1>5, <1>6, <1>7 DEF HandlerInv

LEMMA ReadErrorKeeps ==
    ASSUME APIInv, NEW c \in Callers, ReadError(c)
    PROVE  HandlerInv(c)'
<1> USE DEF APIInv, APITypeOK, ReadError, Handler
<1>1. /\ at[c] = "error" /\ at'[c] = "result"
      /\ UNCHANGED <<wait, todo, reply, pc, created, cell>>
    BY DEF execVars, callVars, resultVars
<1>2. /\ view'[c].error = cell[Head(todo[c])].error
      /\ view'[c].status = view[c].status
    BY DEF Cell
<1>3. todo[c] # << >>
    BY <1>1 DEF TodoInv
<1>4. TodoInv!(c)' /\ ReplyInv!(c)'
    BY <1>1, <1>3 DEF TodoInv, ReplyInv
<1>5. WaitInv!(c)'
    BY <1>1, <1>2 DEF WaitInv, Reading, IsDone
<1>6. ViewInv!(c)'
    BY <1>1, <1>2 DEF ViewInv
<1>7. QED
    BY <1>4, <1>5, <1>6 DEF HandlerInv

\* Taking the first of the results to read keeps the bounds on the others.
LEMMA RestOfTodo ==
    ASSUME NEW s, NEW t, NEW n, Len(s) \in Nat \ {0}, Len(t) = Len(s) - 1,
           \A k \in 1 .. Len(s) - 1 : t[k] = s[k + 1],
           \A k \in 1 .. Len(s) : s[k] <= n,
           \A k \in 1 .. Len(s) - 1 : s[k] < n
    PROVE  /\ \A k \in 1 .. Len(t) : t[k] <= n
           /\ \A k \in 1 .. Len(t) - 1 : t[k] < n
<1>1. ASSUME NEW k \in 1 .. Len(t)
      PROVE  t[k] <= n
    <2>1. k + 1 \in 1 .. Len(s) /\ t[k] = s[k + 1]
        OBVIOUS
    <2>2. QED
        BY <2>1
<1>2. ASSUME NEW k \in 1 .. Len(t) - 1
      PROVE  t[k] < n
    <2>1. k + 1 \in 1 .. Len(s) - 1 /\ t[k] = s[k + 1]
        OBVIOUS
    <2>2. QED
        BY <2>1
<1>3. QED
    BY <1>1, <1>2

\* What is appended to the response: the fields of one result, read at three
\* moments, and yet those of a command that ended as they say.
LEMMA ReadResultKeeps ==
    ASSUME APIInv, NEW c \in Callers, ReadResult(c)
    PROVE  HandlerInv(c)'
<1> USE DEF APIInv, APITypeOK
<1> DEFINE now == cell[Head(todo[c])]
           seen == [view[c] EXCEPT !.result = now.result]
           rest == Tail(todo[c])
           old == reply[c]
<1>1. /\ at[c] = "result" /\ at'[c] = IF rest = << >> THEN "idle" ELSE "status"
      /\ todo'[c] = rest /\ reply'[c] = Append(old, seen)
      /\ UNCHANGED <<wait, pc, created, cell>>
    BY DEF ReadResult, Handler, execVars, callVars, resultVars
<1>2. todo[c] # << >>
    BY <1>1 DEF TodoInv
<1>3. /\ rest \in Seq(Ids) /\ Len(rest) = Len(todo[c]) - 1
      /\ Len(todo[c]) \in Nat \ {0}
      /\ \A k \in 1 .. Len(todo[c]) - 1 : rest[k] = todo[c][k + 1]
    BY <1>2, HeadOfTodo
<1>4. now \in Cell /\ Complete(now)
    BY <1>2, CurrentResult DEF CellInv, IInv, TypeOK
<1>5. /\ seen.status = view[c].status /\ seen.error = view[c].error
      /\ seen.result = now.result
      /\ seen \in Cell
    BY <1>4 DEF Cell
<1>6. Complete(seen)
    <2>1. seen.status = Running => Complete(seen)
        BY DEF Complete, Agrees, Running, Succeeded, Failed, VersionMismatch
    <2>2. seen.status # Running => seen.status = now.status /\ seen.error = now.error
        BY <1>1, <1>5 DEF ViewInv
    <2>3. QED
        BY <1>4, <1>5, <2>1, <2>2 DEF Complete, Agrees
<1>7. seen.status = Running => rest = << >> /\ ~wait[c]
    BY <1>1, <1>5 DEF ViewInv, WaitInv
<1>8. /\ Len(old) \in Nat
      /\ Len(reply'[c]) = Len(old) + 1
      /\ \A k \in 1 .. Len(old) : reply'[c][k] = old[k]
      /\ reply'[c][Len(old) + 1] = seen
    BY <1>1, <1>5, AppendProperties
<1>9. \A k \in 1 .. Len(old) :
          Complete(old[k]) /\ old[k].status # Running
    BY <1>2 DEF ReplyInv
<1>10. ReplyInv!(c)'
    BY <1>1, <1>6, <1>7, <1>8, <1>9
<1>11. TodoInv!(c)'
    <2>1. at'[c] # "execute" /\ pc'[c] = "idle"
        BY <1>1 DEF TodoInv
    <2>2. /\ \A k \in 1 .. Len(todo[c]) : todo[c][k] <= created
          /\ \A k \in 1 .. Len(todo[c]) - 1 : todo[c][k] < created
        BY DEF TodoInv
    <2>3. /\ \A k \in 1 .. Len(rest) : rest[k] <= created
          /\ \A k \in 1 .. Len(rest) - 1 : rest[k] < created
        BY <1>3, <2>2, RestOfTodo
    <2>4. rest = << >> <=> at'[c] \in {"idle", "execute"}
        BY <1>1
    <2>5. QED
        BY <1>1, <2>1, <2>3, <2>4
<1>12. WaitInv!(c)' /\ ViewInv!(c)'
    <2>1. wait[c] => rest = << >>
        BY <1>1 DEF WaitInv, Reading
    <2>2. QED
        BY <1>1, <2>1 DEF Reading
<1>13. QED
    BY <1>10, <1>11, <1>12 DEF HandlerInv

-------------------------------------------------------------------------------
LEMMA InitAPIInv == APIInit => APIInv
<1> SUFFICES ASSUME APIInit PROVE APIInv
    OBVIOUS
<1> USE DEF APIInit
<1>1. IInv
    BY InitIInv
<1>2. CellInv
    BY DEF Init, CellInv, Complete, Agrees, BlankCell, Running, Succeeded, Failed,
           VersionMismatch
<1>3. ReturnedInv
    BY DEF Init, ReturnedInv
<1>4. << >> \in Seq(Ids) /\ << >> \in Seq(Cell) /\ BlankCell \in Cell
    BY EmptySeq DEF BlankCell, Cell, Status
<1>5. APITypeOK
    BY <1>1, <1>4 DEF IInv, APITypeOK, HandlerAt
<1>6. TodoInv /\ WaitInv /\ ViewInv /\ ReplyInv
    BY DEF Init, TodoInv, WaitInv, ViewInv, ReplyInv, Reading
<1>7. QED
    BY <1>1, <1>2, <1>3, <1>5, <1>6 DEF APIInv

LEMMA StepAPIInv == APIInv /\ [APINext]_apiVars => APIInv'
<1> SUFFICES ASSUME APIInv, [APINext]_apiVars
             PROVE  APIInv'
    OBVIOUS
<1>1. [Next]_execVars
    BY APIStepsAreCalls DEF apiVars
<1>2. IInv' /\ CellInv' /\ ReturnedInv'
    BY <1>1, StepIInv, CellStep, ReturnedStep DEF APIInv
<1>3. APITypeOK'
    <2>1. CASE APINext
        BY <1>2, <2>1, TypeStep DEF IInv
    <2>2. CASE UNCHANGED apiVars
        BY <1>2, <2>2 DEF IInv, APIInv, APITypeOK, apiVars, handlerVars
    <2>3. QED
        BY <2>1, <2>2
<1>4. SUFFICES ASSUME NEW c \in Callers
               PROVE  HandlerInv(c)'
    BY <1>2, <1>3 DEF APIInv, HandlerInv, TodoInv, WaitInv, ViewInv, ReplyInv
<1>5. CASE Unmoved(c)
    BY <1>1, <1>5, UnmovedKeeps
<1>6. CASE Request(c) \/ Handling(c)
    BY <1>5, <1>6, PostKeeps, PostExecutingKeeps, PostReturnedKeeps,
       PostRefusedKeeps, GetOneKeeps, GetAllKeeps, JoinKeeps, ReadStatusKeeps,
       ReadErrorKeeps, ReadResultKeeps
       DEF Request, Handling
<1>7. ASSUME NEW d \in Callers, Request(d) \/ Handling(d), d # c
      PROVE  Unmoved(c)
    BY <1>7, OthersUnmoved
<1>8. CASE ThreadNext /\ UNCHANGED handlerVars
    BY <1>5, <1>8, ThreadKeepsCalls DEF Unmoved, callVars, handlerVars
<1>9. CASE UNCHANGED apiVars
    BY <1>5, <1>9 DEF Unmoved, apiVars, execVars, callVars, handlerVars
<1>10. QED
    BY <1>5, <1>6, <1>7, <1>8, <1>9 DEF APINext

\* The inductive invariant of the handlers and the executor they share.
THEOREM APIInvariance == APISpec => []APIInv
BY InitAPIInv, StepAPIInv, PTL DEF APISpec

\* Every variable of the API keeps its type, whatever requests overlap.
THEOREM APITypeCorrect == APISpec => []APITypeOK
<1>1. APIInv => APITypeOK
    BY DEF APIInv
<1>2. QED
    BY <1>1, APIInvariance, PTL

\* A response never shows a finished command with the fields of an unfinished
\* one, although the handler reads them one by one and without the state lock.
THEOREM FinishedIsComplete == APISpec => []FinishedViewIsComplete
<1>1. APIInv => FinishedViewIsComplete
    BY DEF APIInv, APITypeOK, ReplyInv, FinishedViewIsComplete, Complete, Agrees
<1>2. QED
    BY <1>1, APIInvariance, PTL

\* In the list that get_all returns only the last command may be running.
THEOREM OnlyNewestRuns == APISpec => []OnlyNewestShownRunning
<1>1. APIInv => OnlyNewestShownRunning
    BY DEF APIInv, APITypeOK, ReplyInv, OnlyNewestShownRunning
<1>2. QED
    BY <1>1, APIInvariance, PTL

\* A client that asked to wait is answered with a finished command.
THEOREM WaitedIsFinished == APISpec => []WaitedForFinished
<1>1. APIInv => WaitedForFinished
    BY DEF APIInv, APITypeOK, ReplyInv, WaitedForFinished
<1>2. QED
    BY <1>1, APIInvariance, PTL

\* To the executor the API is a caller like any other: what it promises to any
\* callers, one command at a time and the command log, it promises under the API.
THEOREM APICallsExecutor ==
    APISpec => []AtMostOneRunning /\ FinalResultsAreStable /\ ImplementsLog
<1>1. APIInit => Init
    BY DEF APIInit
<1>2. [APINext]_apiVars => [Next]_execVars
    BY APIStepsAreCalls DEF apiVars
<1>3. APISpec => Spec
    BY <1>1, <1>2, PTL DEF APISpec, Spec
<1>4. QED
    BY <1>3, OneCommandAtATime, FinishedStaysFinished, Refinement, PTL
===============================================================================
