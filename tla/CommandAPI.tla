------------------------------ MODULE CommandAPI ------------------------------
(***************************************************************************)
(* The command controller of the REST API over the agent's executor: post, *)
(* get_one and get_all.  A handler reads the fields of a result one after  *)
(* the other and without its command_state_lock, while the command's       *)
(* thread may be publishing them.                                          *)
(***************************************************************************)
EXTENDS CommandExecution

VARIABLES
    at,      \* where each handler is
    wait,    \* was the request made with wait=true
    todo,    \* the results a handler still has to read, the current one first
    view,    \* the fields it has read of the current one
    reply    \* the views it has finished: the body of its response

handlerVars == <<at, wait, todo, view, reply>>
apiVars == <<execVars, handlerVars>>

HandlerAt == {"idle", "execute", "join", "status", "error", "result"}

APIInit ==
    /\ Init
    /\ at = [c \in Callers |-> "idle"]
    /\ wait = [c \in Callers |-> FALSE]
    /\ todo = [c \in Callers |-> << >>]
    /\ view = [c \in Callers |-> BlankCell]
    /\ reply = [c \in Callers |-> << >>]

APITypeOK ==
    /\ TypeOK
    /\ at \in [Callers -> HandlerAt]
    /\ wait \in [Callers -> BOOLEAN]
    /\ todo \in [Callers -> Seq(Ids)]
    /\ view \in [Callers -> Cell]
    /\ reply \in [Callers -> Seq(Cell)]

Handler(c, from, to) ==
    /\ at[c] = from
    /\ at' = [at EXCEPT ![c] = to]

\* The handler goes on to the results ids: join first if the client waits.
StartReading(c, from, w, ids) ==
    /\ Handler(c, from, IF w THEN "join" ELSE
                        IF ids = << >> THEN "idle" ELSE "status")
    /\ todo' = [todo EXCEPT ![c] = ids]
    /\ reply' = [reply EXCEPT ![c] = << >>]

\* POST /v1/commands
Post(c, k, w) ==
    /\ Handler(c, "idle", "execute")
    /\ BeginExecute(c, k)
    /\ wait' = [wait EXCEPT ![c] = w]
    /\ reply' = [reply EXCEPT ![c] = << >>]
    /\ UNCHANGED <<todo, view>>

PostExecuting(c) ==
    /\ at[c] = "execute"
    /\ InsideExecute(c)
    /\ UNCHANGED handlerVars

\* execute_command returned a result, or raised an error that is the response.
PostReturned(c) ==
    /\ pc[c] = "returned"
    /\ Return(c)
    /\ StartReading(c, "execute", wait[c], <<local[c]>>)
    /\ UNCHANGED <<wait, view>>

PostRefused(c) ==
    /\ pc[c] = "refused"
    /\ Return(c)
    /\ Handler(c, "execute", "idle")
    /\ UNCHANGED <<wait, todo, view, reply>>

\* GET /v1/commands/<id>; an id that is not recorded is a 404 and changes
\* nothing.
GetOne(c, i, w) ==
    /\ \E k \in DOMAIN results : results[k] = i
    /\ StartReading(c, "idle", w, <<i>>)
    /\ wait' = [wait EXCEPT ![c] = w]
    /\ UNCHANGED <<view, execVars>>

\* GET /v1/commands: the list is copied, then its results are read in turn.
GetAll(c) ==
    /\ StartReading(c, "idle", FALSE, results)
    /\ wait' = [wait EXCEPT ![c] = FALSE]
    /\ UNCHANGED <<view, execVars>>

Join(c) ==
    /\ Handler(c, "join", "status")
    /\ Joinable(Head(todo[c]))
    /\ UNCHANGED <<wait, todo, view, reply, execVars>>

\* from_result copies the fields in this order; so does WSME, by the order of
\* their declaration, for the result that post returns.
ReadStatus(c) ==
    /\ Handler(c, "status", "error")
    /\ view' = [view EXCEPT ![c].status = cell[Head(todo[c])].status]
    /\ UNCHANGED <<wait, todo, reply, execVars>>

ReadError(c) ==
    /\ Handler(c, "error", "result")
    /\ view' = [view EXCEPT ![c].error = cell[Head(todo[c])].error]
    /\ UNCHANGED <<wait, todo, reply, execVars>>

\* Mutant: the status is read again, after error and result.
ReadStatusLast(c) ==
    LET now == cell[Head(todo[c])]
        seen == [view[c] EXCEPT !.result = now.result, !.status = now.status]
        rest == Tail(todo[c])
    IN  /\ Handler(c, "result", IF rest = << >> THEN "idle" ELSE "status")
        /\ view' = [view EXCEPT ![c] = BlankCell]
        /\ reply' = [reply EXCEPT ![c] = Append(@, seen)]
        /\ todo' = [todo EXCEPT ![c] = rest]
        /\ UNCHANGED <<wait, execVars>>

ReadResult(c) ==
    LET seen == [view[c] EXCEPT !.result = cell[Head(todo[c])].result]
        rest == Tail(todo[c])
    IN  /\ Handler(c, "result", IF rest = << >> THEN "idle" ELSE "status")
        /\ view' = [view EXCEPT ![c] = BlankCell]
        /\ reply' = [reply EXCEPT ![c] = Append(@, seen)]
        /\ todo' = [todo EXCEPT ![c] = rest]
        /\ UNCHANGED <<wait, execVars>>

Handling(c) ==
    \/ PostExecuting(c)
    \/ PostReturned(c)
    \/ PostRefused(c)
    \/ Join(c)
    \/ ReadStatus(c)
    \/ ReadError(c)
    \/ ReadResult(c)

Request(c) ==
    \/ \E k \in Kinds, w \in BOOLEAN : Post(c, k, w)
    \/ \E i \in Ids, w \in BOOLEAN : GetOne(c, i, w)
    \/ GetAll(c)

APINext ==
    \/ \E c \in Callers : Request(c) \/ Handling(c)
    \/ ThreadNext /\ UNCHANGED handlerVars

\* A request being handled goes on, a thread that runs goes on, and the body
\* of a command ends.  Requests arrive or not, as the client likes.
APIFairness ==
    /\ \A c \in Callers : WF_apiVars(Handling(c))
    /\ \A i \in Ids :
          /\ WF_apiVars(ThreadProgress(i) /\ UNCHANGED handlerVars)
          /\ WF_apiVars(\E o \in Terminal :
                        FinishBody(i, o) /\ UNCHANGED handlerVars)

APISpec == APIInit /\ [][APINext]_apiVars /\ APIFairness

-------------------------------------------------------------------------------
\* A response that shows a command as finished shows what it finished with:
\* reading status before error and result, against run writing it after them,
\* makes the unlocked reads of from_result safe.
FinishedViewIsComplete ==
    \A c \in Callers : \A k \in DOMAIN reply[c] :
        LET v == reply[c][k] IN
        /\ v.status = Succeeded => v.result /\ ~v.error
        /\ v.status \in {Failed, VersionMismatch} => v.error /\ ~v.result

\* In the list of commands only the newest may be shown as running, although
\* get_all copies the list and reads its results with no lock at all.
OnlyNewestShownRunning ==
    \A c \in Callers : \A k \in DOMAIN reply[c] :
        (reply[c][k].status = Running) =>
            k = Len(reply[c]) /\ todo[c] = << >>

\* A client that waited is never told RUNNING (join of post and get_one).
WaitedForFinished ==
    \A c \in Callers : wait[c] =>
        \A k \in DOMAIN reply[c] : reply[c][k].status # Running

\* Every request is answered, also one that waits for a command to end and one
\* made while a command publishes its outcome.
RequestsAnswered == \A c \in Callers : (at[c] # "idle") ~> (at[c] = "idle")
===============================================================================
