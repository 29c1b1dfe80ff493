------------------------------ MODULE AgentService ------------------------------
(***************************************************************************)
(* The agent process: its main thread looks the node up, binds the API     *)
(* server, starts the heartbeater, serves requests one by one, executing   *)
(* commands, until finalize_rescue ends the loop, and then stops the       *)
(* heartbeater.  The command threads force a heartbeat when they end.      *)
(***************************************************************************)
EXTENDS CommandExecution, Heartbeater

CONSTANT Main    \* the main thread, the only caller of execute_command

ASSUME ServiceAssumption == Callers = {Main} /\ Forcers = Ids

VARIABLES
    main,        \* where the main thread is in run
    listening,   \* is the API server's socket open
    nodeKnown,   \* has lookup_node returned
    serveApi,    \* self.serve_api
    unreported   \* the commands whose end no heartbeat has followed yet

mainVars == <<main, listening, nodeKnown, serveApi>>
vars == <<execVars, hbVars, mainVars, unreported>>

ServiceInit ==
    /\ Init
    /\ HBInit
    /\ main = "lookup"
    /\ listening = FALSE
    /\ nodeKnown = FALSE
    /\ serveApi = TRUE
    /\ unreported = {}

ServiceTypeOK ==
    /\ TypeOK
    /\ HBTypeOK
    /\ main \in {"lookup", "bind", "start", "serve", "handle", "stop", "exited",
                 "crashed"}
    /\ listening \in BOOLEAN /\ nodeKnown \in BOOLEAN /\ serveApi \in BOOLEAN
    /\ unreported \subseteq Ids

MainGoto(from, to) == main = from /\ main' = to

-------------------------------------------------------------------------------
(* The main thread: run and serve_ipa_api. *)

LookupNode ==
    /\ MainGoto("lookup", "bind")
    /\ nodeKnown' = TRUE
    /\ UNCHANGED <<listening, serveApi, unreported, execVars, hbVars>>

\* LookupNodeError is not caught: the process ends and is started anew.
LookupFails ==
    /\ MainGoto("lookup", "crashed")
    /\ UNCHANGED <<listening, nodeKnown, serveApi, unreported, execVars,
                   hbVars>>

BindServer ==
    /\ MainGoto("bind", "start")
    /\ listening' = TRUE
    /\ UNCHANGED <<nodeKnown, serveApi, unreported, execVars, hbVars>>

\* Mutant: the heartbeater is started before the socket is bound.
StartHeartbeaterEarly ==
    /\ main = "bind"
    /\ StartThread
    /\ UNCHANGED <<mainVars, unreported, execVars>>

StartHeartbeater ==
    /\ MainGoto("start", "serve")
    /\ StartThread
    /\ UNCHANGED <<listening, nodeKnown, serveApi, unreported, execVars>>

\* The loop tests serve_api and waits in server.handle_request.
EnterHandle ==
    /\ serveApi
    /\ MainGoto("serve", "handle")
    /\ UNCHANGED <<listening, nodeKnown, serveApi, unreported, execVars, hbVars>>

\* A client posts a command; what has become of serve_api is not asked again.
HandleRequest(k) ==
    /\ main = "handle"
    /\ BeginExecute(Main, k)
    /\ UNCHANGED <<hbVars, mainVars, unreported>>

\* A request that executes nothing, such as one for a command's result.
HandleOther ==
    /\ pc[Main] = "idle"
    /\ MainGoto("handle", "serve")
    /\ UNCHANGED <<listening, nodeKnown, serveApi, unreported, execVars, hbVars>>

Executing ==
    /\ InsideExecute(Main)
    /\ UNCHANGED <<hbVars, mainVars, unreported>>

\* finalize_rescue, posted by a client, is a synchronous command.
FinalizeRescue ==
    /\ ExecuteSync(Main)
    /\ serveApi' = FALSE
    /\ UNCHANGED <<hbVars, main, listening, nodeKnown, unreported>>

\* The response is sent, at once or after the wait for the command to end.
Respond ==
    /\ Return(Main)
    /\ MainGoto("handle", "serve")
    /\ UNCHANGED <<hbVars, listening, nodeKnown, serveApi, unreported>>

\* handle_request raises: the loop ends with IronicAPIError and run with it,
\* so the heartbeater is not stopped.
ServeFails ==
    /\ pc[Main] = "idle"
    /\ MainGoto("handle", "crashed")
    /\ listening' = FALSE
    /\ UNCHANGED <<nodeKnown, serveApi, unreported, execVars, hbVars>>

LeaveLoop ==
    /\ ~serveApi
    /\ MainGoto("serve", "stop")
    /\ listening' = FALSE
    /\ UNCHANGED <<nodeKnown, serveApi, unreported, execVars, hbVars>>

Stopping ==
    /\ main = "stop"
    /\ StopHeartbeater
    /\ UNCHANGED <<mainVars, unreported, execVars>>

Exit ==
    /\ stopAt = "stopped"
    /\ MainGoto("stop", "exited")
    /\ UNCHANGED <<listening, nodeKnown, serveApi, unreported, execVars,
                   hbVars>>

\* What the main thread does by itself ...
MainProgress ==
    \/ BindServer
    \/ StartHeartbeater
    \/ EnterHandle
    \/ Executing
    \/ FinalizeRescue
    \/ LeaveLoop
    \/ Stopping
    \/ Exit

\* ... and what waits for a peer that may never answer, ask or read.
MainServes ==
    \/ LookupNode
    \/ LookupFails
    \/ \E k \in Kinds : HandleRequest(k)
    \/ HandleOther
    \/ Respond
    \/ ServeFails

-------------------------------------------------------------------------------
(* The command threads, whose finally clause forces a heartbeat. *)

\* How it ends makes no difference here, but for the longer way out of a
\* version mismatch.
CommandBody(i) ==
    /\ \E o \in {Succeeded, VersionMismatch} : FinishBody(i, o)
    /\ UNCHANGED <<hbVars, mainVars, unreported>>

\* finalize_rescue may be a step of start_flow: the flow's own executor runs it
\* in the thread of the agent's command i, which is RUNNING.
FlowFinalizes(i) ==
    /\ thread[i] = "body"
    /\ serveApi' = FALSE
    /\ UNCHANGED <<execVars, hbVars, main, listening, nodeKnown, unreported>>

CommandPublishes(i) ==
    /\ PublishData(i) \/ PublishStatus(i) \/ ResetResult(i)
    /\ unreported' = IF cell'[i].status # cell[i].status THEN unreported \cup {i}
                                                         ELSE unreported
    /\ UNCHANGED <<hbVars, mainVars>>

CommandForces(i) ==
    /\ thread[i] = "finally"
    /\ ForceHeartbeat(i)
    /\ UNCHANGED <<execVars, mainVars, unreported>>

CommandEnds(i) ==
    /\ forcing[i] = "done"
    /\ EndThread(i)
    /\ UNCHANGED <<hbVars, mainVars, unreported>>

CommandProgress(i) == CommandPublishes(i) \/ CommandForces(i) \/ CommandEnds(i)

-------------------------------------------------------------------------------
(* The heartbeat thread. *)

\* The heartbeat carries no status: Ironic asks for the command's result when
\* it gets one, so it reports what has finished before it is sent.
Beating ==
    /\ HBProgress
    /\ unreported' = IF hbAt' = "sending" THEN {} ELSE unreported
    /\ UNCHANGED <<execVars, mainVars>>

\* The clock ends a poll.
Tick ==
    /\ interval > 0
    /\ PollTimeout
    /\ UNCHANGED <<execVars, mainVars, unreported>>

ServiceNext ==
    \/ MainProgress
    \/ MainServes
    \/ \E i \in Ids : CommandBody(i) \/ FlowFinalizes(i) \/ CommandProgress(i)
    \/ Beating
    \/ Tick

\* Threads that can go on do, and the body of a command ends.  Neither the clock
\* nor a peer is fair: a heartbeat is a request without a timeout.
ServiceFairness ==
    /\ WF_vars(MainProgress)
    /\ WF_vars(hbAt # "sending" /\ Beating)
    /\ \A i \in Ids : WF_vars(CommandBody(i)) /\ WF_vars(CommandProgress(i))

ServiceSpec == ServiceInit /\ [][ServiceNext]_vars /\ ServiceFairness

-------------------------------------------------------------------------------
HeartbeaterRuns == hbAt \notin {"new", "dead"}

\* A heartbeat is accepted by a peer and never answered.
IronicSilent == <>[](hbAt = "sending")

\* A command that has finished is followed by a heartbeat that begins after it
\* finished, without waiting for the clock: the byte of force_heartbeat is not
\* lost in any interleaving with the heartbeat thread, also before the pipe
\* exists.  It may be lost once the agent stops, when it has no address, and
\* when the heartbeat before it is never answered.
NoLostWakeup ==
    \/ IronicSilent
    \/ \A i \in Ids : (i \in unreported) ~>
                           (i \notin unreported \/ hbAt = "dead" \/ ~serveApi)

\* A heartbeat is sent only while the server listens for what Ironic sends in
\* reply ("Don't start heartbeating until the server is listening"), but for two
\* windows in which the thread outlives the socket: while the agent stops, and
\* after the main thread has died of an exception of the server.
HeartbeatsWhileListening ==
    [][hbAt' = "sending" =>
          nodeKnown /\ (listening \/ ~serveApi \/ main = "crashed")]_vars

\* Nothing ends the serve loop under a running command but that command itself:
\* a posted finalize_rescue is refused as any command is while the agent is
\* busy, and the only command whose flow can contain it is the running one.
NoForeignShutdown ==
    [][serveApi' # serveApi =>
          \A i \in Ids : IsRunning(i) => FlowFinalizes(i)]_vars

\* Once the serve loop has ended, and the heartbeat thread is past the search
\* for its address, the agent exits: the main thread, the heartbeater and the
\* command threads end ("IPA will stop serving requests and exit after this is
\* set to False"), unless a heartbeat is never answered.  Before it has its
\* address the thread has no pipe, stop finds none to write to, and the thread
\* outlives the main one.
AllThreadsEnded ==
    /\ main = "exited"
    /\ ~HeartbeaterRuns
    /\ \A i \in Ids : thread[i] \in {"none", "dead"}
AgentExits ==
    \/ IronicSilent
    \/ (main = "stop" /\ stopAt = "idle" /\ hbAt # "address") ~> AllThreadsEnded
===============================================================================
