------------------------------ MODULE Heartbeater ------------------------------
(***************************************************************************)
(* The heartbeat thread (IronicPythonAgentHeartbeater).  It polls a pipe   *)
(* of its own with a timeout; a byte in the pipe makes it heartbeat early  *)
(* (force_heartbeat, called by the command threads) or leave its loop      *)
(* (stop, called by the main thread).                                      *)
(***************************************************************************)
EXTENDS Naturals, Sequences

CONSTANTS
    Forcers,         \* the threads that call force_heartbeat
    ReadsText,       \* os.read returns text that can equal 'a' (Python 2),
                     \* not bytes that never do (Python 3)
    InitialDelay,    \* initial_delay and max_delay, in tenths of a second
    MaxDelay,
    HeartbeatTimeout,\* heartbeat_timeout from Ironic, in tenths of a second
    Multipliers      \* the jitter multipliers tried, in tenths

ASSUME ReadsTextAssumption == ReadsText \in BOOLEAN
ASSUME DelayAssumption ==
    /\ InitialDelay \in Nat /\ MaxDelay \in Nat /\ HeartbeatTimeout \in Nat
    /\ InitialDelay <= MaxDelay
ASSUME MultiplierAssumption == Multipliers \subseteq 3 .. 6

VARIABLES
    hbAt,        \* where the heartbeat thread is
    pipe,        \* the bytes in the pipe
    writer,      \* self.writer: None, an open descriptor, or a closed one
    interval,    \* how long the next poll waits at most
    errorDelay,  \* self.error_delay
    forcing,     \* where each forcer is in force_heartbeat
    stopAt       \* where the main thread is in stop

hbThreadVars == <<hbAt, interval, errorDelay>>
hbVars == <<hbThreadVars, pipe, writer, forcing, stopAt>>

HBInit ==
    /\ hbAt = "new"
    /\ pipe = << >>
    /\ writer = "none"
    /\ interval = 0
    /\ errorDelay = InitialDelay
    /\ forcing = [f \in Forcers |-> "idle"]
    /\ stopAt = "idle"

HBTypeOK ==
    /\ hbAt \in {"new", "address", "poll", "read", "beat", "sending",
                 "close", "clear", "dead"}
    /\ pipe \in Seq({"a", "b"})
    /\ writer \in {"none", "open", "closed"}
    /\ interval \in Nat
    /\ errorDelay \in InitialDelay .. MaxDelay
    /\ forcing \in [Forcers -> {"idle", "writing", "done"}]
    /\ stopAt \in {"idle", "writing", "join", "stopped"}

HBGoto(from, to) == hbAt = from /\ hbAt' = to

-------------------------------------------------------------------------------
(* The heartbeat thread. *)

StartThread ==
    /\ HBGoto("new", "address")
    /\ UNCHANGED <<interval, errorDelay, pipe, writer, forcing, stopAt>>

\* set_agent_advertise_addr succeeds and the pipe is made ...
FindAddress ==
    /\ HBGoto("address", "poll")
    /\ writer' = "open"
    /\ UNCHANGED <<interval, errorDelay, pipe, forcing, stopAt>>

\* ... or LookupAgentIPError ends the thread.
NoAddress ==
    /\ HBGoto("address", "dead")
    /\ UNCHANGED <<interval, errorDelay, pipe, writer, forcing, stopAt>>

PollReady ==
    /\ pipe # << >>
    /\ HBGoto("poll", "read")
    /\ UNCHANGED <<interval, errorDelay, pipe, writer, forcing, stopAt>>

PollTimeout ==
    /\ pipe = << >>
    /\ HBGoto("poll", "beat")
    /\ UNCHANGED <<interval, errorDelay, pipe, writer, forcing, stopAt>>

\* One byte is read; only text can equal 'a'.
ReadByte ==
    /\ HBGoto("read", IF ReadsText /\ Head(pipe) = "a" THEN "close" ELSE "beat")
    /\ pipe' = Tail(pipe)
    /\ UNCHANGED <<interval, errorDelay, writer, forcing, stopAt>>

SendHeartbeat ==
    /\ HBGoto("beat", "sending")
    /\ UNCHANGED <<interval, errorDelay, pipe, writer, forcing, stopAt>>

Backoff(d) == IF (d * 27) \div 10 < MaxDelay THEN (d * 27) \div 10 ELSE MaxDelay

\* Mutant: the pipe is drained after a heartbeat.
HeartbeatReturnsDrained(ok) ==
    /\ HBGoto("sending", "poll")
    /\ errorDelay' = IF ok THEN InitialDelay ELSE Backoff(errorDelay)
    /\ \E m \in Multipliers : interval' = (HeartbeatTimeout * m) \div 10
    /\ pipe' = << >>
    /\ UNCHANGED <<writer, forcing, stopAt>>

\* do_heartbeat returns, having swallowed any error, and the next interval is
\* drawn from heartbeat_timeout.
HeartbeatReturns(ok) ==
    /\ HBGoto("sending", "poll")
    /\ errorDelay' = IF ok THEN InitialDelay ELSE Backoff(errorDelay)
    /\ \E m \in Multipliers : interval' = (HeartbeatTimeout * m) \div 10
    /\ UNCHANGED <<pipe, writer, forcing, stopAt>>

\* The finally clause closes the pipe, then forgets its descriptors.
ClosePipe ==
    /\ HBGoto("close", "clear")
    /\ writer' = "closed"
    /\ pipe' = << >>
    /\ UNCHANGED <<interval, errorDelay, forcing, stopAt>>

ClearPipe ==
    /\ HBGoto("clear", "dead")
    /\ writer' = "none"
    /\ UNCHANGED <<interval, errorDelay, pipe, forcing, stopAt>>

\* What the thread does by itself; only PollTimeout of a positive interval
\* waits for the clock.
HBProgress ==
    \/ FindAddress
    \/ NoAddress
    \/ PollReady
    \/ interval = 0 /\ PollTimeout
    \/ ReadByte
    \/ SendHeartbeat
    \/ \E ok \in BOOLEAN : HeartbeatReturns(ok)
    \/ ClosePipe
    \/ ClearPipe

-------------------------------------------------------------------------------
(* force_heartbeat: os.write(self.writer, b'b'). *)

\* With self.writer still None the write raises at once.
LoadWriter(f) ==
    /\ forcing[f] = "idle"
    /\ forcing' = [forcing EXCEPT ![f] = IF writer = "none" THEN "done"
                                                            ELSE "writing"]
    /\ UNCHANGED <<hbThreadVars, pipe, writer, stopAt>>

\* The descriptor may have been closed meanwhile: the write fails.
WriteForce(f) ==
    /\ forcing[f] = "writing"
    /\ forcing' = [forcing EXCEPT ![f] = "done"]
    /\ pipe' = IF writer = "open" THEN Append(pipe, "b") ELSE pipe
    /\ UNCHANGED <<hbThreadVars, writer, stopAt>>

ForceHeartbeat(f) == LoadWriter(f) \/ WriteForce(f)

-------------------------------------------------------------------------------
(* stop. *)

\* Nothing is stopped while there is no pipe.
CheckWriter ==
    /\ stopAt = "idle"
    /\ stopAt' = IF writer = "none" THEN "stopped" ELSE "writing"
    /\ UNCHANGED <<hbThreadVars, pipe, writer, forcing>>

\* Mutant: stop writes the byte of force_heartbeat.
WriteStopAsForce ==
    /\ stopAt = "writing"
    /\ stopAt' = "join"
    /\ pipe' = Append(pipe, "b")
    /\ UNCHANGED <<hbThreadVars, writer, forcing>>

WriteStop ==
    /\ stopAt = "writing"
    /\ stopAt' = "join"
    /\ pipe' = Append(pipe, "a")
    /\ UNCHANGED <<hbThreadVars, writer, forcing>>

JoinHeartbeater ==
    /\ stopAt = "join"
    /\ hbAt = "dead"
    /\ stopAt' = "stopped"
    /\ UNCHANGED <<hbThreadVars, pipe, writer, forcing>>

StopHeartbeater == CheckWriter \/ WriteStop \/ JoinHeartbeater

-------------------------------------------------------------------------------
HBNext ==
    \/ StartThread
    \/ HBProgress
    \/ interval > 0 /\ PollTimeout
    \/ \E f \in Forcers : ForceHeartbeat(f)
    \/ StopHeartbeater

HBSpec == HBInit /\ [][HBNext]_hbVars

\* After a failed heartbeat the thread waits a portion of error_delay ("In
\* reality we will only wait a portion of either of these delays based on the
\* jitter multipliers", the comment above initial_delay).
ErrorDelayIsUsed ==
    hbAt = "poll" /\ errorDelay # InitialDelay =>
        interval <= (errorDelay * 6) \div 10
===============================================================================
