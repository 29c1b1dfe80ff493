------------------------------ MODULE CommandLog ------------------------------
(***************************************************************************)
(* What the agent's command interface promises to its client, and nothing  *)
(* about how: a log of commands that only grows, in which a command may be *)
(* added only when every earlier one has finished, and in which a finished *)
(* entry never changes again.  CommandExecution implements it.             *)
(***************************************************************************)
EXTENDS Naturals, Sequences

VARIABLE log   \* the status of every recorded command, oldest first

Running == "RUNNING"
Terminal == {"SUCCEEDED", "FAILED", "CLEAN_VERSION_MISMATCH"}
Status == Terminal \cup {Running}

TypeOK == log \in Seq(Status)

AllDone == \A i \in DOMAIN log : log[i] \in Terminal

Init == log = << >>

\* A command is accepted.  It may already have finished when it is recorded.
Accept(s) ==
    /\ AllDone
    /\ log' = Append(log, s)

\* The running command finishes; it is always the newest.
Finish(s) ==
    /\ log # << >>
    /\ log[Len(log)] = Running
    /\ log' = [log EXCEPT ![Len(log)] = s]

Next ==
    \/ \E s \in Status : Accept(s)
    \/ \E s \in Terminal : Finish(s)

Spec == Init /\ [][Next]_log
===============================================================================
