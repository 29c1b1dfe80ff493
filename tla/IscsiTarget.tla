------------------------------ MODULE IscsiTarget ------------------------------
(***************************************************************************)
(* The iSCSI extension: start_iscsi_target exposes the install device by   *)
(* Linux-IO or, where that is not available, by tgtd; clean_up takes a     *)
(* Linux-IO target down.  Every object is made by a call that may fail.    *)
(***************************************************************************)
EXTENDS Naturals, Sequences, FiniteSets

VARIABLES
    lio,      \* can Linux-IO be used in this ramdisk
    objects,  \* how many of the objects of a Linux-IO target there are
    tgt,      \* what tgtd has been told
    command,  \* the command being executed
    at,       \* where it is
    step      \* the object being made

targetVars == <<lio, objects, tgt>>
commandVars == <<command, at, step>>
iscsiVars == <<targetVars, commandVars>>

\* The objects in the order in which _start_lio makes them.  All but the first go
\* with the target.
LioObjects == <<"storage", "target", "tpg", "lun", "enabled", "portal">>

\* The commands of _start_tgtd; show is _wait_for_tgtd, and portal is left out for
\* the default port.
TgtCommands == <<"daemon", "show", "portal", "target", "lun", "bind">>

NoCommand == [op |-> "none"]
StartCommand == [op : {"start_iscsi_target"}, wipe : BOOLEAN, port : BOOLEAN]

IscsiInit ==
    /\ lio \in BOOLEAN
    /\ objects = 0
    /\ tgt = {}
    /\ command = NoCommand
    /\ at = "idle"
    /\ step = 1

IscsiTypeOK ==
    /\ lio \in BOOLEAN
    /\ objects \in 0 .. Len(LioObjects)
    /\ tgt \subseteq {TgtCommands[i] : i \in DOMAIN TgtCommands}
    /\ step \in 1 .. Len(LioObjects)

Goto(from, to) == at = from /\ at' = to
Fail(from) == Goto(from, "failed")

-------------------------------------------------------------------------------
(* start_iscsi_target *)

StartTarget(c) ==
    /\ Goto("idle", "device")
    /\ command' = c
    /\ UNCHANGED <<targetVars, step>>

\* get_os_install_device finds no device.
NoDevice ==
    /\ Fail("device")
    /\ UNCHANGED <<targetVars, command, step>>

Method == IF lio THEN "lio" ELSE "tgt"

FindTargetDevice ==
    /\ command.op = "start_iscsi_target"
    /\ Goto("device", IF command.wipe THEN "wipe" ELSE Method)
    /\ step' = 1
    /\ UNCHANGED <<targetVars, command>>

WipeMetadata ==
    /\ Goto("wipe", Method) \/ Fail("wipe")
    /\ UNCHANGED <<targetVars, command, step>>

\* Mutant: one more object is waited for than there are.
LioStepOn ==
    /\ at = "lio"
    /\ objects = step - 1
    /\ objects' = step
    /\ step' = step + 1
    /\ UNCHANGED <<lio, tgt, command, at>>

\* The next object of the target.  The storage object claims the device: there
\* must not be one for it yet.
LioStep ==
    /\ at = "lio"
    /\ objects = step - 1
    /\ objects' = step
    /\ IF step = Len(LioObjects) THEN Goto("lio", "succeeded") /\ UNCHANGED step
                                 ELSE step' = step + 1 /\ UNCHANGED at
    /\ UNCHANGED <<lio, tgt, command>>

\* RTSLibError: what has been made is left.
LioFails ==
    /\ Fail("lio")
    /\ UNCHANGED <<targetVars, command, step>>

TgtStep ==
    LET made == TgtCommands[step]
    IN  /\ at = "tgt"
        /\ made \in {"target", "lun"} => made \notin tgt
        /\ tgt' = IF made = "show" \/ (made = "portal" /\ ~command.port)
                    THEN tgt ELSE tgt \cup {made}
        /\ IF step = Len(TgtCommands) THEN Goto("tgt", "succeeded") /\ UNCHANGED step
                                      ELSE step' = step + 1 /\ UNCHANGED at
        /\ UNCHANGED <<lio, objects, command>>

\* A command of tgtd fails, cannot be run, or tgtd does not come up: _execute turns
\* all of it into ISCSICommandError.
TgtFails ==
    /\ Fail("tgt")
    /\ UNCHANGED <<targetVars, command, step>>

-------------------------------------------------------------------------------
(* clean_up, which goes on at next when it returns. *)

\* Linux-IO cannot be used, or has no storage object for the device.
NothingToCleanUp(next) ==
    /\ Goto("clean_up", next)
    /\ ~lio \/ objects = 0
    /\ UNCHANGED <<targetVars, command, step>>

\* The target of the storage object, if there is one, goes with all that is in it.
DeleteTarget ==
    /\ at = "clean_up" /\ lio /\ objects > 1
    /\ objects' = 1
    /\ UNCHANGED <<lio, tgt, commandVars>>

DeleteStorage(next) ==
    /\ Goto("clean_up", next)
    /\ lio /\ objects = 1
    /\ objects' = 0
    /\ UNCHANGED <<lio, tgt, command, step>>

\* RTSLibError in either.
CleanUpFails ==
    /\ Fail("clean_up")
    /\ lio /\ objects > 0
    /\ UNCHANGED <<targetVars, command, step>>

===============================================================================
