------------------------------ MODULE DiskErasure ------------------------------
(***************************************************************************)
(* The clean steps erase_devices_metadata and erase_devices of the generic *)
(* hardware manager: for every disk an ATA secure erase, or shred, over    *)
(* tools that fail, disks that are locked or frozen, crashes and power     *)
(* cycles.  Ironic cleans again after a failure.                           *)
(***************************************************************************)
EXTENDS Naturals, Sequences, FiniteSets

CONSTANTS
    Disks,         \* the block devices of type disk
    VirtualMedia,  \* the one labelled ir-vfd-dev
    NoDisk,
    NullMeans,     \* the password hdparm makes of NULL: "NULL" (< 9.51) or ""
    MaxFaults      \* bound: failures of tools, crashes and boots with frozen disks

ASSUME DisksAssumption == NoDisk \notin Disks /\ VirtualMedia \subseteq Disks
ASSUME NullMeansAssumption == NullMeans \in {"NULL", ""}
ASSUME MaxFaultsAssumption == MaxFaults \in Nat

VARIABLES
    content,    \* what is on each disk
    password,   \* its ATA user password; security is enabled if there is one
    locked,     \* is it locked
    frozen,     \* has the firmware frozen its security state
    ata,        \* does it offer the security feature set, and does smartctl reach it
    settings,   \* is secure erase enabled, is shred a fallback, is metadata erased
    op,         \* the clean step of the cycle
    at,         \* where it is
    todo,       \* the disks that are left of the list
    current,    \* the disk being erased
    tries,      \* passwords tried to unlock it
    errors,     \* disks whose metadata could not be destroyed
    unasked,    \* disks that smartctl failed on in this attempt (history)
    faults      \* so far

diskVars == <<content, password, locked, frozen>>
stepVars == <<op, at, todo, current, tries, errors>>
vars == <<diskVars, ata, settings, stepVars, unasked, faults>>

Content == {"data", "partial", "no_metadata", "erased"}
Passwords == {"none", "NULL", "", "owner"}
At == {"idle", "list", "next", "metadata", "erase", "security", "unlock", "set_pass",
       "secure_erase", "unlock_after", "verify", "shred", "succeeded", "failed", "cleaned"}
Settings == [secureErase : BOOLEAN, fallback : BOOLEAN, metadata : BOOLEAN]

\* The clean steps in the order of their priorities; the operator may disable the
\* first of them.
FirstStep == IF settings.metadata THEN "erase_devices_metadata" ELSE "erase_devices"

\* A disk may hold a password that nobody told the agent; it then starts locked.
Init ==
    /\ content = [d \in Disks |-> "data"]
    /\ password \in [Disks -> Passwords]
    /\ locked = [d \in Disks |-> password[d] # "none"]
    /\ frozen \in [Disks -> BOOLEAN]
    /\ ata \in [Disks -> {"none", "unreachable", "supported"}]
    /\ \A d \in Disks : ata[d] = "none" => password[d] = "none" /\ ~frozen[d]
    /\ \A d \in VirtualMedia : ata[d] = "none"
    /\ settings \in Settings
    /\ op = FirstStep
    /\ at = "idle"
    /\ todo = {}
    /\ current = NoDisk
    /\ tries = 0
    /\ errors = {}
    /\ unasked = {}
    /\ faults = 0

TypeOK ==
    /\ content \in [Disks -> Content]
    /\ password \in [Disks -> Passwords]
    /\ locked \in [Disks -> BOOLEAN]
    /\ frozen \in [Disks -> BOOLEAN]
    /\ ata \in [Disks -> {"none", "unreachable", "supported"}]
    /\ settings \in Settings
    /\ op \in {"erase_devices_metadata", "erase_devices"}
    /\ at \in At
    /\ todo \subseteq Disks
    /\ current \in Disks \cup {NoDisk}
    /\ tries \in 0 .. 2
    /\ errors \subseteq Disks
    /\ unasked \subseteq Disks
    /\ faults \in 0 .. MaxFaults

Goto(from, to) == at = from /\ at' = to
Enabled(d) == password[d] # "none"
Fault == faults < MaxFaults /\ faults' = faults + 1
NoFault == UNCHANGED faults
Set(f, v) == [f EXCEPT ![current] = v]

-------------------------------------------------------------------------------
(* The loops over the disks. *)

Begin ==
    /\ Goto("idle", "list")
    /\ errors' = {} /\ unasked' = {}
    /\ NoFault
    /\ UNCHANGED <<diskVars, ata, settings, op, todo, current, tries>>

\* list_block_devices: all disks; what is only known about some is left blank.
ListDisks ==
    /\ Goto("list", "next")
    /\ todo' = Disks
    /\ NoFault
    /\ UNCHANGED <<diskVars, ata, settings, unasked, op, current, tries, errors>>

\* lsblk fails or leaves a column out.
ListFails ==
    /\ Goto("list", "failed")
    /\ Fault
    /\ UNCHANGED <<diskVars, ata, settings, unasked, op, todo, current, tries, errors>>

NextDisk(d) ==
    /\ Goto("next", IF op = "erase_devices" THEN "erase" ELSE "metadata")
    /\ d \in todo
    /\ current' = d
    /\ todo' = todo \ {d}
    /\ NoFault
    /\ UNCHANGED <<diskVars, ata, settings, unasked, op, tries, errors>>

\* Mutant: what could not be destroyed is logged and forgotten.
LastDiskIgnoresErrors ==
    /\ Goto("next", "succeeded")
    /\ todo = {}
    /\ current' = NoDisk
    /\ NoFault
    /\ UNCHANGED <<diskVars, ata, settings, unasked, op, todo, tries, errors>>

\* The last disk is done; only the metadata step goes on after an error.
LastDisk ==
    /\ Goto("next", IF errors = {} THEN "succeeded" ELSE "failed")
    /\ todo = {}
    /\ current' = NoDisk
    /\ NoFault
    /\ UNCHANGED <<diskVars, ata, settings, unasked, op, todo, tries, errors>>

-------------------------------------------------------------------------------
(* erase_devices_metadata *)

\* destroy_disk_metadata works on a disk that accepts input and output.
DestroyMetadata ==
    /\ Goto("metadata", "next")
    /\ current \notin VirtualMedia /\ ~locked[current]
    /\ content' = Set(content, IF content[current] = "erased" THEN "erased"
                                                              ELSE "no_metadata")
    /\ NoFault
    /\ UNCHANGED <<password, locked, frozen, ata, settings, unasked, op, todo, current,
                   tries, errors>>

\* The failure is kept until the other disks are done.
DestroyMetadataFails ==
    /\ Goto("metadata", "next")
    /\ current \notin VirtualMedia
    /\ (locked[current] /\ NoFault) \/ Fault
    /\ errors' = errors \cup {current}
    /\ UNCHANGED <<diskVars, ata, settings, unasked, op, todo, current, tries>>

\* Only a ProcessExecutionError is collected: any other exception ends the step.
MetadataRaises ==
    /\ Goto("metadata", "failed")
    /\ current \notin VirtualMedia
    /\ Fault
    /\ UNCHANGED <<diskVars, ata, settings, unasked, op, todo, current, tries, errors>>

SkipVirtualMedia ==
    /\ at \in {"metadata", "erase"} /\ at' = "next"
    /\ current \in VirtualMedia
    /\ NoFault
    /\ UNCHANGED <<diskVars, ata, settings, unasked, op, todo, current, tries, errors>>

-------------------------------------------------------------------------------
(* erase_block_device *)

ChooseMethod ==
    /\ Goto("erase", IF settings.secureErase THEN "security" ELSE "shred")
    /\ current \notin VirtualMedia
    /\ NoFault
    /\ UNCHANGED <<diskVars, ata, settings, unasked, op, todo, current, tries, errors>>

\* BlockDeviceEraseError is raised: shred if that is allowed, else
\* IncompatibleHardwareMethodError, and no other manager is left to take it.
AtaFailed == IF settings.fallback THEN "shred" ELSE "failed"

\* _ata_erase looks at smartctl and at the security lines of hdparm -I; a disk that
\* smartctl never reaches, or that has no security lines, is shredded.
CheckSecurity ==
    /\ Goto("security", IF ata[current] # "supported" THEN "shred"
                        ELSE IF frozen[current] THEN AtaFailed ELSE "unlock")
    /\ tries' = 0
    /\ NoFault
    /\ UNCHANGED <<diskVars, ata, settings, unasked, op, todo, current, errors>>

\* smartctl fails on a disk that it reaches at other times: "return False", and so
\* shred, whatever the settings and the password of the disk.
SmartctlFails ==
    /\ Goto("security", "shred")
    /\ ata[current] = "supported"
    /\ unasked' = unasked \cup {current}
    /\ Fault
    /\ UNCHANGED <<diskVars, ata, settings, op, todo, current, tries, errors>>

\* Mutant: NULL is taken for the empty password, whatever hdparm makes of it.
OnlyEmptyPassword == <<"">>

\* Mutant: a third password is tried as well.
ThreePasswords == <<NullMeans, "", "owner">>

UnlockPasswords == <<NullMeans, "">>

\* One turn of __attempt_unlock_drive; it ends as soon as the disk is not locked.
TryUnlock ==
    /\ at \in {"unlock", "unlock_after"}
    /\ locked[current] /\ tries < Len(UnlockPasswords)
    /\ tries' = tries + 1
    /\ \/ NoFault /\ locked' = Set(locked, password[current] # UnlockPasswords[tries'])
       \/ Fault /\ UNCHANGED locked
    /\ UNCHANGED <<content, password, frozen, ata, settings, unasked, op, at, todo,
                   current, errors>>

Unlocking == locked[current] /\ tries < Len(UnlockPasswords)

Unlocked ==
    /\ Goto("unlock", IF locked[current] THEN AtaFailed
                      ELSE IF Enabled(current) THEN "secure_erase" ELSE "set_pass")
    /\ ~Unlocking
    /\ NoFault
    /\ UNCHANGED <<diskVars, ata, settings, unasked, op, todo, current, tries, errors>>

\* The disk is not locked by its new password before it is power cycled.
SetPassword ==
    /\ Goto("set_pass", "secure_erase")
    /\ password' = Set(password, NullMeans)
    /\ NoFault
    /\ UNCHANGED <<content, locked, frozen, ata, settings, unasked, op, todo, current,
                   tries, errors>>

SetPasswordFails ==
    /\ Goto("set_pass", AtaFailed)
    /\ Fault
    /\ UNCHANGED <<diskVars, ata, settings, unasked, op, todo, current, tries, errors>>

\* The password is right: the disk erases itself and drops it.
SecureErase ==
    /\ Goto("secure_erase", "verify")
    /\ password[current] = NullMeans /\ ~locked[current]
    /\ content' = Set(content, "erased")
    /\ password' = Set(password, "none")
    /\ NoFault
    /\ UNCHANGED <<locked, frozen, ata, settings, unasked, op, todo, current, tries,
                   errors>>

\* hdparm reports success, but the disk did not do it.
SecureEraseIgnored ==
    /\ Goto("secure_erase", "verify")
    /\ Fault
    /\ UNCHANGED <<diskVars, ata, settings, unasked, op, todo, current, tries, errors>>

\* Another password, or the disk gives up, maybe half-way and locked.
SecureEraseFails ==
    /\ Goto("secure_erase", "unlock_after")
    /\ \/ /\ password[current] # NullMeans \/ locked[current]
          /\ NoFault
          /\ UNCHANGED <<content, locked>>
       \/ /\ Fault
          /\ content' \in {content, Set(content, "partial")}
          /\ locked' \in {locked, Set(locked, TRUE)}
    /\ tries' = 0
    /\ UNCHANGED <<password, frozen, ata, settings, unasked, op, todo, current, errors>>

UnlockedAfterFailure ==
    /\ Goto("unlock_after", AtaFailed)
    /\ ~Unlocking
    /\ NoFault
    /\ UNCHANGED <<diskVars, ata, settings, unasked, op, todo, current, tries, errors>>

\* Mutant: the security state is not looked at after the erase.
NotVerified ==
    /\ Goto("verify", "next")
    /\ NoFault
    /\ UNCHANGED <<diskVars, ata, settings, unasked, op, todo, current, tries, errors>>

\* The erase was successful if security is now not enabled.
Verify ==
    /\ Goto("verify", IF Enabled(current) THEN AtaFailed ELSE "next")
    /\ NoFault
    /\ UNCHANGED <<diskVars, ata, settings, unasked, op, todo, current, tries, errors>>

\* hdparm -I fails, or hdparm cannot be run: no BlockDeviceEraseError, nothing catches
\* it.
HdparmRaises ==
    /\ at \in {"security", "unlock", "set_pass", "secure_erase", "unlock_after", "verify"}
    /\ at' = "failed"
    /\ Fault
    /\ UNCHANGED <<diskVars, ata, settings, unasked, op, todo, current, tries, errors>>

Shred ==
    /\ Goto("shred", "next")
    /\ ~locked[current]
    /\ content' = Set(content, "erased")
    /\ NoFault
    /\ UNCHANGED <<password, locked, frozen, ata, settings, unasked, op, todo, current,
                   tries, errors>>

\* The method is incompatible: no other manager is left, and the step fails.
ShredFails ==
    /\ Goto("shred", "failed")
    /\ \/ locked[current] /\ NoFault /\ UNCHANGED content
       \/ Fault /\ content' = Set(content, "partial")
    /\ UNCHANGED <<password, locked, frozen, ata, settings, unasked, op, todo, current,
                   tries, errors>>

-------------------------------------------------------------------------------
(* Ironic: the metadata first, as get_clean_steps gives it the higher priority. *)

StepSucceeded ==
    /\ Goto("succeeded", IF op = "erase_devices" THEN "cleaned" ELSE "idle")
    /\ op' = "erase_devices"
    /\ NoFault
    /\ UNCHANGED <<diskVars, ata, settings, unasked, todo, current, tries, errors>>

Restarted ==
    /\ at' = "idle" /\ op' = FirstStep /\ todo' = {}
    /\ current' = NoDisk /\ tries' = 0 /\ errors' = {} /\ unasked' = {}

\* A power cycle locks a disk that has a password; the firmware may freeze it.
PowerCycle ==
    /\ locked' = [d \in Disks |-> Enabled(d)]
    /\ \/ frozen' = [d \in Disks |-> FALSE]
       \/ frozen' \in [Disks -> BOOLEAN] /\ \A d \in Disks : frozen'[d] => ata[d] # "none"
    /\ IF \E d \in Disks : frozen'[d] THEN Fault ELSE NoFault
    /\ UNCHANGED <<content, password, ata, settings>>

\* After a failure the node is booted again and cleaned from the beginning.
CleanAgain == at = "failed" /\ Restarted /\ PowerCycle

\* The power, or only the agent, fails at any time; a secure erase may be cut off.
PowerLoss ==
    /\ at \notin {"idle", "failed", "cleaned"} /\ Restarted
    /\ faults < MaxFaults /\ faults' = faults + 1
    /\ locked' = [d \in Disks |-> Enabled(d)]
    /\ frozen' = [d \in Disks |-> FALSE]
    /\ content' \in IF at = "secure_erase" /\ ~locked[current]
                      THEN {content, Set(content, "partial")} ELSE {content}
    /\ UNCHANGED <<password, ata, settings>>

AgentCrash ==
    /\ at \notin {"idle", "failed", "cleaned"} /\ Restarted
    /\ Fault
    /\ UNCHANGED <<diskVars, ata, settings>>

\* The node is in use and comes back with data.
Use ==
    /\ at = "cleaned" /\ Restarted
    /\ content' = [d \in Disks |-> "data"]
    /\ NoFault
    /\ UNCHANGED <<password, locked, frozen, ata, settings>>

Erasing ==
    \/ ListDisks \/ (\E d \in Disks : NextDisk(d)) \/ LastDisk
    \/ DestroyMetadata \/ DestroyMetadataFails \/ SkipVirtualMedia
    \/ ChooseMethod \/ CheckSecurity \/ TryUnlock \/ Unlocked
    \/ SetPassword \/ SecureErase \/ SecureEraseFails \/ UnlockedAfterFailure
    \/ Verify \/ Shred \/ ShredFails

Ironic == Begin \/ StepSucceeded \/ CleanAgain

Next ==
    \/ Erasing \/ Ironic
    \/ ListFails \/ MetadataRaises \/ SmartctlFails \/ SetPasswordFails
    \/ SecureEraseIgnored \/ HdparmRaises
    \/ PowerLoss \/ AgentCrash \/ Use

\* The step goes on as long as it can, and Ironic cleans until it succeeds.
Spec == Init /\ [][Next]_vars /\ WF_vars(Erasing) /\ WF_vars(Ironic)

-------------------------------------------------------------------------------
\* erase_devices succeeds only if every disk but virtual media was erased, and
\* erase_devices_metadata only if each lost its metadata, whatever failed in this
\* or in earlier attempts.
SuccessMeansErased ==
    at = "succeeded" => \A d \in Disks \ VirtualMedia :
        content[d] \in IF op = "erase_devices" THEN {"erased"} ELSE {"erased", "no_metadata"}

\* A node that counts as cleaned has no locked disk.  A disk that kept a password, and
\* will lock itself when it is next powered on, kept one that the next _ata_erase tries;
\* and none kept one if secure erase is enabled, shred no fallback, and smartctl did
\* not fail on the disk.
CleanedIsUsable ==
    at = "cleaned" => \A d \in Disks \ VirtualMedia :
        /\ ~locked[d]
        /\ password[d] \in {"none", NullMeans, ""}
        /\ settings.secureErase /\ ~settings.fallback /\ d \notin unasked => ~Enabled(d)

CanRecover == (\A d \in Disks : ~Enabled(d)) => []<>(at = "cleaned")

\* If no disk had a password at first, then however many attempts failed or were cut
\* off, possibly with the password set or the disk locked, erase_devices succeeds
\* again as soon as nothing else fails: _ata_erase leaves no disk in a state from
\* which its next attempt, in this process or a later one, does not find out.
ErasureRecovers == ~settings.metadata => CanRecover

\* The same with both clean steps in the order of the priorities that the code gives
\* them, "in the event it has already been locked by a previous failed attempt".
CleaningRecovers == CanRecover
================================================================================
