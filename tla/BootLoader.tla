------------------------------- MODULE BootLoader -------------------------------
(***************************************************************************)
(* The image extension over the iSCSI extension.  Ironic writes the image  *)
(* over iSCSI, and install_bootloader then takes the target down, mounts   *)
(* what was written and runs grub in it.  Whatever fails, the mounts are   *)
(* unwound on the way out.                                                 *)
(***************************************************************************)
EXTENDS IscsiTarget

VARIABLES
    mounts,     \* what is mounted in the temporary directory of this command
    unmounting, \* the mount points that are still to be unmounted
    bindsFail,  \* umount_binds_fail
    raised,     \* is an exception on its way out
    installed,  \* what grub has done in this command
    deleted     \* the file systems in which rmtree has deleted files

mountVars == <<mounts, unmounting, bindsFail, raised>>
bootVars == <<mountVars, installed, deleted>>
vars == <<iscsiVars, bootVars>>

\* The mount points in the order in which they are mounted, and unmounted; root
\* comes before them and the EFI partition after them.
Binds == <<"/dev", "/proc", "/run", "/sys">>
MountPoints == {"root", "efi"} \cup {Binds[i] : i \in DOMAIN Binds}
GrubSteps == {"install", "removable", "mkconfig"}

BootCommand == [op : {"install_bootloader"}, efi : BOOLEAN, prep : BOOLEAN]
Command == StartCommand \cup BootCommand
At == {"idle", "device", "wipe", "lio", "tgt", "clean_up", "root", "partitions",
       "mount", "efi", "install", "removable", "mkconfig", "umount_efi", "umount",
       "umount_root", "rmtree", "leave", "succeeded", "failed"}

Init ==
    /\ IscsiInit
    /\ mounts = {}
    /\ unmounting = << >>
    /\ bindsFail = FALSE
    /\ raised = FALSE
    /\ installed = {}
    /\ deleted = {}

TypeOK ==
    /\ IscsiTypeOK
    /\ command \in Command \cup {NoCommand}
    /\ at \in At
    /\ mounts \subseteq MountPoints
    /\ \E n \in 0 .. Len(Binds) : unmounting = SubSeq(Binds, n + 1, Len(Binds))
    /\ bindsFail \in BOOLEAN /\ raised \in BOOLEAN
    /\ installed \subseteq GrubSteps
    /\ deleted \subseteq MountPoints

-------------------------------------------------------------------------------
(* install_bootloader *)

Install(c) ==
    /\ Goto("idle", "device")
    /\ command' = c
    /\ UNCHANGED <<targetVars, step, bootVars>>

\* Mutant: the target is not taken down.
NoCleanUp ==
    /\ command.op = "install_bootloader"
    /\ Goto("device", "root")
    /\ UNCHANGED <<targetVars, command, step, bootVars>>

FindBootDevice ==
    /\ command.op = "install_bootloader"
    /\ Goto("device", "clean_up")
    /\ UNCHANGED <<targetVars, command, step, bootVars>>

CleanUp ==
    /\ NothingToCleanUp("root") \/ DeleteTarget \/ DeleteStorage("root") \/ CleanUpFails
    /\ UNCHANGED bootVars

\* _get_partition: if the root partition is not found nothing is to be unwound.
FindRoot ==
    /\ Goto("root", "partitions") \/ Fail("root")
    /\ mounts' = {} /\ bindsFail' = FALSE /\ raised' = FALSE /\ installed' = {}
    /\ unmounting' = << >>
    /\ UNCHANGED <<targetVars, command, step, deleted>>

\* An exception between try and finally.
Unwind(from) ==
    /\ Goto(from, "umount_efi")
    /\ raised' = TRUE

\* The EFI partition and the PReP partition, if the command has one.
FindPartitions ==
    /\ \/ Goto("partitions", "mount") /\ UNCHANGED raised
       \/ Unwind("partitions") /\ (command.efi \/ command.prep)
    /\ UNCHANGED <<targetVars, command, step, mounts, unmounting, bindsFail, installed,
                   deleted>>

\* The next of root and the binds is mounted.
Mount ==
    LET done == Cardinality(mounts)
    IN  /\ IF done = Len(Binds)
             THEN Goto("mount", IF command.efi THEN "efi" ELSE "install")
             ELSE at = "mount" /\ UNCHANGED at
        /\ mounts' = mounts \cup {IF done = 0 THEN "root" ELSE Binds[done]}
        /\ UNCHANGED <<targetVars, command, step, unmounting, bindsFail, raised,
                       installed, deleted>>

MountEfi ==
    /\ Goto("efi", "install")
    /\ mounts' = mounts \cup {"efi"}
    /\ UNCHANGED <<targetVars, command, step, unmounting, bindsFail, raised, installed,
                   deleted>>

\* The steps of grub: a second install to the fallback path of the EFI partition.
RunGrub(from, to) ==
    /\ Goto(from, to)
    /\ installed' = installed \cup {from}
    /\ UNCHANGED <<targetVars, command, step, mountVars, deleted>>

Grub ==
    \/ RunGrub("install", IF command.efi THEN "removable" ELSE "mkconfig")
    \/ RunGrub("removable", "mkconfig")
    \/ RunGrub("mkconfig", "umount_efi")

\* A mount or a run of grub fails: CommandExecutionError, by way of finally.
InstallFails ==
    /\ \E from \in {"mount", "efi"} \cup GrubSteps : Unwind(from)
    /\ UNCHANGED <<targetVars, command, step, mounts, unmounting, bindsFail, installed,
                   deleted>>

-------------------------------------------------------------------------------
(* finally *)

UmountEfi ==
    /\ Goto("umount_efi", "umount")
    /\ mounts' = mounts \ {"efi"}
    /\ unmounting' = Binds
    /\ UNCHANGED <<targetVars, command, step, bindsFail, raised, installed, deleted>>

\* Mutant: a failure to unmount the EFI partition is only logged.
UmountEfiWarns ==
    /\ Goto("umount_efi", "umount")
    /\ "efi" \in mounts
    /\ unmounting' = Binds
    /\ UNCHANGED <<targetVars, command, step, mounts, bindsFail, raised, installed,
                   deleted>>

\* "We cannot be sure that all the changes were written back": finally is left by
\* an exception, with the other mounts in place.
UmountEfiFails ==
    /\ Fail("umount_efi")
    /\ "efi" \in mounts
    /\ UNCHANGED <<targetVars, command, step, bootVars>>

\* The binds and /sys in turn; what is not mounted cannot be unmounted.
Umount ==
    LET point == Head(unmounting)
    IN  /\ unmounting # << >>
        /\ IF Len(unmounting) = 1 THEN Goto("umount", "umount_root")
                                  ELSE at = "umount" /\ UNCHANGED at
        /\ unmounting' = Tail(unmounting)
        /\ \/ point \in mounts /\ mounts' = mounts \ {point} /\ UNCHANGED bindsFail
           \/ bindsFail' = TRUE /\ UNCHANGED mounts
        /\ UNCHANGED <<targetVars, command, step, raised, installed, deleted>>

\* A file system is busy as long as another is mounted in it.
UmountRoot ==
    /\ Goto("umount_root", "rmtree")
    /\ ~bindsFail
    /\ mounts = {"root"}
    /\ mounts' = {}
    /\ UNCHANGED <<targetVars, command, step, unmounting, bindsFail, raised, installed,
                   deleted>>

\* Mutant: the temporary directory is removed in any case.
RootLeftAndRemoved ==
    /\ Goto("umount_root", "rmtree")
    /\ UNCHANGED <<targetVars, command, step, bootVars>>

\* The binds were not all unmounted, or root is busy: a warning, and the directory
\* is left.
RootLeft ==
    /\ Goto("umount_root", "leave")
    /\ UNCHANGED <<targetVars, command, step, bootVars>>

RemoveDirectory ==
    /\ Goto("rmtree", "leave")
    /\ deleted' = deleted \cup mounts
    /\ UNCHANGED <<targetVars, command, step, mountVars, installed>>

LeaveInstall ==
    /\ Goto("leave", IF raised THEN "failed" ELSE "succeeded")
    /\ UNCHANGED <<targetVars, command, step, bootVars>>

-------------------------------------------------------------------------------
(* One command after the other; a command that failed may be sent again. *)

Return ==
    /\ at \in {"succeeded", "failed"} /\ at' = "idle"
    /\ command' = NoCommand
    /\ step' = 1
    /\ UNCHANGED <<targetVars, bootVars>>

\* The node is booted again: targets and mounts are gone.
Reboot ==
    /\ at' = "idle" /\ command' = NoCommand /\ step' = 1
    /\ objects' = 0 /\ tgt' = {}
    /\ mounts' = {} /\ unmounting' = << >> /\ bindsFail' = FALSE /\ raised' = FALSE
    /\ installed' = {}
    /\ UNCHANGED <<lio, deleted>>

Target ==
    /\ \/ \E c \in StartCommand : StartTarget(c)
       \/ NoDevice \/ FindTargetDevice \/ WipeMetadata
       \/ LioStep \/ LioFails \/ TgtStep \/ TgtFails
    /\ UNCHANGED bootVars

Next ==
    \/ Target
    \/ \E c \in BootCommand : Install(c)
    \/ FindBootDevice \/ CleanUp \/ FindRoot \/ FindPartitions
    \/ Mount \/ MountEfi \/ Grub \/ InstallFails
    \/ UmountEfi \/ UmountEfiFails \/ Umount
    \/ UmountRoot \/ RootLeft \/ RemoveDirectory \/ LeaveInstall
    \/ Return \/ Reboot

Spec == Init /\ [][Next]_vars

-------------------------------------------------------------------------------
\* rmtree of the temporary directory deletes nothing of the instance, nor of the
\* ramdisk's /dev or /run: it runs only when all that was mounted there is gone.
InstanceIsKept == deleted = {}

\* install_bootloader succeeds only if grub ran to the end, with the copy to the
\* fallback path for EFI, and the EFI partition was unmounted after it, although
\* failures to unmount the rest do not make it fail.
SuccessIsComplete ==
    at = "succeeded" /\ command.op = "install_bootloader" =>
        /\ installed = IF command.efi THEN GrubSteps ELSE {"install", "mkconfig"}
        /\ "efi" \notin mounts

\* The device is looked at, mounted and written only when no Linux-IO target, be it
\* complete or left half-made by a start that failed, holds it any more.
DeviceIsReleased ==
    at \in {"root", "partitions", "mount", "efi"} \cup GrubSteps => objects = 0
===============================================================================
