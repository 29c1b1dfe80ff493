---------------------------- MODULE BootLoaderProofs ----------------------------
(***************************************************************************)
(* The safety of the boot loader's installation over the iSCSI target.     *)
(* Nothing is bounded in the model; the proofs say why its invariants hold. *)
(***************************************************************************)
EXTENDS BootLoader, FiniteSetTheorems, SequenceTheorems, TLAPS

\* Where install_bootloader is between clean_up and finally.
Inside == {"root", "partitions", "mount", "efi"} \cup GrubSteps

\* The temporary directory is only removed when nothing is mounted in it.
DirectoryInv ==
    /\ InstanceIsKept
    /\ at = "rmtree" => mounts = {}

\* The target is gone before the first look at the device, and stays away.
DeviceInv ==
    /\ ~lio => objects = 0
    /\ at = "lio" => lio
    /\ DeviceIsReleased

\* What grub has done so far, by the place it has reached, unless it raised.
Finally == {"umount_efi", "umount", "umount_root", "rmtree", "leave"}
NeededSteps == IF command.efi THEN GrubSteps ELSE {"install", "mkconfig"}

GrubInv ==
    /\ at \in {"efi", "removable"} => command.efi
    /\ at = "removable" => installed = {"install"}
    /\ at = "mkconfig" =>
           installed = IF command.efi THEN {"install", "removable"} ELSE {"install"}
    /\ at \in {"partitions", "mount", "efi", "install"} => installed = {}
    /\ at \in Inside \ {"root"} => ~raised
    /\ at \in Finally /\ ~raised => installed = NeededSteps
    /\ at \in {"umount", "umount_root", "rmtree", "leave"} => "efi" \notin mounts
    /\ at \in Inside \cup Finally \cup {"clean_up"} => command \in BootCommand
    /\ at \in {"wipe", "lio", "tgt"} => command \in StartCommand
    /\ at = "device" => command \in Command
    /\ SuccessIsComplete

-------------------------------------------------------------------------------
LEMMA InitDirectoryInv == Init => DirectoryInv
BY DEF Init, IscsiInit, DirectoryInv, InstanceIsKept

\* The directory is removed from "rmtree" only, which UmountRoot alone leads to.
LEMMA NextKeepsDirectoryInv ==
    ASSUME DirectoryInv, [Next]_vars PROVE DirectoryInv'
<1>1. CASE RemoveDirectory
  BY <1>1 DEF RemoveDirectory, DirectoryInv, InstanceIsKept, Goto
<1>2. CASE UmountRoot
  BY <1>2 DEF UmountRoot, DirectoryInv, InstanceIsKept, Goto
<1>3. CASE Target
  <2>1. UNCHANGED deleted /\ at' # "rmtree"
    BY <1>3 DEF Target, StartTarget, NoDevice, FindTargetDevice, WipeMetadata, Method,
                LioStep, LioFails, TgtStep, TgtFails, Goto, Fail, bootVars
  <2> QED
    BY <2>1 DEF DirectoryInv, InstanceIsKept
<1>4. CASE \/ \E c \in BootCommand : Install(c)
           \/ FindBootDevice \/ CleanUp \/ FindRoot \/ FindPartitions
  <2>1. UNCHANGED deleted /\ at' # "rmtree"
    BY <1>4 DEF Install, FindBootDevice, CleanUp, NothingToCleanUp, DeleteTarget,
                DeleteStorage, CleanUpFails, FindRoot, FindPartitions, Unwind, Goto,
                Fail, bootVars, commandVars
  <2> QED
    BY <2>1 DEF DirectoryInv, InstanceIsKept
<1>5. CASE Mount \/ MountEfi \/ Grub \/ InstallFails
  <2>1. UNCHANGED deleted /\ at' # "rmtree"
    BY <1>5 DEF Mount, MountEfi, Grub, RunGrub, InstallFails, Unwind, Goto
  <2> QED
    BY <2>1 DEF DirectoryInv, InstanceIsKept
<1>6. CASE \/ UmountEfi \/ UmountEfiFails \/ Umount \/ RootLeft \/ LeaveInstall
           \/ Return \/ Reboot
  <2>1. UNCHANGED deleted /\ at' # "rmtree"
    BY <1>6 DEF UmountEfi, UmountEfiFails, Umount, RootLeft, LeaveInstall, Return, Reboot,
                Goto, Fail, bootVars
  <2> QED
    BY <2>1 DEF DirectoryInv, InstanceIsKept
<1>7. CASE UNCHANGED vars
  BY <1>7 DEF vars, iscsiVars, commandVars, bootVars, mountVars, DirectoryInv,
              InstanceIsKept
<1> QED
  BY <1>1, <1>2, <1>3, <1>4, <1>5, <1>6, <1>7 DEF Next

\* rmtree deletes nothing of the instance.
THEOREM NothingIsDeleted == Spec => []InstanceIsKept
<1>1. DirectoryInv => InstanceIsKept
  BY DEF DirectoryInv
<1> QED
  BY <1>1, InitDirectoryInv, NextKeepsDirectoryInv, PTL DEF Spec

-------------------------------------------------------------------------------
LEMMA InitDeviceInv == Init => DeviceInv
BY DEF Init, IscsiInit, DeviceInv, DeviceIsReleased, GrubSteps

\* Targets are only made in start_iscsi_target; clean_up is left for "root" only
\* without one.
LEMMA NextKeepsDeviceInv ==
    ASSUME DeviceInv, [Next]_vars PROVE DeviceInv'
<1>1. CASE Target
  <2>1. CASE LioStep
    BY <2>1 DEF LioStep, DeviceInv, DeviceIsReleased, GrubSteps, Goto
  <2>2. CASE \/ \E c \in StartCommand : StartTarget(c)
             \/ NoDevice \/ FindTargetDevice \/ WipeMetadata
             \/ LioFails \/ TgtStep \/ TgtFails
    <3>1. UNCHANGED <<lio, objects>>
      BY <2>2 DEF StartTarget, NoDevice, FindTargetDevice, WipeMetadata, LioFails, TgtStep,
                  TgtFails, targetVars
    <3>2. \/ at' \in {"device", "failed", "wipe", "tgt", "succeeded"}
           \/ (at' = "lio" /\ lio)
      BY <2>2 DEF StartTarget, NoDevice, FindTargetDevice, WipeMetadata, LioFails, TgtStep,
                  TgtFails, Method, Goto, Fail
    <3> QED
      BY <3>1, <3>2 DEF DeviceInv, DeviceIsReleased, GrubSteps
  <2> QED
    BY <1>1, <2>1, <2>2 DEF Target
<1>2. CASE CleanUp
  BY <1>2 DEF CleanUp, NothingToCleanUp, DeleteTarget, DeleteStorage, CleanUpFails,
              targetVars, commandVars, DeviceInv, DeviceIsReleased, GrubSteps, Goto, Fail
<1>3. CASE \/ FindRoot \/ FindPartitions \/ Mount \/ MountEfi \/ Grub \/ InstallFails
  <2>1. UNCHANGED <<lio, objects>> /\ at \in Inside /\ at' # "lio"
    BY <1>3 DEF FindRoot, FindPartitions, Mount, MountEfi, Grub, RunGrub, InstallFails,
                Unwind, Goto, Fail, targetVars, Inside, GrubSteps
  <2> QED
    BY <2>1 DEF DeviceInv, DeviceIsReleased, Inside
<1>4. CASE \/ \E c \in BootCommand : Install(c)
           \/ FindBootDevice \/ UmountEfi \/ UmountEfiFails \/ Umount
           \/ UmountRoot \/ RootLeft \/ RemoveDirectory \/ LeaveInstall \/ Return
  <2>1. UNCHANGED <<lio, objects>>
    BY <1>4 DEF Install, FindBootDevice, UmountEfi, UmountEfiFails, Umount, UmountRoot,
                RootLeft, RemoveDirectory, LeaveInstall, Return, targetVars
  <2>2. at' \in {"device", "clean_up", "umount", "failed", "umount_root", "rmtree",
                 "leave", "succeeded", "idle"}
    BY <1>4 DEF Install, FindBootDevice, UmountEfi, UmountEfiFails, Umount, UmountRoot,
                RootLeft, RemoveDirectory, LeaveInstall, Return, Goto, Fail
  <2> QED
    BY <2>1, <2>2 DEF DeviceInv, DeviceIsReleased, GrubSteps
<1>5. CASE Reboot
  BY <1>5 DEF Reboot, DeviceInv, DeviceIsReleased, GrubSteps
<1>6. CASE UNCHANGED vars
  BY <1>6 DEF vars, iscsiVars, targetVars, commandVars, DeviceInv, DeviceIsReleased
<1> QED
  BY <1>1, <1>2, <1>3, <1>4, <1>5, <1>6 DEF Next

\* No Linux-IO target holds the device while install_bootloader works on it.
THEOREM NoTargetHoldsDevice == Spec => []DeviceIsReleased
<1>1. DeviceInv => DeviceIsReleased
  BY DEF DeviceInv
<1> QED
  BY <1>1, InitDeviceInv, NextKeepsDeviceInv, PTL DEF Spec

-------------------------------------------------------------------------------
LEMMA InitGrubInv == Init => GrubInv
BY DEF Init, IscsiInit, GrubInv, Inside, GrubSteps, Finally, SuccessIsComplete

\* The steps of start_iscsi_target succeed for a command of that name only.
LEMMA TargetKeepsGrubInv ==
    ASSUME GrubInv, Target PROVE GrubInv'
<1>1. CASE \E c \in StartCommand : StartTarget(c)
  BY <1>1 DEF StartTarget, Command, Goto, GrubInv, Inside, GrubSteps, Finally,
              SuccessIsComplete
<1>2. CASE \/ NoDevice \/ FindTargetDevice \/ WipeMetadata
           \/ LioStep \/ LioFails \/ TgtStep \/ TgtFails
  <2>1. at \in {"device", "wipe", "lio", "tgt"} /\ command' = command
    BY <1>2 DEF NoDevice, FindTargetDevice, WipeMetadata, LioStep, LioFails, TgtStep,
                TgtFails, Goto, Fail
  <2>2. at = "device" /\ at' # "failed" => command.op = "start_iscsi_target"
    BY <1>2 DEF NoDevice, FindTargetDevice, WipeMetadata, LioStep, LioFails, TgtStep,
                TgtFails, Goto, Fail
  <2>3. at' \in {"failed", "wipe", "lio", "tgt", "succeeded"}
    BY <1>2 DEF NoDevice, FindTargetDevice, WipeMetadata, LioStep, LioFails, TgtStep,
                TgtFails, Method, Goto, Fail
  <2>4. at' # "failed" => command \in StartCommand
    BY <2>1, <2>2 DEF GrubInv, Command, StartCommand, BootCommand
  <2>5. \A c \in StartCommand : c.op # "install_bootloader"
    BY DEF StartCommand
  <2> QED
    BY <2>1, <2>3, <2>4, <2>5 DEF GrubInv, Inside, GrubSteps, Finally, SuccessIsComplete
<1> QED
  BY <1>1, <1>2 DEF Target

\* From the call to the first mount.
LEMMA PrepareKeepsGrubInv ==
    ASSUME GrubInv,
           \/ \E c \in BootCommand : Install(c)
           \/ FindBootDevice \/ CleanUp \/ FindRoot \/ FindPartitions
    PROVE  GrubInv'
<1>1. CASE \E c \in BootCommand : Install(c)
  BY <1>1 DEF Install, Command, Goto, GrubInv, Inside, GrubSteps, Finally,
              SuccessIsComplete
<1>2. CASE FindBootDevice
  <2>1. at = "device" /\ at' = "clean_up" /\ command' = command
        /\ command.op = "install_bootloader"
    BY <1>2 DEF FindBootDevice, Goto
  <2>2. command \in BootCommand
    BY <2>1 DEF GrubInv, Command, StartCommand
  <2> QED
    BY <2>1, <2>2 DEF GrubInv, Inside, GrubSteps, Finally, SuccessIsComplete
<1>3. CASE CleanUp
  <2>1. at = "clean_up" /\ at' \in {"clean_up", "root", "failed"} /\ command' = command
    BY <1>3 DEF CleanUp, NothingToCleanUp, DeleteTarget, DeleteStorage, CleanUpFails,
                commandVars, Goto, Fail
  <2> QED
    BY <2>1 DEF GrubInv, Inside, GrubSteps, Finally, SuccessIsComplete
<1>4. CASE FindRoot
  <2>1. /\ at = "root" /\ at' \in {"partitions", "failed"} /\ command' = command
        /\ installed' = {} /\ raised' = FALSE
    BY <1>4 DEF FindRoot, Goto, Fail
  <2> QED
    BY <2>1 DEF GrubInv, Inside, GrubSteps, Finally, SuccessIsComplete
<1>5. CASE FindPartitions
  <2>1. /\ at = "partitions" /\ command' = command /\ installed' = installed
        /\ \/ at' = "mount" /\ raised' = raised
           \/ at' = "umount_efi" /\ raised' = TRUE
    BY <1>5 DEF FindPartitions, Unwind, Goto
  <2> QED
    BY <2>1 DEF GrubInv, Inside, GrubSteps, Finally, SuccessIsComplete
<1> QED
  BY <1>1, <1>2, <1>3, <1>4, <1>5

\* From the first mount to the end of grub, or to the exception.
LEMMA WorkKeepsGrubInv ==
    ASSUME GrubInv, Mount \/ MountEfi \/ Grub \/ InstallFails
    PROVE  GrubInv'
<1>1. CASE Mount
  <2>1. /\ at = "mount" /\ command' = command
        /\ installed' = installed /\ raised' = raised
        /\ \/ at' \in {"mount", "install"}
           \/ at' = "efi" /\ command.efi
    BY <1>1 DEF Mount, Goto
  <2> QED
    BY <2>1 DEF GrubInv, Inside, GrubSteps, Finally, SuccessIsComplete
<1>2. CASE MountEfi
  BY <1>2 DEF MountEfi, Goto, GrubInv, Inside, GrubSteps, Finally, SuccessIsComplete
<1>3. CASE Grub
  <2>1. /\ at \in GrubSteps /\ command' = command /\ raised' = raised
        /\ installed' = installed \cup {at}
        /\ \/ at = "install" /\ at' = "removable" /\ command.efi
           \/ at = "install" /\ at' = "mkconfig" /\ ~command.efi
           \/ at = "removable" /\ at' = "mkconfig"
           \/ at = "mkconfig" /\ at' = "umount_efi"
    BY <1>3 DEF Grub, RunGrub, mountVars, Goto, GrubSteps
  <2>2. CASE at = "install"
    BY <2>1, <2>2 DEF GrubInv, Inside, GrubSteps, Finally, SuccessIsComplete
  <2>3. CASE at = "removable"
    BY <2>1, <2>3 DEF GrubInv, Inside, GrubSteps, Finally, SuccessIsComplete
  <2>4. CASE at = "mkconfig"
    <3>1. installed' = NeededSteps
      BY <2>1, <2>4 DEF GrubInv, NeededSteps, GrubSteps
    <3> QED
      BY <2>1, <2>4, <3>1 DEF GrubInv, Inside, GrubSteps, Finally, NeededSteps,
                              SuccessIsComplete
  <2> QED
    BY <2>1, <2>2, <2>3, <2>4 DEF GrubSteps
<1>4. CASE InstallFails
  <2>1. /\ at \in Inside /\ at' = "umount_efi" /\ command' = command
        /\ raised' = TRUE
    BY <1>4 DEF InstallFails, Unwind, Goto, Inside
  <2> QED
    BY <2>1 DEF GrubInv, Inside, GrubSteps, Finally, SuccessIsComplete
<1> QED
  BY <1>1, <1>2, <1>3, <1>4

\* The way out, and what comes between two commands.
LEMMA FinallyKeepsGrubInv ==
    ASSUME GrubInv,
           \/ UmountEfi \/ UmountEfiFails \/ Umount \/ UmountRoot \/ RootLeft
           \/ RemoveDirectory \/ LeaveInstall \/ Return \/ Reboot
    PROVE  GrubInv'
<1>1. CASE UmountEfi
  BY <1>1 DEF UmountEfi, Goto, GrubInv, Inside, GrubSteps, Finally, NeededSteps,
              SuccessIsComplete
<1>2. CASE UmountEfiFails
  BY <1>2 DEF UmountEfiFails, Goto, Fail, GrubInv, Inside, GrubSteps, Finally,
              SuccessIsComplete
<1>3. CASE Umount \/ UmountRoot \/ RootLeft \/ RemoveDirectory
  <2>1. /\ at \in {"umount", "umount_root", "rmtree"}
        /\ at' \in {"umount", "umount_root", "rmtree", "leave"}
        /\ command' = command /\ installed' = installed /\ raised' = raised
        /\ mounts' \subseteq mounts
    BY <1>3 DEF Umount, UmountRoot, RootLeft, RemoveDirectory, bootVars, mountVars, Goto
  <2> QED
    BY <2>1 DEF GrubInv, Inside, GrubSteps, Finally, NeededSteps, SuccessIsComplete
<1>4. CASE LeaveInstall
  <2>1. /\ at = "leave" /\ at' = IF raised THEN "failed" ELSE "succeeded"
        /\ command' = command /\ installed' = installed /\ mounts' = mounts
    BY <1>4 DEF LeaveInstall, bootVars, mountVars, Goto
  <2>2. CASE raised
    BY <2>1, <2>2 DEF GrubInv, Inside, GrubSteps, Finally, SuccessIsComplete
  <2>3. CASE ~raised
    <3>1. installed = NeededSteps /\ "efi" \notin mounts
      BY <2>1, <2>3 DEF GrubInv, Finally
    <3> QED
      BY <2>1, <2>3, <3>1 DEF GrubInv, Inside, GrubSteps, Finally, NeededSteps,
                              SuccessIsComplete
  <2> QED
    BY <2>2, <2>3
<1>5. CASE Return \/ Reboot
  <2>1. at' = "idle"
    BY <1>5 DEF Return, Reboot
  <2> QED
    BY <2>1 DEF GrubInv, Inside, GrubSteps, Finally, SuccessIsComplete
<1> QED
  BY <1>1, <1>2, <1>3, <1>4, <1>5

LEMMA NextKeepsGrubInv ==
    ASSUME GrubInv, [Next]_vars PROVE GrubInv'
<1>1. CASE UNCHANGED vars
  BY <1>1 DEF vars, iscsiVars, commandVars, bootVars, mountVars, GrubInv, NeededSteps,
              SuccessIsComplete
<1> QED
  BY <1>1, TargetKeepsGrubInv, PrepareKeepsGrubInv, WorkKeepsGrubInv,
     FinallyKeepsGrubInv DEF Next

\* A boot loader that is reported as installed is complete.
THEOREM SuccessIsInstalled == Spec => []SuccessIsComplete
<1>1. GrubInv => SuccessIsComplete
  BY DEF GrubInv
<1> QED
  BY <1>1, InitGrubInv, NextKeepsGrubInv, PTL DEF Spec

-------------------------------------------------------------------------------
\* What is mounted while the binds are.
Mounted == {{}, {"root"}, {"root", "/dev"}, {"root", "/dev", "/proc"},
            {"root", "/dev", "/proc", "/run"}}

\* The mount points are taken in their order.
TypeInv ==
    /\ TypeOK
    /\ at = "partitions" => mounts = {}
    /\ at = "mount" => mounts \in Mounted

LEMMA BindsAre ==
    /\ Binds \in Seq(MountPoints) /\ Len(Binds) = 4 /\ DOMAIN Binds = 1 .. 4
    /\ Binds[1] = "/dev" /\ Binds[2] = "/proc" /\ Binds[3] = "/run" /\ Binds[4] = "/sys"
    /\ MountPoints = {"root", "efi", "/dev", "/proc", "/run", "/sys"}
<1>1. Len(Binds) = 4 /\ DOMAIN Binds = 1 .. 4
      /\ Binds[1] = "/dev" /\ Binds[2] = "/proc" /\ Binds[3] = "/run" /\ Binds[4] = "/sys"
  BY DEF Binds
<1>2. MountPoints = {"root", "efi", "/dev", "/proc", "/run", "/sys"}
  BY <1>1 DEF MountPoints
<1>3. Binds \in Seq(MountPoints)
  BY <1>2 DEF Binds
<1> QED
  BY <1>1, <1>2, <1>3

LEMMA TargetSizes ==
    /\ Len(LioObjects) = 6 /\ Len(TgtCommands) = 6 /\ DOMAIN TgtCommands = 1 .. 6
BY DEF LioObjects, TgtCommands

\* How many are mounted tells which is next.
LEMMA MountedSizes ==
    /\ Cardinality({}) = 0
    /\ Cardinality({"root"}) = 1
    /\ Cardinality({"root", "/dev"}) = 2
    /\ Cardinality({"root", "/dev", "/proc"}) = 3
    /\ Cardinality({"root", "/dev", "/proc", "/run"}) = 4
<1>1. Cardinality({}) = 0 /\ IsFiniteSet({"root"}) /\ Cardinality({"root"}) = 1
  BY FS_EmptySet, FS_Singleton
<1>2. IsFiniteSet({"root", "/dev"}) /\ Cardinality({"root", "/dev"}) = 2
  <2>1. {"root", "/dev"} = {"root"} \cup {"/dev"} /\ "/dev" \notin {"root"}
    OBVIOUS
  <2> QED
    BY <1>1, <2>1, FS_AddElement
<1>3. /\ IsFiniteSet({"root", "/dev", "/proc"})
      /\ Cardinality({"root", "/dev", "/proc"}) = 3
  <2>1. /\ {"root", "/dev", "/proc"} = {"root", "/dev"} \cup {"/proc"}
        /\ "/proc" \notin {"root", "/dev"}
    OBVIOUS
  <2> QED
    BY <1>2, <2>1, FS_AddElement
<1>4. Cardinality({"root", "/dev", "/proc", "/run"}) = 4
  <2>1. /\ {"root", "/dev", "/proc", "/run"} = {"root", "/dev", "/proc"} \cup {"/run"}
        /\ "/run" \notin {"root", "/dev", "/proc"}
    OBVIOUS
  <2> QED
    BY <1>3, <2>1, FS_AddElement
<1> QED
  BY <1>1, <1>2, <1>3, <1>4

\* The binds that are left to unmount are the last of them.
Left == {SubSeq(Binds, n + 1, Len(Binds)) : n \in 0 .. Len(Binds)}

LEMMA LeftSequences ==
    /\ << >> \in Left /\ Binds \in Left
    /\ \A s \in Left \ {<< >>} : Tail(s) \in Left
<1>1. << >> \in Left
  <2>1. SubSeq(Binds, 4 + 1, 4) = << >>
    BY BindsAre, SubSeqEmpty
  <2> QED
    BY <2>1, BindsAre DEF Left
<1>2. Binds \in Left
  <2>1. SubSeq(Binds, 0 + 1, Len(Binds)) = Binds
    BY BindsAre, SubSeqFull
  <2> QED
    BY <2>1, BindsAre DEF Left
<1>3. ASSUME NEW s \in Left, s # << >> PROVE Tail(s) \in Left
  <2>1. PICK n \in 0 .. 4 : s = SubSeq(Binds, n + 1, 4)
    BY BindsAre DEF Left
  <2>2. n # 4
    <3>1. SubSeq(Binds, 4 + 1, 4) = << >>
      BY BindsAre, SubSeqEmpty
    <3> QED
      BY <1>3, <2>1, <3>1
  <2>3. Tail(s) = SubSeq(Binds, (n + 1) + 1, 4)
    BY <2>1, <2>2, BindsAre, HeadTailOfSubSeq
  <2>4. n + 1 \in 0 .. 4
    BY <2>2
  <2> QED
    BY <2>3, <2>4, BindsAre DEF Left
<1> QED
  BY <1>1, <1>2, <1>3

\* The parts of TypeOK: of the target, of the command and of the mounts.
MountTypes ==
    /\ mounts \subseteq MountPoints
    /\ unmounting \in Left
    /\ bindsFail \in BOOLEAN /\ raised \in BOOLEAN
    /\ installed \subseteq GrubSteps
    /\ deleted \subseteq MountPoints

LEMMA TypeParts ==
    /\ TypeOK <=> /\ IscsiTypeOK /\ command \in Command \cup {NoCommand} /\ at \in At
                  /\ MountTypes
    /\ TypeOK' <=> /\ IscsiTypeOK' /\ command' \in Command \cup {NoCommand} /\ at' \in At
                   /\ MountTypes'
BY DEF TypeOK, MountTypes, Left

LEMMA InitTypeInv == Init => TypeInv
<1>1. Init => IscsiTypeOK
  BY TargetSizes DEF Init, IscsiInit, IscsiTypeOK
<1>2. Init => MountTypes
  BY LeftSequences DEF Init, MountTypes
<1> QED
  BY <1>1, <1>2, TypeParts DEF Init, IscsiInit, TypeInv, At

\* The steps of start_iscsi_target.
LEMMA TargetKeepsTypes ==
    ASSUME TypeInv, Target PROVE TypeInv'
<1>0. IscsiTypeOK /\ command \in Command \cup {NoCommand} /\ at \in At /\ MountTypes
  BY TypeParts DEF TypeInv
<1>1. MountTypes' /\ UNCHANGED bootVars
  BY <1>0 DEF Target, MountTypes, bootVars, mountVars, Left, MountPoints, Binds, GrubSteps
<1>2. command' \in Command \cup {NoCommand}
  BY <1>0 DEF Target, StartTarget, NoDevice, FindTargetDevice, WipeMetadata, LioStep,
              LioFails, TgtStep, TgtFails, Command
<1>3. at' \in At \ {"partitions", "mount"}
  BY <1>0 DEF Target, StartTarget, NoDevice, FindTargetDevice, WipeMetadata, LioStep,
              LioFails, TgtStep, TgtFails, Goto, Fail, Method, At
<1>4. IscsiTypeOK'
  <2>1. CASE LioStep
    <3>1. step' \in 1 .. 6 /\ objects' \in 0 .. 6
      BY <1>0, <2>1, TargetSizes DEF LioStep, IscsiTypeOK
    <3> QED
      BY <1>0, <2>1, <3>1, TargetSizes DEF LioStep, IscsiTypeOK
  <2>2. CASE TgtStep
    <3>1. step' \in 1 .. 6
      BY <1>0, <2>2, TargetSizes DEF TgtStep, IscsiTypeOK
    <3>2. TgtCommands[step] \in {TgtCommands[i] : i \in DOMAIN TgtCommands}
      BY <1>0, TargetSizes DEF IscsiTypeOK
    <3> QED
      BY <1>0, <2>2, <3>1, <3>2, TargetSizes DEF TgtStep, IscsiTypeOK
  <2>3. CASE ~LioStep /\ ~TgtStep
    <3>1. UNCHANGED targetVars /\ (step' = step \/ step' = 1)
      BY <2>3 DEF Target, StartTarget, NoDevice, FindTargetDevice, WipeMetadata,
                  LioFails, TgtFails
    <3> QED
      BY <1>0, <3>1, TargetSizes DEF IscsiTypeOK, targetVars
  <2> QED
    BY <2>1, <2>2, <2>3
<1> QED
  BY <1>1, <1>2, <1>3, <1>4, TypeParts DEF TypeInv

\* The next mount point is one of those that are not mounted.
LEMMA MountKeepsTypes ==
    ASSUME TypeInv, Mount PROVE TypeInv'
<1> DEFINE done == Cardinality(mounts)
<1>0. IscsiTypeOK /\ command \in Command \cup {NoCommand} /\ at \in At /\ MountTypes
  BY TypeParts DEF TypeInv
<1>1. at = "mount" /\ mounts \in Mounted
  BY DEF Mount, Goto, TypeInv
<1>2. mounts' = mounts \cup {IF done = 0 THEN "root" ELSE Binds[done]}
      /\ UNCHANGED <<targetVars, command, step, unmounting, bindsFail, raised, installed,
                     deleted>>
  BY DEF Mount
<1>3. at' \in {"mount", "efi", "install"} /\ (at' = "mount" => done # 4)
  BY BindsAre DEF Mount, Goto
<1>4. mounts' \subseteq MountPoints /\ (done # 4 => mounts' \in Mounted)
  <2>1. CASE mounts = {}
    BY <1>2, <2>1, MountedSizes, BindsAre DEF Mounted
  <2>2. CASE mounts = {"root"}
    BY <1>2, <2>2, MountedSizes, BindsAre DEF Mounted
  <2>3. CASE mounts = {"root", "/dev"}
    BY <1>2, <2>3, MountedSizes, BindsAre DEF Mounted
  <2>4. CASE mounts = {"root", "/dev", "/proc"}
    BY <1>2, <2>4, MountedSizes, BindsAre DEF Mounted
  <2>5. CASE mounts = {"root", "/dev", "/proc", "/run"}
    BY <1>2, <2>5, MountedSizes, BindsAre DEF Mounted
  <2> QED
    BY <1>1, <2>1, <2>2, <2>3, <2>4, <2>5 DEF Mounted
<1>5. MountTypes'
  BY <1>0, <1>2, <1>4 DEF MountTypes, Left, MountPoints, Binds, GrubSteps
<1>6. IscsiTypeOK'
  BY <1>0, <1>2 DEF IscsiTypeOK, targetVars
<1> QED
  BY <1>0, <1>2, <1>3, <1>4, <1>5, <1>6, TypeParts DEF TypeInv, At, Mounted

LEMMA NextKeepsTypeInv ==
    ASSUME TypeInv, [Next]_vars PROVE TypeInv'
<1>0. IscsiTypeOK /\ command \in Command \cup {NoCommand} /\ at \in At /\ MountTypes
  BY TypeParts DEF TypeInv
<1>1. ASSUME MountTypes', IscsiTypeOK', command' \in Command \cup {NoCommand}, at' \in At,
             at' \notin {"partitions", "mount"}
      PROVE  TypeInv'
  BY <1>1, TypeParts DEF TypeInv
<1>2. UNCHANGED <<targetVars, step>> => IscsiTypeOK'
  BY <1>0 DEF IscsiTypeOK, targetVars
<1>3. UNCHANGED bootVars => MountTypes'
  BY <1>0 DEF MountTypes, bootVars, mountVars, Left, MountPoints, Binds, GrubSteps
<1>4. CASE Target
  BY <1>4, TargetKeepsTypes
<1>5. CASE (\E c \in BootCommand : Install(c)) \/ FindBootDevice
  <2>1. UNCHANGED <<targetVars, step, bootVars>> /\ at' \in {"device", "clean_up"}
    BY <1>5 DEF Install, FindBootDevice, Goto
  <2>2. command' \in Command \cup {NoCommand}
    BY <1>0, <1>5 DEF Install, FindBootDevice, Command
  <2> QED
    BY <1>1, <1>2, <1>3, <2>1, <2>2 DEF At
<1>6. CASE CleanUp
  <2>1. UNCHANGED <<lio, tgt, command, step, bootVars>>
        /\ at' \in {"clean_up", "root", "failed"} /\ objects' \in {objects, 0, 1}
    BY <1>6 DEF CleanUp, NothingToCleanUp, DeleteTarget, DeleteStorage, CleanUpFails, Goto,
                Fail, targetVars, commandVars
  <2>2. IscsiTypeOK'
    BY <1>0, <2>1, TargetSizes DEF IscsiTypeOK
  <2> QED
    BY <1>0, <1>1, <1>3, <2>1, <2>2 DEF At
<1>7. CASE FindRoot
  <2>1. UNCHANGED <<targetVars, command, step>> /\ at' \in {"partitions", "failed"}
        /\ mounts' = {}
    BY <1>7 DEF FindRoot, Goto, Fail
  <2>2. MountTypes'
    BY <1>0, <1>7, LeftSequences
       DEF FindRoot, MountTypes, Left, MountPoints, Binds, GrubSteps
  <2> QED
    BY <1>0, <1>2, <2>1, <2>2, TypeParts DEF TypeInv, At
<1>8. CASE FindPartitions
  <2>1. UNCHANGED <<targetVars, command, step, mounts, unmounting, bindsFail, installed,
                    deleted>>
        /\ at = "partitions" /\ at' \in {"mount", "umount_efi"} /\ raised' \in {raised, TRUE}
    BY <1>8 DEF FindPartitions, Goto, Unwind
  <2>2. MountTypes'
    BY <1>0, <2>1 DEF MountTypes, Left, MountPoints, Binds, GrubSteps
  <2>3. mounts' = {}
    BY <2>1 DEF TypeInv
  <2> QED
    BY <1>0, <1>2, <2>1, <2>2, <2>3, TypeParts DEF TypeInv, At, Mounted
<1>9. CASE Mount
  BY <1>9, MountKeepsTypes
<1>10. CASE MountEfi \/ Grub \/ InstallFails
  <2>1. UNCHANGED <<targetVars, command, step, unmounting, bindsFail, deleted>>
        /\ at' \in {"install", "removable", "mkconfig", "umount_efi"}
        /\ mounts' \in {mounts, mounts \cup {"efi"}} /\ raised' \in {raised, TRUE}
    BY <1>10 DEF MountEfi, Grub, RunGrub, InstallFails, Goto, Unwind, mountVars
  <2>2. installed' \subseteq GrubSteps
    BY <1>0, <1>10 DEF MountEfi, Grub, RunGrub, InstallFails, MountTypes, GrubSteps
  <2>3. mounts' \subseteq MountPoints
    BY <1>0, <2>1 DEF MountTypes, MountPoints
  <2>4. MountTypes'
    BY <1>0, <2>1, <2>2, <2>3 DEF MountTypes, Left, MountPoints, Binds, GrubSteps
  <2> QED
    BY <1>0, <1>1, <1>2, <2>1, <2>4 DEF At
<1>11. CASE UmountEfi \/ UmountEfiFails \/ Umount
  <2>1. UNCHANGED <<targetVars, command, step, raised, installed, deleted>>
        /\ at' \in {"umount", "umount_root", "failed"} /\ mounts' \subseteq mounts
    BY <1>11 DEF UmountEfi, UmountEfiFails, Umount, Goto, Fail, bootVars, mountVars
  <2>2. unmounting' \in Left /\ bindsFail' \in BOOLEAN
    BY <1>0, <1>11, LeftSequences
       DEF UmountEfi, UmountEfiFails, Umount, MountTypes, bootVars, mountVars
  <2>3. MountTypes'
    BY <1>0, <2>1, <2>2 DEF MountTypes, Left, MountPoints, Binds, GrubSteps
  <2> QED
    BY <1>0, <1>1, <1>2, <2>1, <2>3 DEF At
<1>12. CASE UmountRoot \/ RootLeft \/ RemoveDirectory \/ LeaveInstall
  <2>1. UNCHANGED <<targetVars, command, step, unmounting, bindsFail, raised, installed>>
        /\ at' \in {"rmtree", "leave", "failed", "succeeded"} /\ mounts' \subseteq mounts
        /\ deleted' \subseteq deleted \cup mounts
    BY <1>12 DEF UmountRoot, RootLeft, RemoveDirectory, LeaveInstall, Goto, bootVars,
                 mountVars
  <2>2. MountTypes'
    BY <1>0, <2>1 DEF MountTypes, Left, MountPoints, Binds, GrubSteps
  <2> QED
    BY <1>0, <1>1, <1>2, <2>1, <2>2 DEF At
<1>13. CASE Return
  <2>1. step' = 1 /\ UNCHANGED targetVars /\ UNCHANGED bootVars
        /\ at' = "idle" /\ command' = NoCommand
    BY <1>13 DEF Return
  <2>2. IscsiTypeOK'
    BY <1>0, <2>1, TargetSizes DEF IscsiTypeOK, targetVars
  <2> QED
    BY <1>1, <1>3, <2>1, <2>2 DEF At
<1>14. CASE Reboot
  <2>1. IscsiTypeOK'
    BY <1>0, <1>14, TargetSizes DEF Reboot, IscsiTypeOK
  <2>2. MountTypes'
    BY <1>0, <1>14, LeftSequences DEF Reboot, MountTypes
  <2> QED
    BY <1>1, <1>14, <2>1, <2>2 DEF Reboot, At
<1>15. CASE UNCHANGED vars
  <2>1. UNCHANGED <<targetVars, command, at, step, bootVars>>
    BY <1>15 DEF vars, iscsiVars, commandVars
  <2>2. UNCHANGED mounts
    BY <2>1 DEF bootVars, mountVars
  <2> QED
    BY <1>0, <1>2, <1>3, <2>1, <2>2, TypeParts DEF TypeInv, Mounted
<1> QED
  BY <1>4, <1>5, <1>6, <1>7, <1>8, <1>9, <1>10, <1>11, <1>12, <1>13, <1>14, <1>15 DEF Next

\* What the iSCSI target and install_bootloader have made is of its type, through every
\* failure: the mounts are those of the list, and the binds are unmounted in its order.
THEOREM TypeCorrect == Spec => []TypeOK
<1>1. TypeInv => TypeOK
  BY DEF TypeInv
<1> QED
  BY <1>1, InitTypeInv, NextKeepsTypeInv, PTL DEF Spec
===============================================================================
