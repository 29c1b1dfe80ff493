----------------------------- MODULE StandbyProofs -----------------------------
(***************************************************************************)
(* The safety of the standby extension, for any images and number of urls. *)
(***************************************************************************)
EXTENDS Standby, TLAPS

\* Where a command is that has not opened the device for writing yet.
BeforeWrite == {"idle", "check", "write", "stream", "shutdown"} \cup Download

\* A url is tried only while there is one left.
UrlInv ==
    /\ at = "check" => url = 0
    /\ at = "url" => url < NumUrls

\* Only a command about an image goes the way of one, and writes.
CommandInv ==
    /\ at \in Download \cup {"write", "stream", "streamed", "check"} => command \in Command
    /\ wrote => command \in Command
    /\ at \in BeforeWrite => ~wrote
    /\ at = "streamed" => wrote

\* The copy that is written was verified.
FileInv == at = "write" => file[command.image] = "good"

\* What the command has written is on the device, and verified unless it still
\* has to be, or has failed.
DeviceInv ==
    /\ at = "streamed" => device.image = command.image
    /\ wrote /\ at \in {"configdrive", "message", "succeeded"} =>
           device = OnDevice(command.image, "good")

IInv == TypeOK /\ UrlInv /\ CommandInv /\ FileInv /\ DeviceInv
               /\ UuidsOfCachedImage

-------------------------------------------------------------------------------
LEMMA NoUrlTried == 0 \in 0 .. NumUrls
BY NumUrlsAssumption

LEMMA InitIInv == Init => IInv
<1> SUFFICES ASSUME Init PROVE IInv
    OBVIOUS
<1>1. TypeOK
    <2>1. device \in Device
        BY DEF Init, Blank, Device, Content
    <2>2. file \in [Images -> Content]
        BY DEF Init, Content
    <2>3. at \in At /\ wrote \in BOOLEAN
        BY DEF Init, At
    <2>4. url \in 0 .. NumUrls
        BY NoUrlTried DEF Init
    <2>5. QED
        BY <2>1, <2>2, <2>3, <2>4 DEF Init, TypeOK
<1>2. QED
    BY <1>1 DEF Init, IInv, UrlInv, CommandInv, DeviceInv, UuidsOfCachedImage,
                FileInv, BeforeWrite, Download

-------------------------------------------------------------------------------
(* The steps that only move the command on. *)

QuietStep ==
    \/ NoDevice
    \/ CheckCached
    \/ FetchFails
    \/ VerifyFile
    \/ DoesNotFit
    \/ VerifyStream
    \/ AddConfigDrive
    \/ ConfigDriveFails
    \/ Report
    \/ ReportFails
    \/ Shutdown

LEMMA QuietKeepsIInv ==
    ASSUME IInv, QuietStep
    PROVE  IInv'
<1> USE DEF Goto, Fail, AfterImage
<1>1. UNCHANGED <<cachedImageId, partitionUuids, file, device, command, url, wrote>>
    BY DEF QuietStep, extVars, NoDevice, CheckCached, FetchFails, VerifyFile,
           DoesNotFit, VerifyStream, AddConfigDrive, ConfigDriveFails, Report,
           ReportFails, Shutdown
<1>2. at' \in At
    BY DEF QuietStep, NoDevice, CheckCached, FetchFails, VerifyFile, DoesNotFit,
           VerifyStream, AddConfigDrive, ConfigDriveFails, Report, ReportFails,
           Shutdown, At, Download
<1>3. TypeOK' /\ UuidsOfCachedImage'
    BY <1>1, <1>2 DEF IInv, TypeOK, UuidsOfCachedImage
<1>4. UrlInv'
    BY <1>1, NumUrlsAssumption
       DEF IInv, UrlInv, QuietStep, NoDevice, CheckCached, FetchFails, VerifyFile,
           DoesNotFit, VerifyStream, AddConfigDrive, ConfigDriveFails, Report,
           ReportFails, Shutdown
<1>5. CommandInv'
    BY <1>1
       DEF IInv, CommandInv, BeforeWrite, Download, QuietStep, NoDevice,
           CheckCached, FetchFails, VerifyFile, DoesNotFit, VerifyStream,
           AddConfigDrive, ConfigDriveFails, Report, ReportFails, Shutdown
<1>6. FileInv'
    BY <1>1
       DEF IInv, FileInv, QuietStep, NoDevice, CheckCached,
           FetchFails, VerifyFile, DoesNotFit, VerifyStream, AddConfigDrive,
           ConfigDriveFails, Report, ReportFails, Shutdown
<1>7. DeviceInv'
    <2>1. CASE VerifyStream
        BY <2>1, <1>1 DEF IInv, TypeOK, Device, DeviceInv, VerifyStream, OnDevice
    <2>2. CASE ~VerifyStream
        BY <2>2, <1>1
           DEF IInv, CommandInv, BeforeWrite, Download, DeviceInv,
               QuietStep, NoDevice, CheckCached, FetchFails, VerifyFile, DoesNotFit,
               AddConfigDrive, ConfigDriveFails, Report, ReportFails, Shutdown
    <2>3. QED
        BY <2>1, <2>2
<1>8. QED
    BY <1>3, <1>4, <1>5, <1>6, <1>7 DEF IInv

-------------------------------------------------------------------------------
(* The steps of a download and of a write, one lemma each group. *)

LEMMA UrlKeepsIInv ==
    ASSUME IInv, BadStatus \/ NoAnswer \/ Answered
    PROVE  IInv'
<1> USE DEF BadStatus, NoAnswer, Answered, Goto, Fail
<1>1. UNCHANGED <<cachedImageId, partitionUuids, file, device, command, wrote>>
    BY DEF extVars
<1>2. /\ at = "url" /\ at' \in {"url", "failed", "stream", "open"}
      /\ url' = url + 1 /\ (at' = "url" => url + 1 # NumUrls)
    OBVIOUS
<1>3. UrlInv' /\ url' \in 0 .. NumUrls
    BY <1>2, NumUrlsAssumption DEF IInv, TypeOK, UrlInv
<1>4. TypeOK'
    BY <1>1, <1>2, <1>3 DEF IInv, TypeOK, At, Download
<1>5. QED
    BY <1>1, <1>2, <1>3, <1>4
       DEF IInv, CommandInv, FileInv, DeviceInv, UuidsOfCachedImage,
           BeforeWrite, Download

LEMMA FileKeepsIInv ==
    ASSUME IInv, OpenFile \/ FetchAll
    PROVE  IInv'
<1> USE DEF OpenFile, FetchAll, Goto, SetFile
<1>1. UNCHANGED <<cachedImageId, partitionUuids, device, command, url, wrote>>
    BY DEF extVars
<1>2. at \in {"open", "fetch"} /\ at' \in {"fetch", "verify"}
    OBVIOUS
<1>3. file' \in [Images -> Content]
    BY DEF IInv, TypeOK, Content
<1>4. TypeOK'
    BY <1>1, <1>2, <1>3 DEF IInv, TypeOK, At, Download
<1>5. QED
    BY <1>1, <1>2, <1>4
       DEF IInv, UrlInv, CommandInv, FileInv, DeviceInv,
           UuidsOfCachedImage, BeforeWrite, Download

LEMMA CommandImage ==
    ASSUME command \in Command
    PROVE  command.image \in Images
BY DEF Command

LEMMA WriteKeepsIInv ==
    ASSUME IInv, WriteFails \/ WriteImage
    PROVE  IInv'
<1> USE DEF WriteFails, WriteImage, Goto, Fail, AfterImage
<1>1. UNCHANGED <<file, command, url>> /\ wrote' = TRUE
    OBVIOUS
<1>2. at = "write" /\ at' \in {"failed", "configdrive", "message"}
    OBVIOUS
<1>3. command \in Command /\ command.image \in Images
    BY <1>2, CommandImage DEF IInv, CommandInv
<1>4. file[command.image] = "good"
    BY <1>2 DEF IInv, FileInv
<1>5. device' \in Device
    BY <1>3, <1>4 DEF OnDevice, Device, Content
<1>6. /\ cachedImageId' \in Images \cup {NoImage}
      /\ partitionUuids' \in Images \cup {NoImage}
      /\ UuidsOfCachedImage'
    BY <1>3 DEF IInv, TypeOK, UuidsOfCachedImage, extVars
<1>7. TypeOK'
    BY <1>1, <1>2, <1>5, <1>6 DEF IInv, TypeOK, At
<1>8. DeviceInv'
    BY <1>1, <1>2, <1>4 DEF DeviceInv
<1>9. QED
    BY <1>1, <1>2, <1>3, <1>6, <1>7, <1>8
       DEF IInv, UrlInv, CommandInv, FileInv, BeforeWrite, Download

LEMMA StreamKeepsIInv ==
    ASSUME IInv, StreamFails \/ StreamAll
    PROVE  IInv'
<1> USE DEF StreamFails, StreamAll, Goto, Fail
<1>1. UNCHANGED <<cachedImageId, partitionUuids, file, command, url>> /\ wrote' = TRUE
    BY DEF extVars
<1>2. at = "stream" /\ at' \in {"failed", "streamed"}
    OBVIOUS
<1>3. command \in Command /\ command.image \in Images
    BY <1>2, CommandImage DEF IInv, CommandInv
<1>4. device' \in Device /\ device'.image = command.image
    BY <1>3 DEF OnDevice, Device, Content
<1>5. TypeOK'
    BY <1>1, <1>2, <1>4 DEF IInv, TypeOK, At
<1>6. QED
    BY <1>1, <1>2, <1>3, <1>4, <1>5
       DEF IInv, UrlInv, CommandInv, FileInv, DeviceInv,
           UuidsOfCachedImage, BeforeWrite, Download

-------------------------------------------------------------------------------
(* Commands start and end; the device and the process are not theirs alone. *)

LEMMA CommandsKeepIInv ==
    ASSUME IInv,
           \/ \E c \in Command : Start(c)
           \/ \E op \in {"run_image", "power_off"} : StartShutdown(op)
           \/ Finish
    PROVE  IInv'
<1>1. UNCHANGED <<cachedImageId, partitionUuids, file, device>>
    BY DEF Start, StartShutdown, Finish, extVars
<1>2. \/ at' = "check" /\ command' \in Command /\ url' = 0 /\ wrote' = FALSE
      \/ /\ at = "idle" /\ at' = "shutdown" /\ UNCHANGED <<url, wrote>>
         /\ command' \in {[op |-> "run_image"], [op |-> "power_off"]}
      \/ at' = "idle" /\ command' = NoCommand /\ url' = 0 /\ wrote' = FALSE
    BY DEF Start, StartShutdown, Finish, Goto
<1>3. at' \in At /\ url' \in 0 .. NumUrls /\ wrote' \in BOOLEAN
    BY <1>2, NoUrlTried DEF IInv, TypeOK, At
<1>4. TypeOK'
    BY <1>1, <1>2, <1>3 DEF IInv, TypeOK
<1>5. QED
    BY <1>1, <1>2, <1>4
       DEF IInv, UrlInv, CommandInv, FileInv, DeviceInv,
           UuidsOfCachedImage, BeforeWrite, Download

LEMMA WorldKeepsIInv ==
    ASSUME IInv, EraseDevice \/ Restart
    PROVE  IInv'
<1>1. CASE EraseDevice
    <2>1. Blank \in Device
        BY DEF Blank, Device, Content
    <2>2. /\ device' = Blank /\ at = "idle"
          /\ UNCHANGED <<cachedImageId, partitionUuids, file, command, at, url, wrote>>
        BY <1>1 DEF EraseDevice, extVars
    <2>3. QED
        BY <2>1, <2>2
           DEF IInv, TypeOK, UrlInv, CommandInv, FileInv, DeviceInv,
               UuidsOfCachedImage, BeforeWrite
<1>2. CASE Restart
    <2>1. device' \in Device
        <3>1. CASE at \in {"write", "stream"}
            <4>1. OnDevice(command.image, "partial") \in Device
                BY <3>1, CommandImage DEF IInv, CommandInv, OnDevice, Device, Content
            <4>2. QED
                BY <4>1, <1>2 DEF Restart, IInv, TypeOK
        <3>2. CASE at \notin {"write", "stream"}
            BY <3>2, <1>2 DEF Restart, IInv, TypeOK
        <3>3. QED
            BY <3>1, <3>2
    <2>2. file' \in [Images -> Content]
        BY <1>2 DEF Restart, IInv, TypeOK, Content
    <2>3. /\ cachedImageId' = NoImage /\ partitionUuids' = NoImage /\ at' = "idle"
          /\ command' = NoCommand /\ url' = 0 /\ wrote' = FALSE
        BY <1>2 DEF Restart
    <2>4. url' \in 0 .. NumUrls /\ at' \in At
        BY <2>3, NoUrlTried DEF At
    <2>5. TypeOK'
        BY <2>1, <2>2, <2>3, <2>4 DEF TypeOK
    <2>6. QED
        BY <2>3, <2>5
           DEF IInv, UrlInv, CommandInv, FileInv,
               DeviceInv, UuidsOfCachedImage, BeforeWrite, Download
<1>3. QED
    BY <1>1, <1>2

-------------------------------------------------------------------------------
LEMMA StepIInv == IInv /\ [Next]_vars => IInv'
<1> SUFFICES ASSUME IInv, [Next]_vars
             PROVE  IInv'
    OBVIOUS
<1>1. CASE Progress
    BY <1>1, QuietKeepsIInv, UrlKeepsIInv, FileKeepsIInv, WriteKeepsIInv,
       StreamKeepsIInv, CommandsKeepIInv
       DEF Progress, QuietStep
<1>2. CASE Next /\ ~Progress
    BY <1>2, CommandsKeepIInv, WorldKeepsIInv DEF Next
<1>3. CASE UNCHANGED vars
    BY <1>3 DEF vars, extVars, IInv, TypeOK, UrlInv, CommandInv,
                FileInv, DeviceInv, UuidsOfCachedImage
<1>4. QED
    BY <1>1, <1>2, <1>3

\* The inductive invariant holds in every state of the extension.
THEOREM Invariance == Spec => []IInv
BY InitIInv, StepIInv, PTL DEF Spec

\* The types of the extension's state, of the device and of the command.
THEOREM TypeCorrect == Spec => []TypeOK
<1>1. IInv => TypeOK
    BY DEF IInv
<1>2. QED
    BY <1>1, Invariance, PTL

\* cache_image and prepare_image never report an incomplete or unverified write
\* as a success, whatever fails and however many urls there are.
THEOREM SuccessIsVerified == Spec => []NoFalseSuccess
<1>1. IInv => NoFalseSuccess
    BY DEF IInv, DeviceInv, NoFalseSuccess
<1>2. QED
    BY <1>1, Invariance, PTL

\* The partition uuids a command reports are those of the cached image.
THEOREM UuidsMatch == Spec => []UuidsOfCachedImage
<1>1. IInv => UuidsOfCachedImage
    BY DEF IInv
<1>2. QED
    BY <1>1, Invariance, PTL

-------------------------------------------------------------------------------
CachedStep ==
    cachedImageId' # cachedImageId =>
        \/ device' = OnDevice(cachedImageId', "good")
        \/ cachedImageId' = NoImage

LEMMA StepCached == IInv /\ [Next]_vars => CachedStep
<1> SUFFICES ASSUME IInv, [Next]_vars, cachedImageId' # cachedImageId
             PROVE  \/ device' = OnDevice(cachedImageId', "good")
                    \/ cachedImageId' = NoImage
    BY DEF CachedStep
<1>1. CASE WriteImage
    BY <1>1 DEF IInv, FileInv, WriteImage, Goto
<1>2. CASE Restart
    BY <1>2 DEF Restart
<1>3. CASE UNCHANGED cachedImageId
    BY <1>3
<1>4. QED
    BY <1>1, <1>2, <1>3
       DEF Next, Progress, vars, extVars, NoDevice, CheckCached, BadStatus,
           NoAnswer, Answered, OpenFile, FetchFails, FetchAll, VerifyFile,
           DoesNotFit, WriteFails, StreamFails, StreamAll, VerifyStream,
           AddConfigDrive, ConfigDriveFails, Report, ReportFails, Finish, Shutdown,
           Start, StartShutdown, EraseDevice

\* _cache_and_write_image sets cached_image_id only when the whole verified
\* image is on the device.
THEOREM CachedIsWritten == Spec => CachedWhenWritten
BY Invariance, StepCached, PTL DEF Spec, CachedWhenWritten, CachedStep
===============================================================================
