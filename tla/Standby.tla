-------------------------------- MODULE Standby --------------------------------
(***************************************************************************)
(* The standby extension: cache_image and prepare_image bring an image to  *)
(* the install device, run_image and power_off leave the agent.  The       *)
(* executor runs one of its asynchronous commands at a time; the extension *)
(* remembers between commands which image it has cached.                   *)
(***************************************************************************)
EXTENDS Naturals

CONSTANTS
    Images,      \* the ids of the images Ironic asks for
    NoImage,     \* cached_image_id before anything is cached
    NumUrls      \* bound: how many urls an image has

ASSUME ImagesAssumption == NoImage \notin Images
ASSUME NumUrlsAssumption == NumUrls \in Nat \ {0}

Types == {"whole", "partition"}

VARIABLES
    cachedImageId,   \* self.cached_image_id
    partitionUuids,  \* self.partition_uuids: the image whose partitions they name
    file,            \* the copy of each image in the agent's file system
    device,          \* the image on the install device, and how much of it
    command,         \* the command being executed
    at,              \* where it is
    url,             \* how many urls it has tried
    wrote            \* has it opened the device for writing

extVars == <<cachedImageId, partitionUuids>>
vars == <<extVars, file, device, command, at, url, wrote>>

Content == {"none", "partial", "bad", "good"}
Device == [image : Images \cup {NoImage}, content : Content]
Blank == [image |-> NoImage, content |-> "none"]

\* stream: stream_raw_images and a raw whole disk image; force: of cache_image;
\* configdrive: was one given.
Command == [op : {"cache_image", "prepare_image"}, image : Images, type : Types,
            stream : BOOLEAN, force : BOOLEAN, configdrive : BOOLEAN]

Download == {"url", "open", "fetch", "verify"}
At == {"idle", "check", "write", "stream", "streamed", "configdrive", "message",
       "shutdown", "succeeded", "failed"} \cup Download

NoCommand == [op |-> "none"]

Init ==
    /\ cachedImageId = NoImage
    /\ partitionUuids = NoImage
    /\ file = [i \in Images |-> "none"]
    /\ device = Blank
    /\ command = NoCommand
    /\ at = "idle"
    /\ url = 0
    /\ wrote = FALSE

TypeOK ==
    /\ cachedImageId \in Images \cup {NoImage}
    /\ partitionUuids \in Images \cup {NoImage}
    /\ file \in [Images -> Content]
    /\ device \in Device
    /\ command \in Command \cup {NoCommand, [op |-> "run_image"], [op |-> "power_off"]}
    /\ at \in At
    /\ url \in 0 .. NumUrls
    /\ wrote \in BOOLEAN

Goto(from, to) == at = from /\ at' = to
Fail(from) == Goto(from, "failed")

OnDevice(i, c) == [image |-> i, content |-> c]

-------------------------------------------------------------------------------
\* The executor starts a command whose image_info passed the validator.
Start(c) ==
    /\ Goto("idle", "check")
    /\ c.stream => c.op = "prepare_image" /\ c.type = "whole"
    /\ c.force => c.op = "cache_image"
    /\ c.configdrive => c.op = "prepare_image"
    /\ command' = c
    /\ url' = 0
    /\ wrote' = FALSE
    /\ UNCHANGED <<extVars, file, device>>

\* get_os_install_device finds no device.
NoDevice ==
    /\ Fail("check")
    /\ UNCHANGED <<extVars, file, device, command, url, wrote>>

\* "don't write image again if already cached"
AlreadyCached == cachedImageId = command.image /\ ~command.force

AfterImage == IF command.op = "prepare_image" THEN "configdrive" ELSE "message"

CheckCached ==
    /\ Goto("check", IF AlreadyCached THEN AfterImage ELSE "url")
    /\ UNCHANGED <<extVars, file, device, command, url, wrote>>

-------------------------------------------------------------------------------
(* ImageDownload: the urls are tried in turn. *)

\* Mutant: one url too many is tried.
BadStatusOffByOne ==
    /\ Goto("url", IF url = NumUrls THEN "failed" ELSE "url")
    /\ url' = url + 1
    /\ UNCHANGED <<extVars, file, device, command, wrote>>

\* An answer with another status than 200 goes on to the next url; after the
\* last one ImageDownloadError is raised.
BadStatus ==
    /\ Goto("url", IF url + 1 = NumUrls THEN "failed" ELSE "url")
    /\ url' = url + 1
    /\ UNCHANGED <<extVars, file, device, command, wrote>>

\* requests.get raises (no connection, a bad certificate): this is no
\* ImageDownloadError, and the command fails.
NoAnswer ==
    /\ Fail("url")
    /\ url' = url + 1
    /\ UNCHANGED <<extVars, file, device, command, wrote>>

Answered ==
    /\ Goto("url", IF command.stream THEN "stream" ELSE "open")
    /\ url' = url + 1
    /\ UNCHANGED <<extVars, file, device, command, wrote>>

-------------------------------------------------------------------------------
(* _cache_and_write_image. *)

SetFile(c) == file' = [file EXCEPT ![command.image] = c]

\* Opening the local copy truncates it.
OpenFile ==
    /\ Goto("open", "fetch")
    /\ SetFile("partial")
    /\ UNCHANGED <<extVars, device, command, url, wrote>>

FetchFails ==
    /\ Fail("fetch")
    /\ UNCHANGED <<extVars, file, device, command, url, wrote>>

\* What arrived may differ from what Ironic described.
FetchAll ==
    /\ Goto("fetch", "verify")
    /\ \E c \in {"good", "bad"} : SetFile(c)
    /\ UNCHANGED <<extVars, device, command, url, wrote>>

\* _verify_image compares the checksum, else ImageChecksumError.
VerifyFile ==
    /\ Goto("verify", IF file[command.image] = "good" THEN "write" ELSE "failed")
    /\ UNCHANGED <<extVars, file, device, command, url, wrote>>

\* The image does not fit its root partition: nothing is written.
DoesNotFit ==
    /\ Fail("write")
    /\ command.type = "partition"
    /\ UNCHANGED <<extVars, file, device, command, url, wrote>>

\* Mutant: the image counts as cached although the write failed.
WriteFailsCached ==
    /\ Fail("write")
    /\ device' = OnDevice(command.image, "partial")
    /\ wrote' = TRUE
    /\ cachedImageId' = command.image
    /\ UNCHANGED <<partitionUuids, file, command, url>>

WriteFails ==
    /\ Fail("write")
    /\ device' = OnDevice(command.image, "partial")
    /\ wrote' = TRUE
    /\ UNCHANGED <<extVars, file, command, url>>

\* Mutant: a whole disk image leaves the uuids of the image before it.
WriteImageKeepsUuids ==
    /\ Goto("write", AfterImage)
    /\ device' = OnDevice(command.image, file[command.image])
    /\ wrote' = TRUE
    /\ partitionUuids' = IF command.type = "partition" THEN command.image
                                                      ELSE partitionUuids
    /\ cachedImageId' = command.image
    /\ UNCHANGED <<file, command, url>>

\* The uuids and the id are remembered only after the whole image is written.
WriteImage ==
    /\ Goto("write", AfterImage)
    /\ device' = OnDevice(command.image, file[command.image])
    /\ wrote' = TRUE
    /\ partitionUuids' = IF command.type = "partition" THEN command.image ELSE NoImage
    /\ cachedImageId' = command.image
    /\ UNCHANGED <<file, command, url>>

-------------------------------------------------------------------------------
(* _stream_raw_image_onto_device: the device is written as chunks arrive. *)

StreamFails ==
    /\ Fail("stream")
    /\ device' = OnDevice(command.image, "partial")
    /\ wrote' = TRUE
    /\ UNCHANGED <<extVars, file, command, url>>

StreamAll ==
    /\ Goto("stream", "streamed")
    /\ \E c \in {"good", "bad"} : device' = OnDevice(command.image, c)
    /\ wrote' = TRUE
    /\ UNCHANGED <<extVars, file, command, url>>

\* Mutant: the checksum of a streamed image is not compared.
VerifyStreamNot ==
    /\ Goto("streamed", AfterImage)
    /\ UNCHANGED <<extVars, file, device, command, url, wrote>>

\* The checksum is compared after the device is written, and cached_image_id
\* is left as it was.
VerifyStream ==
    /\ Goto("streamed", IF device.content = "good" THEN AfterImage ELSE "failed")
    /\ UNCHANGED <<extVars, file, device, command, url, wrote>>

-------------------------------------------------------------------------------
(* The end of a command. *)

\* A config drive partition is added for whole disk images, if one is given.
AddConfigDrive ==
    /\ Goto("configdrive", "message")
    /\ UNCHANGED <<extVars, file, device, command, url, wrote>>

ConfigDriveFails ==
    /\ Fail("configdrive")
    /\ command.type = "whole" /\ command.configdrive
    /\ UNCHANGED <<extVars, file, device, command, url, wrote>>

\* _message_format; reading the disk identifier may fail for a whole disk.
Report ==
    /\ Goto("message", "succeeded")
    /\ UNCHANGED <<extVars, file, device, command, url, wrote>>

ReportFails ==
    /\ Fail("message")
    /\ command.type = "whole"
    /\ UNCHANGED <<extVars, file, device, command, url, wrote>>

\* The result is recorded and the executor is free again.
Finish ==
    /\ at \in {"succeeded", "failed"}
    /\ at' = "idle"
    /\ command' = NoCommand
    /\ url' = 0
    /\ wrote' = FALSE
    /\ UNCHANGED <<extVars, file, device>>

-------------------------------------------------------------------------------
(* run_image and power_off: _run_shutdown_command. *)

StartShutdown(op) ==
    /\ Goto("idle", "shutdown")
    /\ command' = [op |-> op]
    /\ UNCHANGED <<extVars, file, device, url, wrote>>

\* A failing sync is only logged; the command succeeds, is ignored and replaced by a
\* write to sysrq-trigger, or fails.  The machine goes down some time after (Restart).
Shutdown ==
    /\ \E to \in {"succeeded", "failed"} : Goto("shutdown", to)
    /\ UNCHANGED <<extVars, file, device, command, url, wrote>>

-------------------------------------------------------------------------------
(* The rest of the world. *)

\* A cleaning command of the agent erases the device.
EraseDevice ==
    /\ at = "idle"
    /\ device' = Blank
    /\ UNCHANGED <<extVars, file, command, at, url, wrote>>

\* The agent process, or the machine with its ramdisk, dies and is started again
\* at any moment: attributes and the running command are gone, and the copies of
\* the images with the ramdisk; the device stays as it was left.
Restart ==
    /\ cachedImageId' = NoImage
    /\ partitionUuids' = NoImage
    /\ at' = "idle"
    /\ command' = NoCommand
    /\ url' = 0
    /\ wrote' = FALSE
    /\ IF at \in {"write", "stream"}
       THEN device' \in {device, OnDevice(command.image, "partial")}
       ELSE device' = device
    /\ file' \in {file, [i \in Images |-> "none"]}

Progress ==
    \/ NoDevice
    \/ CheckCached
    \/ BadStatus
    \/ NoAnswer
    \/ Answered
    \/ OpenFile
    \/ FetchFails
    \/ FetchAll
    \/ VerifyFile
    \/ DoesNotFit
    \/ WriteFails
    \/ WriteImage
    \/ StreamFails
    \/ StreamAll
    \/ VerifyStream
    \/ AddConfigDrive
    \/ ConfigDriveFails
    \/ Report
    \/ ReportFails
    \/ Finish
    \/ Shutdown

Next ==
    \/ \E c \in Command : Start(c)
    \/ \E op \in {"run_image", "power_off"} : StartShutdown(op)
    \/ Progress
    \/ EraseDevice
    \/ Restart

Spec == Init /\ [][Next]_vars

-------------------------------------------------------------------------------
\* A command that brings an image to the device and succeeds has left that
\* image there whole and verified, whichever way it went and whatever was on
\* the device before: no failed or unverified write is reported as a success.
NoFalseSuccess ==
    at = "succeeded" /\ wrote => device = OnDevice(command.image, "good")

\* The partition uuids kept are those of the image that is believed cached, so
\* that a command that finds its partition image cached reports the right ones.
UuidsOfCachedImage == partitionUuids \in {NoImage, cachedImageId}

\* An image becomes the cached one only in the step that completes it on the
\* device; a restart forgets it.
CachedWhenWritten ==
    [][cachedImageId' # cachedImageId =>
          \/ device' = OnDevice(cachedImageId', "good")
          \/ cachedImageId' = NoImage]_vars

\* The command that succeeds has made the "local machine completely ready to
\* reboot to the image specified by image_info" (prepare_image).  A device that
\* was erased since is left aside: only another image, or part of one, counts.
PreparedIsOnDevice ==
    at = "succeeded" /\ command.op = "prepare_image" /\ device # Blank =>
        device = OnDevice(command.image, "good")
===============================================================================
