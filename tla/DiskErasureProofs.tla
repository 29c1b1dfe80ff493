--------------------------- MODULE DiskErasureProofs ---------------------------
(***************************************************************************)
(* What a successful clean step says of the disks, for any disks and any   *)
(* number of failures, crashes and power cycles.                           *)
(***************************************************************************)
EXTENDS DiskErasure, TLAPS

\* Where erase_block_device is, and where one disk is being worked on.
Working == {"erase", "security", "unlock", "set_pass", "secure_erase", "unlock_after",
            "verify", "shred"}
OneDisk == Working \cup {"metadata"}

Types ==
    /\ content \in [Disks -> Content]
    /\ password \in [Disks -> Passwords]
    /\ locked \in [Disks -> BOOLEAN]
    /\ settings \in Settings
    /\ op \in {"erase_devices_metadata", "erase_devices"}
    /\ at \in At
    /\ at \in OneDisk => current \in Disks

\* The security state of the disks: only a disk with a password is locked; a password
\* of a disk that is not locked is one that the agent set or found; and the agent does
\* neither to a disk that smartctl does not reach.
SecurityInv ==
    /\ \A d \in Disks : locked[d] => Enabled(d)
    /\ \A d \in Disks : ~locked[d] => password[d] \in {"none", NullMeans, ""}
    /\ \A d \in Disks : ata[d] # "supported" /\ Enabled(d) => locked[d]
    /\ at \in {"unlock", "set_pass", "secure_erase", "unlock_after"} =>
           ata[current] = "supported"
    /\ at = "secure_erase" => Enabled(current)

\* What a step has made of a disk it is done with.
Good(d) ==
    IF op = "erase_devices"
      THEN /\ content[d] = "erased"
           /\ locked[d] = FALSE
           /\ settings.secureErase /\ ~settings.fallback /\ d \notin unasked => ~Enabled(d)
      ELSE content[d] \in {"erased", "no_metadata"}

Done(d) == d \notin todo /\ d \notin VirtualMedia /\ d \notin errors

\* The disks that are off the list and without an error are good, but for the one
\* that is being worked on.
ProgressInv ==
    /\ at = "metadata" => op = "erase_devices_metadata"
    /\ at \in Working => op = "erase_devices"
    /\ at \in {"list", "next", "succeeded"} \cup Working /\ op = "erase_devices" =>
           errors = {}
    /\ at = "succeeded" => errors = {} /\ todo = {}
    /\ at \in {"next", "succeeded"} => \A d \in Disks : Done(d) => Good(d)
    /\ at \in OneDisk => \A d \in Disks \ {current} : Done(d) => Good(d)
    /\ at = "verify" /\ ~Enabled(current) => content[current] = "erased"
    /\ at = "shred" /\ settings.secureErase /\ ~settings.fallback =>
           ~Enabled(current) \/ current \in unasked \/ locked[current]
    /\ CleanedIsUsable

\* What is left of the step changes neither the disks nor the list.
Same == UNCHANGED <<content, password, locked, settings, ata, unasked, op, todo, current,
                    errors>>

Inv == Types /\ SecurityInv /\ ProgressInv

-------------------------------------------------------------------------------
LEMMA InitInv == Init => Inv
<1>1. ASSUME Init PROVE Types
  BY <1>1 DEF Init, Types, Content, Passwords, FirstStep, At, OneDisk, Working
<1>2. ASSUME Init PROVE SecurityInv
  BY <1>2 DEF Init, SecurityInv, Enabled
<1>3. ASSUME Init PROVE ProgressInv
  BY <1>3 DEF Init, ProgressInv, OneDisk, Working, CleanedIsUsable
<1> QED
  BY <1>1, <1>2, <1>3 DEF Inv

\* A step that changes only where the work on the disk is, and does not finish it.
LEMMA WorkGoesOn ==
    ASSUME Inv, Same, at \in Working, at' \in Working \cup {"failed"},
           at' \in {"unlock", "set_pass", "secure_erase", "unlock_after"} =>
               ata[current] = "supported",
           at' = "secure_erase" => Enabled(current),
           at' = "verify" => Enabled(current),
           at' = "shred" => \/ ~(settings.secureErase /\ ~settings.fallback)
                            \/ ~Enabled(current) \/ locked[current]
    PROVE  Inv'
<1>1. Types'
  BY DEF Inv, Types, Same, Working, OneDisk, At
<1>2. SecurityInv'
  BY DEF Inv, SecurityInv, Same, Working, Enabled
<1>3. \A d : Done(d)' = Done(d) /\ Good(d)' = Good(d) /\ Enabled(d)' = Enabled(d)
  BY DEF Same, Done, Good, Enabled
<1>4. ProgressInv'
  BY <1>3 DEF Inv, ProgressInv, Same, Working, OneDisk, CleanedIsUsable
<1> QED
  BY <1>1, <1>2, <1>4 DEF Inv

-------------------------------------------------------------------------------
\* The loops over the disks keep what is known of those that are done.
LEMMA LoopsKeepInv ==
    ASSUME Inv,
           \/ Begin \/ ListDisks \/ ListFails \/ (\E d \in Disks : NextDisk(d)) \/ LastDisk
           \/ SkipVirtualMedia
    PROVE  Inv'
<1>1. CASE Begin
  BY <1>1 DEF Begin, Goto, diskVars, Inv, Types, SecurityInv, ProgressInv, Working, OneDisk,
              At, Enabled, CleanedIsUsable
<1>2. CASE ListDisks \/ ListFails
  <2>1. /\ UNCHANGED <<content, password, locked, settings, ata, unasked, op, errors>>
        /\ at = "list" /\ ((at' = "next" /\ todo' = Disks) \/ at' = "failed")
    BY <1>2 DEF ListDisks, ListFails, Goto, diskVars
  <2> QED
    BY <2>1 DEF Inv, Types, SecurityInv, ProgressInv, Working, OneDisk, At, Enabled, Done,
                CleanedIsUsable
<1>3. CASE \E d \in Disks : NextDisk(d)
  <2>1. PICK d \in Disks : NextDisk(d)
    BY <1>3
  <2>2. /\ UNCHANGED <<content, password, locked, settings, ata, unasked, op, errors>>
        /\ at = "next" /\ current' = d /\ todo' = todo \ {d}
        /\ at' = IF op = "erase_devices" THEN "erase" ELSE "metadata"
    BY <2>1 DEF NextDisk, Goto, diskVars
  <2>3. Types' /\ SecurityInv'
    BY <2>2 DEF Inv, Types, SecurityInv, Working, OneDisk, At, Enabled
  <2>4. \A e \in Disks : Good(e)' = Good(e) /\ (Done(e)' /\ e # d => Done(e))
    BY <2>2 DEF Good, Done, Enabled
  <2>5. ProgressInv'
    BY <2>2, <2>4 DEF Inv, Types, ProgressInv, Working, OneDisk, CleanedIsUsable
  <2> QED
    BY <2>3, <2>5 DEF Inv
<1>4. CASE LastDisk
  <2>1. /\ UNCHANGED <<content, password, locked, settings, ata, unasked, op, todo, errors>>
        /\ at = "next" /\ todo = {}
        /\ at' = IF errors = {} THEN "succeeded" ELSE "failed"
    BY <1>4 DEF LastDisk, Goto, diskVars
  <2>2. Types' /\ SecurityInv'
    BY <2>1 DEF Inv, Types, SecurityInv, Working, OneDisk, At, Enabled
  <2>3. \A e \in Disks : Good(e)' = Good(e) /\ Done(e)' = Done(e)
    BY <2>1 DEF Good, Done, Enabled
  <2>4. ProgressInv'
    BY <2>1, <2>3 DEF Inv, ProgressInv, Working, OneDisk, CleanedIsUsable
  <2> QED
    BY <2>2, <2>4 DEF Inv
<1>5. CASE SkipVirtualMedia
  <2>1. /\ Same /\ at \in {"metadata", "erase"} /\ at' = "next"
        /\ current \in VirtualMedia
    BY <1>5 DEF SkipVirtualMedia, diskVars, Same
  <2>2. Types' /\ SecurityInv'
    BY <2>1 DEF Same, Inv, Types, SecurityInv, Working, OneDisk, At, Enabled
  <2>3. \A e \in Disks : Good(e)' = Good(e) /\ Done(e)' = Done(e)
    BY <2>1 DEF Same, Good, Done, Enabled
  <2>4. ~Done(current)
    BY <2>1 DEF Done
  <2>5. ProgressInv'
    BY <2>1, <2>3, <2>4 DEF Same, Inv, ProgressInv, Working, OneDisk, CleanedIsUsable
  <2> QED
    BY <2>2, <2>5 DEF Inv
<1> QED
  BY <1>1, <1>2, <1>3, <1>4, <1>5

\* A disk without its metadata is good, and one that kept them is an error.
LEMMA MetadataKeepsInv ==
    ASSUME Inv, DestroyMetadata \/ DestroyMetadataFails \/ MetadataRaises PROVE Inv'
<1>6. CASE MetadataRaises
  <2>1. Same /\ at = "metadata" /\ at' = "failed"
    BY <1>6 DEF MetadataRaises, Goto, diskVars, Same
  <2> QED
    BY <2>1 DEF Same, Inv, Types, SecurityInv, ProgressInv, Working, OneDisk, At, Enabled,
                CleanedIsUsable
<1> SUFFICES ASSUME ~MetadataRaises PROVE Inv'
  BY <1>6
<1>0. /\ at = "metadata" /\ at' = "next" /\ op = "erase_devices_metadata"
      /\ current \in Disks
      /\ UNCHANGED <<password, locked, settings, ata, unasked, op, todo, current>>
  BY DEF DestroyMetadata, DestroyMetadataFails, Goto, diskVars, Inv, Types, ProgressInv,
         OneDisk
<1>1. content' \in [Disks -> Content] /\ \A d \in Disks \ {current} : content'[d] = content[d]
  BY <1>0 DEF DestroyMetadata, DestroyMetadataFails, diskVars, Set, Inv, Types, Content
<1>2. Types' /\ SecurityInv'
  BY <1>0, <1>1 DEF Inv, Types, SecurityInv, OneDisk, Working, At, Enabled
<1>3. \A d \in Disks \ {current} : Good(d)' = Good(d) /\ (Done(d)' => Done(d))
  BY <1>0, <1>1 DEF Good, Done, DestroyMetadata, DestroyMetadataFails
<1>4. CASE DestroyMetadata
  <2>1. content'[current] \in {"erased", "no_metadata"}
    BY <1>0, <1>4 DEF DestroyMetadata, Set, Inv, Types
  <2> QED
    BY <1>0, <1>2, <1>3, <2>1 DEF Inv, ProgressInv, Good, Done, Working, OneDisk,
                                  CleanedIsUsable
<1>5. CASE DestroyMetadataFails
  <2>1. current \in errors'
    BY <1>5 DEF DestroyMetadataFails
  <2> QED
    BY <1>0, <1>2, <1>3, <2>1 DEF Inv, ProgressInv, Done, Working, OneDisk, CleanedIsUsable
<1> QED
  BY <1>4, <1>5

-------------------------------------------------------------------------------
\* The ways through erase_block_device that leave the disk as it is.
LEMMA ChoicesKeepInv ==
    ASSUME Inv,
           \/ ChooseMethod \/ CheckSecurity \/ Unlocked \/ SetPasswordFails
           \/ SecureEraseIgnored \/ UnlockedAfterFailure \/ HdparmRaises
           \/ (Verify /\ Enabled(current))
    PROVE  Inv'
<1>1. Same /\ at \in Working
  BY DEF ChooseMethod, CheckSecurity, Unlocked, SetPasswordFails, SecureEraseIgnored,
         UnlockedAfterFailure, HdparmRaises, Verify, Goto, diskVars, Same, Working
<1>2. AtaFailed \in {"shred", "failed"} /\ (AtaFailed = "shred" => settings.fallback)
  BY DEF AtaFailed
<1>3. current \in Disks
  BY <1>1 DEF Inv, Types, OneDisk
<1>4. CASE ChooseMethod
  BY <1>1, <1>4, WorkGoesOn DEF ChooseMethod, Goto, Working
<1>5. CASE CheckSecurity
  <2>1. ata[current] # "supported" => ~Enabled(current) \/ locked[current]
    BY <1>3 DEF Inv, SecurityInv
  <2>2. \/ at' = "shred" /\ (settings.fallback \/ ~Enabled(current) \/ locked[current])
        \/ at' = "failed"
        \/ at' = "unlock" /\ ata[current] = "supported"
    BY <1>2, <1>5, <2>1 DEF CheckSecurity, Goto
  <2> QED
    BY <1>1, <2>2, WorkGoesOn DEF Working
<1>6. CASE Unlocked
  <2>1. ata[current] = "supported"
    BY <1>6 DEF Unlocked, Goto, Inv, SecurityInv
  <2>2. \/ at' \in {"shred", "failed"} /\ (at' = "shred" => settings.fallback)
        \/ at' = "secure_erase" /\ Enabled(current)
        \/ at' = "set_pass"
    BY <1>2, <1>6 DEF Unlocked, Goto
  <2> QED
    BY <1>1, <2>1, <2>2, WorkGoesOn DEF Working
<1>7. CASE SecureEraseIgnored
  <2>1. at' = "verify" /\ Enabled(current)
    BY <1>7 DEF SecureEraseIgnored, Goto, Inv, SecurityInv
  <2> QED
    BY <1>1, <2>1, WorkGoesOn DEF Working
<1>8. CASE SetPasswordFails \/ UnlockedAfterFailure \/ HdparmRaises
           \/ (Verify /\ Enabled(current))
  <2>1. at' \in {"shred", "failed"} /\ (at' = "shred" => settings.fallback)
    BY <1>2, <1>8 DEF SetPasswordFails, UnlockedAfterFailure, HdparmRaises, Verify, Goto
  <2> QED
    BY <1>1, <2>1, WorkGoesOn DEF Working
<1> QED
  BY <1>4, <1>5, <1>6, <1>7, <1>8

\* smartctl fails: the disk goes to shred with the password that it may have.
LEMMA SmartctlFailsKeepsInv == ASSUME Inv, SmartctlFails PROVE Inv'
<1>1. /\ at = "security" /\ at' = "shred" /\ unasked' = unasked \cup {current}
      /\ UNCHANGED <<content, password, locked, settings, ata, op, todo, current, errors>>
  BY DEF SmartctlFails, Goto, diskVars
<1>2. Types' /\ SecurityInv'
  BY <1>1 DEF Inv, Types, SecurityInv, Working, OneDisk, At, Enabled
<1>3. \A d \in Disks \ {current} : Done(d)' = Done(d) /\ Good(d)' = Good(d)
  BY <1>1 DEF Done, Good, Enabled
<1>4. ProgressInv'
  BY <1>1, <1>3 DEF Inv, ProgressInv, Working, OneDisk, CleanedIsUsable
<1> QED
  BY <1>2, <1>4 DEF Inv

\* A step that changes the disk being worked on alone leaves the others good.
LEMMA OthersStayGood ==
    ASSUME UNCHANGED <<settings, unasked, op, todo, current, errors>>,
           \A d \in Disks \ {current} : /\ content'[d] = content[d]
                                        /\ password'[d] = password[d]
                                        /\ locked'[d] = locked[d]
    PROVE  \A d \in Disks \ {current} : Done(d)' = Done(d) /\ Good(d)' = Good(d)
BY DEF Done, Good, Enabled

\* The commands that change its security state.
LEMMA SecurityStepsKeepInv ==
    ASSUME Inv, tries \in 0 .. 2, TryUnlock \/ SetPassword \/ SecureErase \/ SecureEraseFails
    PROVE  Inv'
<1>1. /\ at \in Working /\ at' \in Working
      /\ UNCHANGED <<settings, ata, unasked, op, todo, current, errors>>
      /\ at \in {"unlock", "set_pass", "secure_erase", "unlock_after"}
  BY DEF TryUnlock, SetPassword, SecureErase, SecureEraseFails, Goto, Working
<1>2. current \in Disks
  BY <1>1 DEF Inv, Types, OneDisk
<1>3. /\ content' \in [Disks -> Content] /\ password' \in [Disks -> Passwords]
      /\ locked' \in [Disks -> BOOLEAN]
      /\ \A d \in Disks \ {current} : /\ content'[d] = content[d]
                                      /\ password'[d] = password[d]
                                      /\ locked'[d] = locked[d]
  <2>1. CASE TryUnlock
    BY <2>1, <1>2 DEF TryUnlock, Set, Inv, Types
  <2>2. CASE SetPassword
    BY <2>2, <1>2, NullMeansAssumption DEF SetPassword, Set, Inv, Types, Passwords
  <2>3. CASE SecureErase
    BY <2>3, <1>2 DEF SecureErase, Set, Inv, Types, Passwords, Content
  <2>4. CASE SecureEraseFails
    BY <2>4, <1>2 DEF SecureEraseFails, Set, Inv, Types, Content
  <2> QED
    BY <2>1, <2>2, <2>3, <2>4
<1>4. Types'
  BY <1>1, <1>2, <1>3 DEF Inv, Types, OneDisk, Working, At
<1>5. \A d \in Disks \ {current} : Done(d)' = Done(d) /\ Good(d)' = Good(d)
  BY <1>1, <1>3, OthersStayGood
<1>6. CASE TryUnlock
  <2>1. locked[current] /\ UNCHANGED <<content, password, at>>
    BY <1>6 DEF TryUnlock
  <2>2. ~locked'[current] => password[current] \in {NullMeans, ""}
    <3>0. /\ Len(UnlockPasswords) = 2
          /\ UnlockPasswords[1] = NullMeans /\ UnlockPasswords[2] = ""
      BY DEF UnlockPasswords
    <3>1. tries' = 1 \/ tries' = 2
      <4>1. tries < Len(UnlockPasswords) /\ tries' = tries + 1
        BY <1>6 DEF TryUnlock
      <4>2. tries < 2
        BY <3>0, <4>1
      <4> QED
        BY <4>1, <4>2
    <3>2. UnlockPasswords[tries'] \in {NullMeans, ""}
      BY <3>0, <3>1
    <3>3. locked'[current] \/ password[current] = UnlockPasswords[tries']
      BY <1>2, <1>6, <2>1 DEF TryUnlock, Set, Inv, Types
    <3> QED
      BY <3>2, <3>3
  <2>3. SecurityInv'
    BY <1>1, <1>2, <1>3, <2>1, <2>2 DEF Inv, SecurityInv, Enabled
  <2>4. ProgressInv'
    BY <1>1, <1>5, <1>6, <2>1 DEF TryUnlock, Inv, ProgressInv, Working, OneDisk, Enabled,
                                  CleanedIsUsable
  <2> QED
    BY <1>4, <2>3, <2>4 DEF Inv
<1>7. CASE SetPassword
  <2>1. /\ at = "set_pass" /\ at' = "secure_erase" /\ UNCHANGED <<content, locked>>
        /\ password'[current] = NullMeans
    BY <1>2, <1>7 DEF SetPassword, Goto, Set, Inv, Types
  <2>2. SecurityInv'
    BY <1>1, <1>2, <1>3, <2>1, NullMeansAssumption DEF Inv, SecurityInv, Enabled
  <2>3. ProgressInv'
    BY <1>1, <1>5, <2>1 DEF Inv, ProgressInv, Working, OneDisk, CleanedIsUsable
  <2> QED
    BY <1>4, <2>2, <2>3 DEF Inv
<1>8. CASE SecureErase
  <2>1. /\ at = "secure_erase" /\ at' = "verify" /\ UNCHANGED locked /\ ~locked[current]
        /\ password'[current] = "none" /\ content'[current] = "erased"
    BY <1>2, <1>8 DEF SecureErase, Goto, Set, Inv, Types
  <2>2. SecurityInv'
    BY <1>1, <1>2, <1>3, <2>1 DEF Inv, SecurityInv, Enabled
  <2>3. ProgressInv'
    BY <1>1, <1>5, <2>1 DEF Inv, ProgressInv, Working, OneDisk, CleanedIsUsable
  <2> QED
    BY <1>4, <2>2, <2>3 DEF Inv
<1>9. CASE SecureEraseFails
  <2>1. /\ at = "secure_erase" /\ at' = "unlock_after" /\ UNCHANGED password
        /\ locked'[current] = locked[current] \/ locked'[current] = TRUE
    BY <1>2, <1>9 DEF SecureEraseFails, Goto, Set, Inv, Types
  <2>2. SecurityInv'
    BY <1>1, <1>2, <1>3, <2>1 DEF Inv, SecurityInv, Enabled
  <2>3. ProgressInv'
    BY <1>1, <1>5, <2>1 DEF Inv, ProgressInv, Working, OneDisk, CleanedIsUsable
  <2> QED
    BY <1>4, <2>2, <2>3 DEF Inv
<1> QED
  BY <1>6, <1>7, <1>8, <1>9

\* The disk is done: its security is not enabled, or it was overwritten.
LEMMA EndsKeepInv ==
    ASSUME Inv, (Verify /\ ~Enabled(current)) \/ Shred \/ ShredFails PROVE Inv'
<1>1. /\ at \in Working
      /\ UNCHANGED <<password, locked, settings, ata, unasked, op, todo, current, errors>>
      /\ at' = "next" \/ at' = "failed"
  BY DEF Verify, Shred, ShredFails, Goto, diskVars, Working
<1>2. current \in Disks /\ op = "erase_devices"
  BY <1>1 DEF Inv, Types, ProgressInv, OneDisk
<1>3. content' \in [Disks -> Content] /\ \A d \in Disks \ {current} : content'[d] = content[d]
  BY <1>2 DEF Verify, Shred, ShredFails, Set, Inv, Types, Content, diskVars
<1>4. Types' /\ SecurityInv'
  BY <1>1, <1>3 DEF Inv, Types, SecurityInv, OneDisk, Working, At, Enabled
<1>5. \A d \in Disks \ {current} : Done(d)' = Done(d) /\ Good(d)' = Good(d)
  BY <1>1, <1>3, OthersStayGood
<1>6. at' = "next" => Good(current)'
  <2>1. CASE Verify /\ ~Enabled(current)
    <3>1. content'[current] = "erased" /\ locked[current] = FALSE
      BY <1>2, <2>1 DEF Verify, Goto, diskVars, Inv, Types, SecurityInv, ProgressInv
    <3> QED
      BY <1>1, <1>2, <2>1, <3>1 DEF Good, Enabled
  <2>2. CASE Shred
    <3>1. /\ content'[current] = "erased" /\ locked[current] = FALSE
          /\ settings.secureErase /\ ~settings.fallback =>
                 ~Enabled(current) \/ current \in unasked
      BY <1>2, <2>2 DEF Shred, Goto, Set, Inv, Types, ProgressInv
    <3> QED
      BY <1>1, <1>2, <3>1 DEF Good, Enabled
  <2>3. CASE ShredFails
    BY <2>3 DEF ShredFails, Goto
  <2> QED
    BY <2>1, <2>2, <2>3
<1>7. ProgressInv'
  BY <1>1, <1>2, <1>5, <1>6 DEF Inv, ProgressInv, Working, OneDisk, CleanedIsUsable
<1> QED
  BY <1>4, <1>7 DEF Inv

-------------------------------------------------------------------------------
\* Between the steps: what a successful step has done makes the node usable.
LEMMA IronicKeepsInv ==
    ASSUME Inv, StepSucceeded \/ CleanAgain \/ PowerLoss \/ AgentCrash \/ Use PROVE Inv'
<1>1. CASE StepSucceeded
  <2>1. /\ at = "succeeded" /\ at' = IF op = "erase_devices" THEN "cleaned" ELSE "idle"
        /\ op' = "erase_devices"
        /\ UNCHANGED <<content, password, locked, settings, ata, unasked, todo, current,
                       errors>>
    BY <1>1 DEF StepSucceeded, Goto, diskVars
  <2>2. Types' /\ SecurityInv'
    BY <2>1 DEF Inv, Types, SecurityInv, OneDisk, Working, At, Enabled
  <2>3. op = "erase_devices" => \A d \in Disks \ VirtualMedia : Good(d)
    BY <2>1 DEF Inv, ProgressInv, Done
  <2>4. CleanedIsUsable'
    BY <2>1, <2>3 DEF CleanedIsUsable, Good, Enabled, Inv, SecurityInv
  <2> QED
    BY <2>1, <2>2, <2>4 DEF Inv, ProgressInv, Working, OneDisk
<1>2. CASE CleanAgain \/ PowerLoss \/ AgentCrash \/ Use
  <2>1. at' = "idle" /\ op' \in {"erase_devices_metadata", "erase_devices"}
        /\ UNCHANGED <<password, settings, ata>>
    BY <1>2 DEF CleanAgain, PowerLoss, AgentCrash, Use, Restarted, PowerCycle, FirstStep,
                diskVars
  <2>2. content' \in [Disks -> Content]
    <3>1. CASE PowerLoss
      BY <3>1 DEF PowerLoss, Set, Inv, Types, Content
    <3>2. CASE CleanAgain \/ AgentCrash \/ Use
      BY <3>2 DEF CleanAgain, AgentCrash, Use, PowerCycle, diskVars, Inv, Types, Content
    <3> QED
      BY <1>2, <3>1, <3>2
  <2>3. \/ UNCHANGED locked
        \/ locked' = [d \in Disks |-> Enabled(d)]
    BY <1>2 DEF CleanAgain, PowerLoss, AgentCrash, Use, PowerCycle, diskVars
  <2>4. /\ locked' \in [Disks -> BOOLEAN]
        /\ \A d \in Disks : locked'[d] => Enabled(d)
        /\ \A d \in Disks : ~locked'[d] => password[d] \in {"none", NullMeans, ""}
        /\ \A d \in Disks : ata[d] # "supported" /\ Enabled(d) => locked'[d]
    BY <2>3 DEF Inv, Types, SecurityInv, Enabled
  <2> QED
    BY <2>1, <2>2, <2>4 DEF Inv, Types, SecurityInv, ProgressInv, OneDisk, Working, At,
                            Enabled, CleanedIsUsable
<1> QED
  BY <1>1, <1>2

LEMMA NextKeepsInv == ASSUME Inv, tries \in 0 .. 2, [Next]_vars PROVE Inv'
<1>1. CASE UNCHANGED vars
  <2>1. Same /\ at' = at
    BY <1>1 DEF vars, diskVars, stepVars, Same
  <2>2. Types' /\ SecurityInv'
    BY <2>1 DEF Same, Inv, Types, SecurityInv, Enabled
  <2>3. \A d : Done(d)' = Done(d) /\ Good(d)' = Good(d) /\ Enabled(d)' = Enabled(d)
    BY <2>1 DEF Same, Done, Good, Enabled
  <2>4. ProgressInv'
    BY <2>1, <2>3 DEF Same, Inv, ProgressInv, CleanedIsUsable
  <2> QED
    BY <2>2, <2>4 DEF Inv
<1> QED
  BY <1>1, LoopsKeepInv, MetadataKeepsInv, ChoicesKeepInv, SecurityStepsKeepInv, EndsKeepInv,
     SmartctlFailsKeepsInv, IronicKeepsInv DEF Next, Erasing, Ironic

-------------------------------------------------------------------------------
\* The rest of the type invariant; what Types does not have.
OtherTypes ==
    /\ frozen \in [Disks -> BOOLEAN]
    /\ ata \in [Disks -> {"none", "unreachable", "supported"}]
    /\ todo \subseteq Disks
    /\ current \in Disks \cup {NoDisk}
    /\ tries \in 0 .. 2
    /\ errors \subseteq Disks
    /\ unasked \subseteq Disks
    /\ faults \in 0 .. MaxFaults

\* Two passwords are tried, and every fault is counted.
LEMMA NextKeepsOtherTypes ==
    ASSUME Inv, OtherTypes, [Next]_vars PROVE OtherTypes'
<1>0. Fault \/ NoFault => faults' \in 0 .. MaxFaults
  BY MaxFaultsAssumption DEF Fault, NoFault, OtherTypes
<1>1. CASE \/ Begin \/ ListDisks \/ ListFails \/ (\E d \in Disks : NextDisk(d)) \/ LastDisk
           \/ SkipVirtualMedia \/ StepSucceeded
  BY <1>0, <1>1 DEF Begin, ListDisks, ListFails, NextDisk, LastDisk, SkipVirtualMedia,
                    StepSucceeded, diskVars, OtherTypes
<1>2. CASE DestroyMetadata \/ DestroyMetadataFails \/ MetadataRaises \/ SmartctlFails
  <2>1. current \in Disks
    BY <1>2 DEF DestroyMetadata, DestroyMetadataFails, MetadataRaises, SmartctlFails, Goto,
                Inv, Types, OneDisk, Working
  <2> QED
    BY <1>0, <1>2, <2>1 DEF DestroyMetadata, DestroyMetadataFails, MetadataRaises,
                            SmartctlFails, diskVars, OtherTypes
<1>3. CASE TryUnlock
  <2>1. Len(UnlockPasswords) = 2
    BY DEF UnlockPasswords
  <2>2. tries' \in 0 .. 2
    BY <1>3, <2>1 DEF TryUnlock, OtherTypes
  <2>3. Fault \/ NoFault
    BY <1>3 DEF TryUnlock
  <2> QED
    BY <1>0, <1>3, <2>2, <2>3 DEF TryUnlock, OtherTypes
<1>4. CASE \/ ChooseMethod \/ CheckSecurity \/ Unlocked \/ SetPassword \/ SetPasswordFails
           \/ SecureErase \/ SecureEraseIgnored \/ UnlockedAfterFailure \/ Verify
           \/ HdparmRaises \/ Shred
  BY <1>0, <1>4 DEF ChooseMethod, CheckSecurity, Unlocked, SetPassword, SetPasswordFails,
                    SecureErase, SecureEraseIgnored, UnlockedAfterFailure, Verify,
                    HdparmRaises, Shred, diskVars, OtherTypes
<1>5. CASE SecureEraseFails \/ ShredFails
  <2>1. tries' \in {0, tries} /\ UNCHANGED <<frozen, ata, unasked, todo, current, errors>>
    BY <1>5 DEF SecureEraseFails, ShredFails
  <2>2. Fault \/ NoFault
    BY <1>5 DEF SecureEraseFails, ShredFails
  <2> QED
    BY <1>0, <2>1, <2>2 DEF OtherTypes
<1>6. CASE CleanAgain \/ PowerLoss \/ AgentCrash \/ Use
  <2>1. /\ todo' = {} /\ current' = NoDisk /\ tries' = 0 /\ errors' = {} /\ unasked' = {}
        /\ UNCHANGED ata
        /\ frozen' \in [Disks -> BOOLEAN]
    BY <1>6 DEF CleanAgain, PowerLoss, AgentCrash, Use, Restarted, PowerCycle, diskVars,
                OtherTypes
  <2>2. Fault \/ NoFault
    BY <1>6 DEF CleanAgain, PowerLoss, AgentCrash, Use, PowerCycle, Fault, NoFault
  <2> QED
    BY <1>0, <2>1, <2>2 DEF OtherTypes
<1>7. CASE UNCHANGED vars
  BY <1>7 DEF vars, diskVars, stepVars, OtherTypes
<1> QED
  BY <1>1, <1>2, <1>3, <1>4, <1>5, <1>6, <1>7 DEF Next, Erasing, Ironic

\* The invariant holds throughout.
LEMMA Invariance == Spec => [](Inv /\ OtherTypes)
<1>1. Init => OtherTypes
  BY MaxFaultsAssumption DEF Init, OtherTypes
<1>2. Inv /\ OtherTypes /\ [Next]_vars => Inv' /\ OtherTypes'
  BY NextKeepsInv, NextKeepsOtherTypes DEF OtherTypes
<1> QED
  BY <1>1, <1>2, InitInv, PTL DEF Spec

\* A clean step that succeeds has erased every disk but virtual media.
THEOREM SuccessIsErased == Spec => []SuccessMeansErased
<1>1. Inv => SuccessMeansErased
  BY DEF Inv, ProgressInv, Done, Good, SuccessMeansErased
<1> QED
  BY <1>1, Invariance, PTL

\* A cleaned node has no locked disk; a password that it keeps is one that the next
\* erase tries; and it keeps one only where shred was allowed or smartctl failed.
THEOREM CleanedDisksAreUsable == Spec => []CleanedIsUsable
<1>1. Inv => CleanedIsUsable
  BY DEF Inv, ProgressInv
<1> QED
  BY <1>1, Invariance, PTL

\* The variables of the erasure keep their types, and no third password is tried.
THEOREM TypeCorrect == Spec => []TypeOK
<1>1. Inv /\ OtherTypes => TypeOK
  BY DEF Inv, Types, OtherTypes, TypeOK
<1> QED
  BY <1>1, Invariance, PTL
================================================================================
