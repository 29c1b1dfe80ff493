------------------------------- MODULE Inspection -------------------------------
(***************************************************************************)
(* inspector.inspect: the collectors run one after the other on a node     *)
(* that nothing is known of.  What fails is accumulated, and raised only   *)
(* after the data were posted to the inspector, with the failures in them. *)
(***************************************************************************)
EXTENDS BmcSetter

CONSTANTS
    Collectors,  \* inspection_collectors
    Disks,       \* the disks of the machine, by size
    MinSize,     \* min_size_required of guess_root_disk
    Nics,        \* the network interfaces of the machine
    BootNic,     \* the one it was booted from
    DhcpPolls    \* how often wait_for_dhcp looks before its timeout

ASSUME CollectorsAssumption == Collectors \in Seq(STRING)
ASSUME DisksAssumption == Disks \subseteq Nat \ {0} /\ MinSize \in Nat
ASSUME NicsAssumption == BootNic \in Nics
ASSUME DhcpAssumption == DhcpPolls \in Nat

VARIABLES
    settings,  \* the configuration of the agent
    disks,     \* the disks that have appeared
    nics,      \* how far each interface has come
    next,      \* the number of collectors that were started
    reraise,   \* is the failure to load the collectors to be raised again
    posted,    \* what was posted to the inspector
    waits      \* how often the loop the main thread is in has waited

hostVars == <<settings, disks, nics>>
inspectVars == <<next, data, reraise, posted>>

NoDisk == 0
\* await: the interfaces wait_for_dhcp waits for, all or the one of BOOTIF, if there
\* is a BOOTIF.
Settings == [standalone : BOOLEAN, inspect : BOOLEAN, api : BOOLEAN,
             await : {"all", "boot", "none"}]

\* What data and failures are kept under: names of collectors, and the agent's own.
Started == {Collectors[i] : i \in DOMAIN Collectors}
DataKeys == Started \cup {"set_ipmi", "inventory", "boot_interface", "root_disk"}
FailureKeys == Started \cup {"ipmi_setter", "extension_manager"}
Posts == [data : SUBSET DataKeys, error : SUBSET FailureKeys]

InspectInit ==
    /\ settings \in Settings
    /\ disks = {} /\ nics = [n \in Nics |-> "absent"]
    /\ next = 0 /\ data = {} /\ reraise = FALSE /\ posted = << >>
    /\ failures = {} /\ waits = 0

InspectTypeOK ==
    /\ settings \in Settings
    /\ disks \subseteq Disks
    /\ nics \in [Nics -> {"absent", "up", "addressed"}]
    /\ next \in 0 .. Len(Collectors)
    /\ data \subseteq DataKeys /\ failures \subseteq FailureKeys
    /\ reraise \in BOOLEAN
    /\ posted \in Seq(Posts)

\* guess_root_disk: the smallest disk that is large enough.
GuessRootDisk ==
    LET fit == {d \in disks : d >= MinSize}
    IN  IF fit = {} THEN NoDisk ELSE CHOOSE d \in fit : \A e \in fit : d <= e

Listed == {n \in Nics : nics[n] # "absent"}

-------------------------------------------------------------------------------
LoadCollectors ==
    /\ Goto("inspect", "collect")
    /\ next' = 0 /\ data' = {} /\ failures' = {}
    /\ UNCHANGED <<bmcVars, hostVars, reraise, posted, waits>>

CollectorMissing ==
    /\ Goto("inspect", "post")
    /\ failures' = {"extension_manager"}
    /\ reraise' = TRUE
    /\ UNCHANGED <<bmcVars, hostVars, next, data, posted, waits>>

\* The next collector starts, the default one by waiting for DHCP.
StartCollector ==
    /\ at = "collect"
    /\ next < Len(Collectors)
    /\ next' = next + 1
    /\ at' = CASE Collectors[next'] = "ipmi_setter" -> "bmc"
               [] Collectors[next'] = "default" -> "dhcp"
               [] OTHER -> "gather"
    /\ tries' = Retries
    /\ UNCHANGED <<bmc, hasSet, setting, hostVars, data, reraise, posted, failures,
                   waits>>

SetterCollects ==
    /\ SetBmIpmi
    /\ UNCHANGED <<hostVars, next, reraise, posted, waits>>

\* One poll of wait_for_dhcp, which only looks at interfaces that are there.
AwaitedNics == IF settings.await = "all" THEN Listed ELSE Listed \cap {BootNic}

WaitForDhcp ==
    /\ at = "dhcp"
    /\ IF \/ DhcpPolls = 0 \/ settings.await = "none"
          \/ \A n \in AwaitedNics : nics[n] = "addressed"
          \/ waits + 1 = DhcpPolls
         THEN at' = "inventory" /\ waits' = 0
         ELSE waits' = waits + 1 /\ UNCHANGED at
    /\ UNCHANGED <<bmcVars, hostVars, inspectVars, failures>>

\* collect_default; without a suitable disk there is only no root_disk.
CollectDefault ==
    /\ Goto("inventory", "collect")
    /\ data' = data \cup {"inventory", "boot_interface"}
                    \cup IF GuessRootDisk = NoDisk THEN {} ELSE {"root_disk"}
    /\ UNCHANGED <<bmcVars, hostVars, next, reraise, posted, failures, waits>>

\* The other collectors; collect_logs may return without logs and without a failure.
Gather ==
    /\ Goto("gather", "collect")
    /\ \/ data' = data \cup {Collectors[next]}
       \/ Collectors[next] = "logs" /\ UNCHANGED data
    /\ UNCHANGED <<bmcVars, hostVars, next, reraise, posted, failures, waits>>

\* A collector adds a failure or raises an exception: the next one is started.
CollectorFails ==
    /\ at \in {"dhcp", "inventory", "gather"} /\ at' = "collect"
    /\ failures' = failures \cup {Collectors[next]}
    /\ waits' = 0
    /\ UNCHANGED <<bmcVars, hostVars, inspectVars>>

AllCollected ==
    /\ Goto("collect", "post")
    /\ next = Len(Collectors)
    /\ UNCHANGED <<bmcVars, hostVars, inspectVars, failures, waits>>

-------------------------------------------------------------------------------
(* call_inspector *)

Record == [data |-> data, error |-> failures]

\* The inspector answers, with the UUID of a node or with an error.
Post ==
    /\ Goto("post", "posted")
    /\ posted' = Append(posted, Record)
    /\ UNCHANGED <<bmcVars, hostVars, next, data, reraise, failures, waits>>

\* The post or the decoding of its answer raises: inspect ends at once.
PostFails ==
    /\ Goto("post", "crashed")
    /\ posted' \in {posted, Append(posted, Record)}
    /\ UNCHANGED <<bmcVars, hostVars, next, data, reraise, failures, waits>>

\* Mutant: what was delayed is raised only for the default collector.
RaiseSome(to) ==
    /\ Goto("posted", IF reraise \/ "default" \in failures THEN "inspection_failed"
                                                          ELSE to)
    /\ UNCHANGED <<bmcVars, hostVars, inspectVars, failures, waits>>

\* raise_if_needed, and the end of inspect, to is where run goes on.
RaiseIfNeeded(to) ==
    /\ Goto("posted", IF reraise \/ failures # {} THEN "inspection_failed" ELSE to)
    /\ UNCHANGED <<bmcVars, hostVars, inspectVars, failures, waits>>

\* The answer is JSON but no object that has a UUID to get.
AnswerRaises ==
    /\ Goto("posted", "crashed")
    /\ ~reraise /\ failures = {}
    /\ UNCHANGED <<bmcVars, hostVars, inspectVars, failures, waits>>

Inspect(to) ==
    \/ LoadCollectors \/ CollectorMissing \/ StartCollector \/ SetterCollects
    \/ WaitForDhcp \/ CollectDefault \/ Gather \/ CollectorFails \/ AllCollected
    \/ Post \/ PostFails \/ RaiseIfNeeded(to) \/ AnswerRaises
===============================================================================
