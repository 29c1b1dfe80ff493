-------------------------------- MODULE Startup --------------------------------
(***************************************************************************)
(* IronicPythonAgent.run up to the moment it serves: the disks are waited  *)
(* for, the node is inspected, an interface is waited for, the node is     *)
(* looked up, and its root device waited for.  Every wait counts its       *)
(* attempts and gives up, but a request of the agent has no timeout of its *)
(* own; an exception is not caught and the agent is started again.         *)
(***************************************************************************)
EXTENDS Inspection

CONSTANTS
    DiskWaits,   \* disk_wait_attempts
    NicPolls,    \* how often _wait_for_interface looks before its timeout
    LookupTries  \* how often lookup_node asks before its timeout

ASSUME WaitsAssumption == DiskWaits \in Nat /\ NicPolls \in Nat \ {0}
                          /\ LookupTries \in Nat \ {0}

VARIABLES
    node,    \* NODE, as Ironic answered it
    silent   \* a peer has accepted the request and never answers it

vars == <<bmcVars, hostVars, inspectVars, failures, waits, at, node, silent>>

\* A node with its hint for the root device; timeout: does config have
\* heartbeat_timeout.
Node == [hint : Disks \cup {NoDisk}, timeout : BOOLEAN]
NoNode == [hint |-> NoDisk, timeout |-> FALSE]

Init ==
    /\ BmcInit /\ InspectInit
    /\ at = "load"
    /\ node = NoNode
    /\ silent = FALSE

At == {"load", "inspect", "collect", "bmc", "ipmitool", "has_set", "dhcp", "inventory",
       "gather", "post", "posted", "interface", "info", "lookup", "cache", "configure",
       "serve", "crashed", "inspection_failed"}

Limit ==
    CASE at \in {"load", "cache"} -> DiskWaits
      [] at = "dhcp" -> DhcpPolls
      [] at = "interface" -> NicPolls
      [] at = "lookup" -> LookupTries
      [] OTHER -> 0

TypeOK ==
    /\ BmcTypeOK /\ InspectTypeOK
    /\ at \in At
    /\ node \in Node /\ silent \in BOOLEAN
    /\ waits \in Nat /\ (waits = 0 \/ waits < Limit)

-------------------------------------------------------------------------------
(* wait_for_disks *)

RootDisk == IF node.hint = NoDisk THEN GuessRootDisk
                                  ELSE IF node.hint \in disks THEN node.hint ELSE NoDisk

\* Mutant: one attempt more than disk_wait_attempts.
OneMoreAttempt(from, to) ==
    /\ at = from
    /\ IF DiskWaits = 0 \/ RootDisk # NoDisk \/ waits = DiskWaits
         THEN at' = to /\ waits' = 0
         ELSE waits' = waits + 1 /\ UNCHANGED at
    /\ UNCHANGED <<bmcVars, hostVars, inspectVars, failures, node>>

\* One attempt; after the last one the agent goes on without a root disk.
WaitForDisks(from, to) ==
    /\ at = from
    /\ IF DiskWaits = 0 \/ RootDisk # NoDisk \/ waits + 1 = DiskWaits
         THEN at' = to /\ waits' = 0
         ELSE waits' = waits + 1 /\ UNCHANGED at
    /\ UNCHANGED <<bmcVars, hostVars, inspectVars, failures, node>>

-------------------------------------------------------------------------------
(* run *)

AfterInspection == IF settings.api THEN "interface" ELSE "serve"

\* load_managers: the generic manager waits when it is asked for its support.
LoadManagers ==
    WaitForDisks("load", CASE settings.standalone -> "serve"
                           [] ~settings.standalone /\ settings.inspect -> "inspect"
                           [] OTHER -> AfterInspection)

RunInspection == Inspect(AfterInspection) /\ UNCHANGED node

WaitForInterface ==
    /\ at = "interface"
    /\ IF Listed # {} \/ waits + 1 = NicPolls
         THEN at' = "info" /\ waits' = 0
         ELSE waits' = waits + 1 /\ UNCHANGED at
    /\ UNCHANGED <<bmcVars, hostVars, inspectVars, failures, node>>

ListHardwareInfo ==
    /\ Goto("info", "lookup")
    /\ UNCHANGED <<bmcVars, hostVars, inspectVars, failures, waits, node>>

\* An answer of the new API, or of the old one, which has heartbeat_timeout or is
\* asked again; config may come without it.
NodeFound ==
    /\ Goto("lookup", "cache")
    /\ node' \in Node
    /\ waits' = 0
    /\ UNCHANGED <<bmcVars, hostVars, inspectVars, failures>>

\* Mutant: there is no timeout, the attempts are counted anew.
AskForever ==
    /\ at = "lookup"
    /\ waits' = (waits + 1) % LookupTries
    /\ UNCHANGED <<bmcVars, hostVars, inspectVars, failures, node, at>>

\* The request raises, or the answer is an error, is no JSON, or is an object without
\* a node, a UUID or a timeout: it is asked again, until LookupNodeError.  The time is
\* looked at only between the requests.
NodeNotFound ==
    /\ at = "lookup"
    /\ IF waits + 1 = LookupTries THEN at' = "crashed" /\ waits' = 0
                                  ELSE waits' = waits + 1 /\ UNCHANGED at
    /\ UNCHANGED <<bmcVars, hostVars, inspectVars, failures, node>>

\* The answer is JSON but no object, or its node is null: the test for 'node' raises,
\* which is not asked again.
LookupRaises ==
    /\ Goto("lookup", "crashed")
    /\ waits' = 0
    /\ UNCHANGED <<bmcVars, hostVars, inspectVars, failures, node>>

CacheNode == WaitForDisks("cache", "configure")

Configure ==
    /\ Goto("configure", IF node.timeout THEN "serve" ELSE "crashed")
    /\ UNCHANGED <<bmcVars, hostVars, inspectVars, failures, waits, node>>

\* Disks or interfaces cannot be listed.
HardwareRaises ==
    /\ at \in {"load", "interface", "info", "cache"} /\ at' = "crashed"
    /\ waits' = 0
    /\ UNCHANGED <<bmcVars, hostVars, inspectVars, failures, node>>

Agent ==
    \/ LoadManagers \/ RunInspection \/ WaitForInterface \/ ListHardwareInfo
    \/ NodeFound \/ NodeNotFound \/ LookupRaises \/ CacheNode \/ Configure
    \/ HardwareRaises

AgentStep == ~silent /\ Agent /\ UNCHANGED silent

-------------------------------------------------------------------------------
(* The machine and its peers, while the agent starts. *)

\* The inspector or Ironic never answers: neither requests.get and post nor the
\* session of the API client are given a timeout.
PeerSilent ==
    /\ ~silent /\ silent' = TRUE
    /\ at \in {"bmc", "has_set", "post", "lookup"}
    /\ UNCHANGED <<bmcVars, hostVars, inspectVars, failures, waits, at, node>>

DiskAppears ==
    /\ \E d \in Disks \ disks : disks' = disks \cup {d}
    /\ UNCHANGED <<bmcVars, settings, nics, inspectVars, failures, waits, at, node, silent>>

NicComesUp ==
    /\ \E n \in Nics : \/ nics[n] = "absent" /\ nics' = [nics EXCEPT ![n] = "up"]
                       \/ nics[n] = "up" /\ nics' = [nics EXCEPT ![n] = "addressed"]
    /\ UNCHANGED <<bmcVars, settings, disks, inspectVars, failures, waits, at, node, silent>>

\* The agent that died is started again; the BMC and the inspector keep what they
\* have.
Restart ==
    /\ at \in {"crashed", "inspection_failed"} /\ at' = "load"
    /\ tries' = Retries /\ setting' = 1
    /\ next' = 0 /\ data' = {} /\ reraise' = FALSE /\ posted' = << >>
    /\ failures' = {} /\ waits' = 0 /\ node' = NoNode
    /\ UNCHANGED <<bmc, hasSet, hostVars, silent>>

Next == AgentStep \/ PeerSilent \/ DiskAppears \/ NicComesUp \/ Restart

\* The agent goes on, and the commands it runs end, but while a peer is silent.
Spec == Init /\ [][Next]_vars /\ WF_vars(AgentStep)

-------------------------------------------------------------------------------
\* The inspector hears of every failure: an InspectionError ends the agent only after
\* one post that had just these failures, and the agent goes on to the lookup only
\* after one post that had none.
FailuresAreReported ==
    LET heard == Len(posted) = 1 /\ posted[1].error = failures
    IN  /\ at = "inspection_failed" => heard /\ failures # {}
        /\ settings.inspect /\ ~settings.standalone
             /\ at \in {"interface", "info", "lookup", "cache", "configure", "serve"}
             => heard /\ failures = {}

\* The inspector marks the BMC as set only when it has all four settings, over
\* commands that fail half-way, retries and restarts of the agent.
HasSetIsTrue == hasSet => bmc = AllSettings

\* Whatever does not appear, fails or answers with an error however often, run comes to
\* serve, then for a node of which it has all it needs, or ends to be started again;
\* only a peer that never answers a request holds it up for ever.
StartupSettles ==
    at = "load" ~>
        \/ silent
        \/ at \in {"crashed", "inspection_failed"}
        \/ at = "serve" /\ (settings.api /\ ~settings.standalone => node.timeout)
===============================================================================
