------------------------------ MODULE StartupProofs ------------------------------
(***************************************************************************)
(* What the start of the agent tells the inspector is true, and it waits   *)
(* no longer than it may, for any collectors, disks, interfaces and bounds *)
(* of the waits.                                                           *)
(***************************************************************************)
EXTENDS Startup, SequenceTheorems, TLAPS

\* The BMC: the settings before the next one have been made in this attempt.
BmcInv ==
    /\ bmc \subseteq AllSettings
    /\ setting \in 1 .. 4
    /\ at = "ipmitool" => \A i \in 1 .. 4 : i < setting => LanSettings[i] \in bmc
    /\ at = "has_set" => bmc = AllSettings
    /\ HasSetIsTrue

Heard == Len(posted) = 1 /\ posted[1].error = failures

BeforePost == {"load", "inspect", "collect", "bmc", "ipmitool", "has_set", "dhcp",
               "inventory", "gather", "post"}
AfterPost == {"interface", "info", "lookup", "cache", "configure", "serve"}

\* The inspection: nothing is posted before "post", and a reason to raise is among
\* the failures.
PostInv ==
    /\ at \in BeforePost => posted = << >>
    /\ at \in {"load", "inspect"} => reraise = FALSE
    /\ reraise => failures # {}
    /\ at \in BeforePost /\ at # "load" => settings.inspect /\ ~settings.standalone
    /\ at = "posted" => Heard
    /\ FailuresAreReported

-------------------------------------------------------------------------------
\* Every step of the setter keeps BmcInv; the other steps do not touch the BMC.
LEMMA SetterKeepsBmcInv ==
    ASSUME BmcInv, SetBmIpmi PROVE BmcInv'
<1>0. AllSettings = {"ipsrc", "ipaddr", "netmask", "defgw"}
  <2>1. DOMAIN LanSettings = 1 .. 4
    BY DEF LanSettings
  <2> QED
    BY <2>1 DEF AllSettings, LanSettings
<1>1. CASE NothingToSet
  BY <1>1 DEF NothingToSet, BmcInv, HasSetIsTrue, Goto
<1>2. CASE AddressIsSet
  BY <1>2 DEF AddressIsSet, BmcInv, HasSetIsTrue, Goto
<1>3. CASE AddressDiffers
  BY <1>3 DEF AddressDiffers, BmcInv, HasSetIsTrue, Goto
<1>4. CASE Ipmitool
  <2>1. at = "ipmitool" /\ bmc' = bmc \cup {LanSettings[setting]} /\ hasSet' = hasSet
    BY <1>4 DEF Ipmitool, NextSetting, Goto
  <2>2. LanSettings[setting] \in AllSettings
    BY DEF BmcInv, AllSettings, LanSettings
  <2>3. bmc' \subseteq AllSettings /\ HasSetIsTrue'
    BY <2>1, <2>2 DEF BmcInv, HasSetIsTrue, AllSettings
  <2>4. CASE setting = 4
    <3>1. at' = "has_set" /\ setting' = setting
      BY <1>4, <2>4 DEF Ipmitool, NextSetting, Goto, LanSettings
    <3>2. LanSettings[1] \in bmc /\ LanSettings[2] \in bmc /\ LanSettings[3] \in bmc
      BY <2>1, <2>4 DEF BmcInv
    <3>3. LanSettings[1] = "ipsrc" /\ LanSettings[2] = "ipaddr"
          /\ LanSettings[3] = "netmask" /\ LanSettings[4] = "defgw"
      BY DEF LanSettings
    <3>4. bmc' = AllSettings
      BY <1>0, <2>1, <2>3, <2>4, <3>2, <3>3
    <3> QED
      BY <2>3, <3>1, <3>4 DEF BmcInv
  <2>5. CASE setting # 4
    <3>1. at' = at /\ setting' = setting + 1 /\ setting' \in 1 .. 4
      BY <1>4, <2>5 DEF Ipmitool, NextSetting, Goto, LanSettings, BmcInv
    <3>2. \A i \in 1 .. 4 : i < setting' => LanSettings[i] \in bmc'
      BY <2>1, <3>1 DEF BmcInv
    <3> QED
      BY <2>1, <2>3, <3>1, <3>2 DEF BmcInv, AllSettings, LanSettings
  <2> QED
    BY <2>4, <2>5
<1>5. CASE TellInspector
  BY <1>5 DEF TellInspector, BmcInv, HasSetIsTrue, Goto
<1>6. CASE SetterFails
  <2>1. bmc' = bmc /\ setting' = setting /\ at' \in {"bmc", "collect"}
    BY <1>6 DEF SetterFails
  <2>2. hasSet' => hasSet \/ at = "has_set"
    BY <1>6 DEF SetterFails
  <2> QED
    BY <2>1, <2>2 DEF BmcInv, HasSetIsTrue, AllSettings, LanSettings
<1> QED
  BY <1>1, <1>2, <1>3, <1>4, <1>5, <1>6 DEF SetBmIpmi

\* The steps of the inspection and of run that leave the BMC alone.
LEMMA OthersKeepBmcInv ==
    ASSUME BmcInv, UNCHANGED bmcVars, at' \notin {"ipmitool", "has_set"}
    PROVE  BmcInv'
BY DEF BmcInv, bmcVars, HasSetIsTrue, AllSettings, LanSettings

LEMMA InitBmcInv == Init => BmcInv
<1>1. {"ipaddr"} \subseteq AllSettings
  <2>1. 2 \in DOMAIN LanSettings /\ LanSettings[2] = "ipaddr"
    BY DEF LanSettings
  <2> QED
    BY <2>1 DEF AllSettings
<1> QED
  BY <1>1 DEF Init, BmcInit, BmcInv, HasSetIsTrue

LEMMA NextKeepsBmcInv ==
    ASSUME BmcInv, [Next]_vars PROVE BmcInv'
<1>1. CASE Agent
  <2>1. CASE RunInspection
    <3>1. CASE SetterCollects
      BY <3>1, SetterKeepsBmcInv DEF SetterCollects
    <3>2. CASE StartCollector
      <4>1. UNCHANGED <<bmc, hasSet, setting>> /\ at' \notin {"ipmitool", "has_set"}
        BY <3>2 DEF StartCollector
      <4> QED
        BY <4>1 DEF BmcInv, HasSetIsTrue, AllSettings, LanSettings
    <3>3. CASE WaitForDhcp
      <4>1. UNCHANGED bmcVars /\ at' \in {"dhcp", "inventory"}
        BY <3>3 DEF WaitForDhcp
      <4> QED
        BY <4>1, OthersKeepBmcInv
    <3>4. CASE \/ LoadCollectors \/ CollectorMissing \/ CollectDefault \/ Gather
               \/ CollectorFails \/ AllCollected \/ Post \/ PostFails
               \/ RaiseIfNeeded(AfterInspection) \/ AnswerRaises
      <4>1. UNCHANGED bmcVars /\ at' \notin {"ipmitool", "has_set"}
        BY <3>4 DEF LoadCollectors, CollectorMissing, CollectDefault, Gather,
                    CollectorFails, AllCollected, Post, PostFails, RaiseIfNeeded,
                    AnswerRaises, AfterInspection, Goto
      <4> QED
        BY <4>1, OthersKeepBmcInv
    <3> QED
      BY <2>1, <3>1, <3>2, <3>3, <3>4 DEF RunInspection, Inspect
  <2>2. CASE \/ LoadManagers \/ WaitForInterface \/ ListHardwareInfo \/ NodeFound
             \/ NodeNotFound \/ LookupRaises \/ CacheNode \/ Configure \/ HardwareRaises
    <3>1. UNCHANGED bmcVars /\ at' \notin {"ipmitool", "has_set"}
      BY <2>2 DEF LoadManagers, CacheNode, WaitForDisks, AfterInspection,
                  WaitForInterface, ListHardwareInfo, NodeFound, NodeNotFound,
                  LookupRaises, Configure, HardwareRaises, Goto
    <3> QED
      BY <3>1, OthersKeepBmcInv
  <2> QED
    BY <1>1, <2>1, <2>2 DEF Agent
<1>2. CASE Restart
  BY <1>2 DEF Restart, BmcInv, HasSetIsTrue, AllSettings, LanSettings
<1>3. CASE PeerSilent \/ DiskAppears \/ NicComesUp \/ UNCHANGED vars
  BY <1>3 DEF PeerSilent, DiskAppears, NicComesUp, vars, bmcVars, BmcInv, HasSetIsTrue,
              AllSettings, LanSettings
<1> QED
  BY <1>1, <1>2, <1>3 DEF Next, AgentStep

\* Whatever the inspector is told about the BMC is so: has_set is only posted by an
\* attempt in which all four commands succeeded.
THEOREM BmcIsSet == Spec => []HasSetIsTrue
<1>1. BmcInv => HasSetIsTrue
  BY DEF BmcInv
<1> QED
  BY <1>1, InitBmcInv, NextKeepsBmcInv, PTL DEF Spec

-------------------------------------------------------------------------------
LEMMA InitPostInv == Init => PostInv
BY DEF Init, InspectInit, PostInv, FailuresAreReported, BeforePost, AfterPost

\* Inside the inspection, before the post.
LEMMA CollectKeepsPostInv ==
    ASSUME PostInv,
           \/ LoadCollectors \/ CollectorMissing \/ StartCollector \/ SetterCollects
           \/ WaitForDhcp \/ CollectDefault \/ Gather \/ CollectorFails \/ AllCollected
    PROVE  PostInv'
<1>1. at \in BeforePost \ {"load", "post"} /\ at' \in BeforePost \ {"load", "inspect"}
  BY DEF LoadCollectors, CollectorMissing, StartCollector, SetterCollects, SetBmIpmi,
         NothingToSet, AddressIsSet, AddressDiffers, NextSetting, Ipmitool,
         TellInspector, SetterFails, WaitForDhcp, CollectDefault, Gather,
         CollectorFails, AllCollected, Goto, BeforePost
<1>2. UNCHANGED <<settings, posted>>
  BY DEF LoadCollectors, CollectorMissing, StartCollector, SetterCollects, WaitForDhcp,
         CollectDefault, Gather, CollectorFails, AllCollected, hostVars, inspectVars
<1>3. reraise' => failures' # {}
  <2>1. CASE LoadCollectors \/ CollectorMissing
    BY <2>1 DEF LoadCollectors, CollectorMissing, PostInv, Goto
  <2>2. CASE \/ StartCollector \/ SetterCollects \/ WaitForDhcp \/ CollectDefault
             \/ Gather \/ CollectorFails \/ AllCollected
    <3>1. reraise' = reraise /\ failures \subseteq failures'
      BY <2>2 DEF StartCollector, SetterCollects, SetBmIpmi, NothingToSet, AddressIsSet,
                  AddressDiffers, Ipmitool, TellInspector, SetterFails, WaitForDhcp,
                  CollectDefault, Gather, CollectorFails, AllCollected, inspectVars
    <3> QED
      BY <3>1 DEF PostInv
  <2> QED
    BY <2>1, <2>2
<1> QED
  BY <1>1, <1>2, <1>3 DEF PostInv, FailuresAreReported, BeforePost, AfterPost, Heard

\* The post and what follows it.
LEMMA PostKeepsPostInv ==
    ASSUME PostInv, Post \/ PostFails \/ RaiseIfNeeded(AfterInspection) \/ AnswerRaises
    PROVE  PostInv'
<1>1. CASE Post
  <2>1. posted' = <<Record>> /\ failures' = failures /\ at' = "posted"
    BY <1>1 DEF Post, PostInv, BeforePost, Goto
  <2>2. Heard'
    BY <2>1 DEF Heard, Record
  <2> QED
    BY <1>1, <2>1, <2>2 DEF Post, PostInv, FailuresAreReported, BeforePost, hostVars,
                            inspectVars
<1>2. CASE PostFails
  BY <1>2 DEF PostFails, PostInv, FailuresAreReported, BeforePost, hostVars, Goto
<1>3. CASE RaiseIfNeeded(AfterInspection)
  BY <1>3 DEF RaiseIfNeeded, AfterInspection, PostInv, FailuresAreReported, Heard,
              BeforePost, hostVars, inspectVars, Goto
<1>4. CASE AnswerRaises
  BY <1>4 DEF AnswerRaises, PostInv, FailuresAreReported, BeforePost, hostVars,
              inspectVars, Goto
<1> QED
  BY <1>1, <1>2, <1>3, <1>4

LEMMA NextKeepsPostInv ==
    ASSUME PostInv, [Next]_vars PROVE PostInv'
<1>1. CASE RunInspection
  BY <1>1, CollectKeepsPostInv, PostKeepsPostInv DEF RunInspection, Inspect
<1>2. CASE LoadManagers
  <2>1. at = "load" /\ UNCHANGED <<settings, posted, reraise, failures>>
    BY <1>2 DEF LoadManagers, WaitForDisks, hostVars, inspectVars
  <2>2. \/ at' = "load"
        \/ at' = "inspect" /\ settings.inspect /\ ~settings.standalone
        \/ at' \in {"interface", "serve"} /\ ~(settings.inspect /\ ~settings.standalone)
    BY <1>2, <2>1 DEF LoadManagers, WaitForDisks, AfterInspection
  <2> QED
    BY <2>1, <2>2 DEF PostInv, FailuresAreReported, BeforePost, Heard
<1>3. CASE \/ WaitForInterface \/ ListHardwareInfo \/ NodeFound \/ NodeNotFound
           \/ LookupRaises \/ CacheNode \/ Configure
  <2>1. at \in AfterPost /\ at' \in AfterPost \cup {"crashed"}
        /\ UNCHANGED <<settings, posted, reraise, failures>>
    BY <1>3 DEF WaitForInterface, ListHardwareInfo, NodeFound, NodeNotFound,
                LookupRaises, CacheNode, WaitForDisks, Configure, AfterPost, hostVars,
                inspectVars, Goto
  <2> QED
    BY <2>1 DEF PostInv, FailuresAreReported, BeforePost, AfterPost, Heard
<1>4. CASE HardwareRaises
  BY <1>4 DEF HardwareRaises, PostInv, FailuresAreReported, BeforePost, hostVars,
              inspectVars
<1>5. CASE Restart
  BY <1>5 DEF Restart, PostInv, FailuresAreReported, BeforePost, hostVars
<1>6. CASE PeerSilent \/ DiskAppears \/ NicComesUp \/ UNCHANGED vars
  BY <1>6 DEF PeerSilent, DiskAppears, NicComesUp, vars, hostVars, inspectVars, PostInv, Heard,
              FailuresAreReported
<1> QED
  BY <1>1, <1>2, <1>3, <1>4, <1>5, <1>6 DEF Next, AgentStep, Agent

\* No failure of the inspection is lost or raised before the inspector has heard of it.
THEOREM FailuresReachInspector == Spec => []FailuresAreReported
<1>1. PostInv => FailuresAreReported
  BY DEF PostInv
<1> QED
  BY <1>1, InitPostInv, NextKeepsPostInv, PTL DEF Spec

-------------------------------------------------------------------------------
\* A collector that works has been started, and only the loops of run wait.
TypeInv ==
    /\ TypeOK
    /\ at \in {"dhcp", "inventory", "gather"} => next # 0

WaitsOK == waits \in Nat /\ (waits = 0 \/ waits < Limit)

LEMMA SettingsAre ==
    /\ DOMAIN LanSettings = 1 .. 4
    /\ AllSettings = {"ipsrc", "ipaddr", "netmask", "defgw"}
    /\ \A i \in 1 .. 4 : LanSettings[i] \in AllSettings
<1>1. DOMAIN LanSettings = 1 .. 4
  BY DEF LanSettings
<1> QED
  BY <1>1 DEF AllSettings, LanSettings

\* There is nothing to wait for outside the loops.
LEMMA NotWaiting ==
    ASSUME TypeInv, at \notin {"load", "cache", "dhcp", "interface", "lookup"}
    PROVE  waits = 0
BY DEF TypeInv, TypeOK, Limit

LEMMA InitTypeInv == Init => TypeInv
<1>1. << >> \in Seq(Posts)
  BY EmptySeq
<1>2. Len(Collectors) \in Nat /\ 0 \in 0 .. Len(Collectors)
  BY CollectorsAssumption
<1>3. 1 \in DOMAIN LanSettings
  BY SettingsAre
<1>4. bmc \in {{}, {"ipaddr"}, AllSettings} => bmc \subseteq AllSettings
  BY SettingsAre
<1>5. Init => BmcTypeOK
  <2> SUFFICES ASSUME Init PROVE BmcTypeOK
    OBVIOUS
  <2>1. bmc \subseteq AllSettings
    BY <1>4 DEF Init, BmcInit
  <2>2. tries \in 0 .. Retries /\ setting \in DOMAIN LanSettings
    BY <1>3, RetriesAssumption DEF Init, BmcInit
  <2>3. hasSet \in BOOLEAN
    BY DEF Init, BmcInit
  <2> QED
    BY <2>1, <2>2, <2>3 DEF BmcTypeOK
<1>6. Init => InspectTypeOK
  BY <1>1, <1>2 DEF Init, InspectInit, InspectTypeOK
<1>7. NoNode \in Node
  BY DEF Node, NoNode
<1>8. Init => node \in Node /\ silent \in BOOLEAN
  BY <1>7 DEF Init
<1>9. Init => at \in At /\ waits = 0
  BY DEF Init, At, InspectInit
<1>10. 0 \in Nat
  OBVIOUS
<1> QED
  BY <1>5, <1>6, <1>8, <1>9, <1>10 DEF Init, TypeInv, TypeOK

\* The steps of the setter.
LEMMA SetterKeepsTypes ==
    ASSUME TypeInv, SetBmIpmi
    PROVE  BmcTypeOK' /\ data' \subseteq DataKeys /\ failures' \subseteq FailureKeys
           /\ at' \in {"bmc", "ipmitool", "has_set", "collect"}
           /\ at \in {"bmc", "ipmitool", "has_set"}
<1>0. /\ BmcTypeOK /\ data \subseteq DataKeys /\ failures \subseteq FailureKeys
  BY DEF TypeInv, TypeOK, InspectTypeOK
<1>1. CASE NothingToSet \/ AddressIsSet \/ TellInspector
  <2>1. UNCHANGED <<bmc, tries, setting>> /\ (hasSet' = hasSet \/ hasSet' = TRUE)
    BY <1>1 DEF NothingToSet, AddressIsSet, TellInspector
  <2>2. BmcTypeOK'
    BY <1>0, <2>1 DEF BmcTypeOK
  <2>3. data' = data \ {"set_ipmi"} \/ data' = data \cup {"set_ipmi"}
    BY <1>1 DEF NothingToSet, AddressIsSet, TellInspector
  <2>4. data' \subseteq DataKeys
    BY <1>0, <2>3 DEF DataKeys
  <2> QED
    BY <1>0, <1>1, <2>2, <2>4 DEF NothingToSet, AddressIsSet, TellInspector, Goto
<1>2. CASE AddressDiffers
  BY <1>0, <1>2, SettingsAre DEF AddressDiffers, Goto, BmcTypeOK
<1>3. CASE Ipmitool
  <2>1. LanSettings[setting] \in AllSettings
    BY <1>0, SettingsAre DEF BmcTypeOK
  <2>2. bmc' \subseteq AllSettings
    BY <1>0, <1>3, <2>1 DEF Ipmitool, BmcTypeOK
  <2>3. Len(LanSettings) = 4
    BY DEF LanSettings
  <2>4. setting' \in DOMAIN LanSettings
    BY <1>0, <1>3, <2>3, SettingsAre DEF Ipmitool, NextSetting, BmcTypeOK
  <2>5. at = "ipmitool" /\ at' \in {"ipmitool", "has_set"}
    BY <1>3 DEF Ipmitool, NextSetting, Goto
  <2> QED
    BY <1>0, <1>3, <2>2, <2>4, <2>5, SettingsAre DEF Ipmitool, BmcTypeOK
<1>4. CASE SetterFails
  <2>1. hasSet' \in BOOLEAN
    BY <1>0, <1>4 DEF SetterFails, BmcTypeOK
  <2>2. tries' \in 0 .. Retries
    BY <1>0, <1>4, RetriesAssumption DEF SetterFails, BmcTypeOK
  <2>3. data' \subseteq DataKeys /\ failures' \subseteq FailureKeys
    <3>1. /\ data' = data \ {"set_ipmi"}
          /\ failures' = failures \/ failures' = failures \cup {"ipmi_setter"}
      BY <1>4 DEF SetterFails
    <3> QED
      BY <1>0, <3>1 DEF FailureKeys
  <2> QED
    BY <1>0, <1>4, <2>1, <2>2, <2>3, SettingsAre DEF SetterFails, BmcTypeOK
<1> QED
  BY <1>1, <1>2, <1>3, <1>4 DEF SetBmIpmi

\* The steps of the inspection.
LEMMA InspectionKeepsTypeInv ==
    ASSUME TypeInv, RunInspection, UNCHANGED silent PROVE TypeInv'
<1>0. /\ BmcTypeOK /\ InspectTypeOK /\ node \in Node /\ at \in At /\ silent \in BOOLEAN
      /\ WaitsOK /\ posted \in Seq(Posts)
      /\ Len(Collectors) \in Nat /\ Collectors \in Seq(STRING)
  BY CollectorsAssumption DEF TypeInv, TypeOK, WaitsOK, InspectTypeOK
<1>1. TypeOK' <=> BmcTypeOK' /\ InspectTypeOK' /\ at' \in At /\ node' \in Node /\ WaitsOK'
  BY <1>0 DEF TypeOK, WaitsOK, At, Node
<1>2. node' = node
  BY DEF RunInspection
<1>3. waits' = 0 => WaitsOK'
  BY DEF WaitsOK
<1>4. Record \in Posts
  BY <1>0 DEF Record, InspectTypeOK, Posts
<1>5. CASE LoadCollectors \/ CollectorMissing
  <2>1. waits' = 0 /\ UNCHANGED bmcVars /\ at' \in {"collect", "post"}
    BY <1>5, NotWaiting DEF LoadCollectors, CollectorMissing, Goto
  <2>2. InspectTypeOK'
    <3>1. data' \subseteq DataKeys
      BY <1>0, <1>5 DEF LoadCollectors, CollectorMissing, InspectTypeOK
    <3>2. failures' \subseteq FailureKeys
      BY <1>5 DEF LoadCollectors, CollectorMissing, FailureKeys
    <3>3. next' \in 0 .. Len(Collectors)
      BY <1>0, <1>5 DEF LoadCollectors, CollectorMissing, InspectTypeOK
    <3>4. reraise' \in BOOLEAN /\ UNCHANGED <<posted, hostVars>>
      BY <1>0, <1>5 DEF LoadCollectors, CollectorMissing, InspectTypeOK
    <3> QED
      BY <1>0, <3>1, <3>2, <3>3, <3>4 DEF InspectTypeOK, hostVars
  <2> QED
    BY <1>0, <1>1, <1>2, <1>3, <2>1, <2>2 DEF TypeInv, BmcTypeOK, bmcVars, At
<1>6. CASE StartCollector
  <2>1. waits' = 0 /\ at' \in {"bmc", "dhcp", "gather"}
    BY <1>6, NotWaiting DEF StartCollector
  <2>2. next' = next + 1 /\ next' \in 0 .. Len(Collectors) /\ next' # 0
    BY <1>0, <1>6 DEF StartCollector, InspectTypeOK
  <2>3. InspectTypeOK'
    BY <1>0, <1>6, <2>2 DEF StartCollector, InspectTypeOK, hostVars
  <2>4. BmcTypeOK'
    BY <1>0, <1>6, RetriesAssumption DEF StartCollector, BmcTypeOK
  <2> QED
    BY <1>0, <1>1, <1>2, <1>3, <2>1, <2>2, <2>3, <2>4 DEF TypeInv, At
<1>7. CASE SetterCollects
  <2>1. BmcTypeOK' /\ data' \subseteq DataKeys /\ failures' \subseteq FailureKeys
        /\ at' \in {"bmc", "ipmitool", "has_set", "collect"}
        /\ at \in {"bmc", "ipmitool", "has_set"}
    BY <1>7, SetterKeepsTypes DEF SetterCollects
  <2>2. waits' = 0
    BY <1>7, <2>1, NotWaiting DEF SetterCollects
  <2>3. InspectTypeOK'
    BY <1>0, <1>7, <2>1 DEF SetterCollects, InspectTypeOK, hostVars
  <2> QED
    BY <1>0, <1>1, <1>2, <1>3, <2>1, <2>2, <2>3 DEF TypeInv, At
<1>8. CASE WaitForDhcp
  <2>1. UNCHANGED <<bmcVars, hostVars, inspectVars, failures>> /\ at = "dhcp"
        /\ at' \in {"dhcp", "inventory"}
    BY <1>8 DEF WaitForDhcp
  <2>2. WaitsOK'
    <3>1. CASE waits' = 0
      BY <1>3, <3>1
    <3>2. CASE /\ waits' = waits + 1 /\ at' = "dhcp"
               /\ DhcpPolls # 0 /\ waits + 1 # DhcpPolls
      BY <1>0, <2>1, <3>2, DhcpAssumption DEF WaitsOK, Limit
    <3> QED
      BY <1>8, <3>1, <3>2 DEF WaitForDhcp
  <2> QED
    BY <1>0, <1>1, <1>2, <2>1, <2>2
       DEF TypeInv, BmcTypeOK, InspectTypeOK, bmcVars, hostVars, inspectVars, At
<1>9. CASE CollectDefault \/ Gather \/ CollectorFails
  <2>1. Collectors[next] \in DataKeys /\ Collectors[next] \in FailureKeys
    <3>1. at \in {"dhcp", "inventory", "gather"}
      BY <1>9 DEF CollectDefault, Gather, CollectorFails, Goto
    <3>2. next \in 1 .. Len(Collectors)
      BY <1>0, <3>1 DEF TypeInv, InspectTypeOK
    <3> QED
      BY <1>0, <3>2 DEF Started, DataKeys, FailureKeys
  <2>2. at' = "collect" /\ waits' = 0 /\ UNCHANGED <<bmcVars, hostVars, next, reraise, posted>>
    BY <1>9, NotWaiting DEF CollectDefault, Gather, CollectorFails, Goto, inspectVars
  <2>3. data' \subseteq DataKeys /\ failures' \subseteq FailureKeys
    <3>1. data \subseteq DataKeys /\ failures \subseteq FailureKeys
      BY <1>0 DEF InspectTypeOK
    <3>2. CASE CollectDefault
      <4>1. /\ UNCHANGED failures
            /\ data' \subseteq data \cup {"inventory", "boot_interface", "root_disk"}
        BY <3>2 DEF CollectDefault
      <4> QED
        BY <3>1, <4>1 DEF DataKeys
    <3>3. CASE Gather
      <4>1. UNCHANGED failures /\ (data' = data \/ data' = data \cup {Collectors[next]})
        BY <3>3 DEF Gather
      <4> QED
        BY <2>1, <3>1, <4>1, Zenon
    <3>4. CASE CollectorFails
      <4>1. UNCHANGED data /\ failures' = failures \cup {Collectors[next]}
        BY <3>4 DEF CollectorFails, inspectVars
      <4> QED
        BY <2>1, <3>1, <4>1, Zenon
    <3> QED
      BY <1>9, <3>2, <3>3, <3>4
  <2> QED
    BY <1>0, <1>1, <1>2, <1>3, <2>2, <2>3
       DEF TypeInv, BmcTypeOK, InspectTypeOK, bmcVars, hostVars, At
<1>10. CASE AllCollected \/ RaiseIfNeeded(AfterInspection) \/ AnswerRaises
  <2>1. /\ waits' = 0 /\ UNCHANGED <<bmcVars, hostVars, inspectVars, failures>>
        /\ at' \in {"post", "inspection_failed", "crashed", "interface", "serve"}
    BY <1>10, NotWaiting DEF AllCollected, RaiseIfNeeded, AnswerRaises, AfterInspection,
                             Goto
  <2> QED
    BY <1>0, <1>1, <1>2, <1>3, <2>1
       DEF TypeInv, BmcTypeOK, InspectTypeOK, bmcVars, hostVars, inspectVars, At
<1>11. CASE Post \/ PostFails
  <2>1. /\ waits' = 0 /\ UNCHANGED <<bmcVars, hostVars, next, data, reraise, failures>>
        /\ at' \in {"posted", "crashed"}
    BY <1>11, NotWaiting DEF Post, PostFails, Goto
  <2>2. posted' \in Seq(Posts)
    <3>1. posted' \in {posted, Append(posted, Record)}
      BY <1>11 DEF Post, PostFails
    <3>2. Append(posted, Record) \in Seq(Posts)
      BY <1>0, <1>4, AppendProperties
    <3> QED
      BY <1>0, <3>1, <3>2
  <2> QED
    BY <1>0, <1>1, <1>2, <1>3, <2>1, <2>2
       DEF TypeInv, BmcTypeOK, InspectTypeOK, bmcVars, hostVars, At
<1> QED
  BY <1>5, <1>6, <1>7, <1>8, <1>9, <1>10, <1>11 DEF RunInspection, Inspect

\* One attempt of a loop that gives up after limit attempts.
LEMMA AttemptKeepsWaits ==
    ASSUME WaitsOK, NEW limit \in Nat, limit = Limit,
           \/ waits' = 0
           \/ waits' = waits + 1 /\ at' = at /\ limit # 0 /\ waits + 1 # limit
    PROVE  WaitsOK'
<1>1. CASE waits' = 0
  BY <1>1 DEF WaitsOK
<1>2. CASE waits' = waits + 1 /\ at' = at /\ limit # 0 /\ waits + 1 # limit
  <2>1. Limit' = Limit
    BY <1>2 DEF Limit
  <2> QED
    BY <1>2, <2>1 DEF WaitsOK
<1> QED
  BY <1>1, <1>2

\* The steps of run.
LEMMA RunKeepsTypeInv ==
    ASSUME TypeInv, UNCHANGED silent,
           \/ LoadManagers \/ WaitForInterface \/ ListHardwareInfo \/ NodeFound
           \/ NodeNotFound \/ LookupRaises \/ CacheNode \/ Configure \/ HardwareRaises
    PROVE  TypeInv'
<1>0. /\ BmcTypeOK /\ InspectTypeOK /\ node \in Node /\ at \in At /\ WaitsOK
      /\ silent \in BOOLEAN
  BY DEF TypeInv, TypeOK, WaitsOK
<1>1. UNCHANGED <<bmcVars, hostVars, inspectVars, failures>>
  BY DEF LoadManagers, CacheNode, WaitForDisks, WaitForInterface, ListHardwareInfo,
         NodeFound, NodeNotFound, LookupRaises, Configure, HardwareRaises
<1>2. BmcTypeOK' /\ InspectTypeOK'
  BY <1>0, <1>1 DEF BmcTypeOK, InspectTypeOK, bmcVars, hostVars, inspectVars
<1>3. node' \in Node
  BY <1>0 DEF LoadManagers, CacheNode, WaitForDisks, WaitForInterface, ListHardwareInfo,
         NodeFound, NodeNotFound, LookupRaises, Configure, HardwareRaises
<1>4. at' \in At \ {"dhcp", "inventory", "gather"}
  BY <1>0 DEF LoadManagers, CacheNode, WaitForDisks, AfterInspection, WaitForInterface,
         ListHardwareInfo, NodeFound, NodeNotFound, LookupRaises, Configure,
         HardwareRaises, Goto, At
<1>5. WaitsOK'
  <2>1. CASE LoadManagers \/ CacheNode
    <3>1. DiskWaits \in Nat /\ DiskWaits = Limit
      BY <2>1, WaitsAssumption DEF LoadManagers, CacheNode, WaitForDisks, Limit
    <3>2. \/ waits' = 0
          \/ waits' = waits + 1 /\ at' = at /\ DiskWaits # 0 /\ waits + 1 # DiskWaits
      BY <2>1 DEF LoadManagers, CacheNode, WaitForDisks
    <3> QED
      BY <1>0, <3>1, <3>2, AttemptKeepsWaits
  <2>2. CASE WaitForInterface
    <3>1. NicPolls \in Nat /\ NicPolls = Limit
      BY <2>2, WaitsAssumption DEF WaitForInterface, Limit
    <3>2. \/ waits' = 0
          \/ waits' = waits + 1 /\ at' = at /\ NicPolls # 0 /\ waits + 1 # NicPolls
      BY <2>2, WaitsAssumption DEF WaitForInterface
    <3> QED
      BY <1>0, <3>1, <3>2, AttemptKeepsWaits
  <2>3. CASE NodeNotFound
    <3>1. LookupTries \in Nat /\ LookupTries = Limit
      BY <2>3, WaitsAssumption DEF NodeNotFound, Limit
    <3>2. \/ waits' = 0
          \/ waits' = waits + 1 /\ at' = at /\ LookupTries # 0 /\ waits + 1 # LookupTries
      BY <2>3, WaitsAssumption DEF NodeNotFound
    <3> QED
      BY <1>0, <3>1, <3>2, AttemptKeepsWaits
  <2>4. CASE ListHardwareInfo \/ NodeFound \/ LookupRaises \/ Configure \/ HardwareRaises
    <3>1. waits' = 0
      BY <2>4, NotWaiting DEF ListHardwareInfo, NodeFound, LookupRaises, Configure,
                              HardwareRaises, Goto
    <3> QED
      BY <3>1 DEF WaitsOK
  <2> QED
    BY <2>1, <2>2, <2>3, <2>4
<1> QED
  BY <1>0, <1>2, <1>3, <1>4, <1>5 DEF TypeInv, TypeOK, WaitsOK

LEMMA NextKeepsTypeInv ==
    ASSUME TypeInv, [Next]_vars PROVE TypeInv'
<1>0. /\ BmcTypeOK /\ InspectTypeOK /\ node \in Node /\ at \in At /\ WaitsOK
      /\ silent \in BOOLEAN
  BY DEF TypeInv, TypeOK, WaitsOK
<1>1. CASE AgentStep
  BY <1>1, InspectionKeepsTypeInv, RunKeepsTypeInv DEF AgentStep, Agent
<1>2. CASE PeerSilent
  <2>1. BmcTypeOK' /\ InspectTypeOK'
    BY <1>0, <1>2 DEF PeerSilent, bmcVars, hostVars, inspectVars, BmcTypeOK, InspectTypeOK
  <2>2. WaitsOK'
    BY <1>0, <1>2 DEF PeerSilent, WaitsOK, Limit
  <2> QED
    BY <1>0, <1>2, <2>1, <2>2 DEF PeerSilent, inspectVars, TypeInv, TypeOK, WaitsOK
<1>3. CASE DiskAppears \/ NicComesUp
  <2>1. UNCHANGED <<bmcVars, settings, inspectVars, failures, waits, at, node, silent>>
    BY <1>3 DEF DiskAppears, NicComesUp
  <2>2. disks' \subseteq Disks
    BY <1>0, <1>3 DEF DiskAppears, NicComesUp, InspectTypeOK
  <2>3. nics' \in [Nics -> {"absent", "up", "addressed"}]
    BY <1>0, <1>3 DEF DiskAppears, NicComesUp, InspectTypeOK
  <2>4. InspectTypeOK' /\ BmcTypeOK'
    BY <1>0, <2>1, <2>2, <2>3 DEF InspectTypeOK, BmcTypeOK, bmcVars, inspectVars
  <2>5. WaitsOK'
    BY <1>0, <2>1 DEF WaitsOK, Limit
  <2> QED
    BY <1>0, <2>1, <2>4, <2>5 DEF TypeInv, TypeOK, WaitsOK, inspectVars
<1>4. CASE Restart
  <2>1. << >> \in Seq(Posts)
    BY EmptySeq
  <2>2. Len(Collectors) \in Nat
    BY CollectorsAssumption
  <2>3. InspectTypeOK'
    <3>1. data' \subseteq DataKeys /\ failures' \subseteq FailureKeys
      BY <1>4 DEF Restart
    <3>2. posted' \in Seq(Posts)
      BY <1>4, <2>1 DEF Restart
    <3>3. next' \in 0 .. Len(Collectors)
      BY <1>4, <2>2 DEF Restart
    <3>4. reraise' \in BOOLEAN /\ UNCHANGED hostVars
      BY <1>4 DEF Restart
    <3> QED
      BY <1>0, <3>1, <3>2, <3>3, <3>4 DEF InspectTypeOK, hostVars
  <2>4. BmcTypeOK'
    BY <1>0, <1>4, SettingsAre, RetriesAssumption DEF Restart, BmcTypeOK
  <2> QED
    BY <1>0, <1>4, <2>3, <2>4 DEF Restart, TypeInv, TypeOK, At, Node, NoNode
<1>5. CASE UNCHANGED vars
  <2>1. BmcTypeOK' /\ InspectTypeOK'
    BY <1>0, <1>5 DEF vars, bmcVars, hostVars, inspectVars, BmcTypeOK, InspectTypeOK
  <2>2. WaitsOK'
    BY <1>0, <1>5 DEF vars, WaitsOK, Limit
  <2> QED
    BY <1>0, <1>5, <2>1, <2>2 DEF vars, inspectVars, TypeInv, TypeOK, WaitsOK
<1> QED
  BY <1>1, <1>2, <1>3, <1>4, <1>5 DEF Next

\* What run, the inspection and the setter store is of its type, and each of the waits
\* stays below the attempts it is given.
THEOREM TypeCorrect == Spec => []TypeOK
<1>1. TypeInv => TypeOK
  BY DEF TypeInv
<1> QED
  BY <1>1, InitTypeInv, NextKeepsTypeInv, PTL DEF Spec
===============================================================================
