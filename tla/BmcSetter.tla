------------------------------- MODULE BmcSetter -------------------------------
(***************************************************************************)
(* The collector ipmi_setter: it gives the BMC the address the inspector   *)
(* has for it, one ipmitool command per setting, and tells the inspector   *)
(* when it has.  Whatever fails, all of it is tried again.                 *)
(***************************************************************************)
EXTENDS Naturals, Sequences

CONSTANT Retries    \* retry of set_bm_ipmi

ASSUME RetriesAssumption == Retries \in Nat

VARIABLES
    bmc,       \* the settings in which the BMC is as the inspector wants it
    hasSet,    \* has the inspector heard has_set
    tries,     \* retry: how many retries are left
    setting,   \* the next of the commands
    at,        \* where the main thread of the agent is
    data,      \* the keys of data; set_ipmi if data['set_ipmi']['result'] is True
    failures   \* AccumulatedFailures

bmcVars == <<bmc, hasSet, tries, setting>>

LanSettings == <<"ipsrc", "ipaddr", "netmask", "defgw">>
AllSettings == {LanSettings[i] : i \in DOMAIN LanSettings}

\* The BMC has none of the settings, all, or only the address, from DHCP.
BmcInit ==
    /\ bmc \in {{}, {"ipaddr"}, AllSettings}
    /\ hasSet = FALSE
    /\ tries = Retries
    /\ setting = 1

BmcTypeOK ==
    /\ bmc \subseteq AllSettings
    /\ hasSet \in BOOLEAN
    /\ tries \in 0 .. Retries
    /\ setting \in DOMAIN LanSettings

Goto(from, to) == at = from /\ at' = to

-------------------------------------------------------------------------------
\* The inspector has nothing for this serial number.
NothingToSet ==
    /\ Goto("bmc", "collect")
    /\ data' = data \ {"set_ipmi"}
    /\ UNCHANGED <<bmc, hasSet, tries, setting, failures>>

\* The BMC has the address: nothing else is compared.
AddressIsSet ==
    /\ Goto("bmc", "collect")
    /\ "ipaddr" \in bmc
    /\ data' = data \cup {"set_ipmi"}
    /\ UNCHANGED <<bmc, hasSet, tries, setting, failures>>

\* get_bmc_address finds another address, or none although there is one.
AddressDiffers ==
    /\ Goto("bmc", "ipmitool")
    /\ data' = data \ {"set_ipmi"}
    /\ setting' = 1
    /\ UNCHANGED <<bmc, hasSet, tries, failures>>

NextSetting ==
    IF setting = Len(LanSettings) THEN Goto("ipmitool", "has_set") /\ UNCHANGED setting
                                  ELSE at = "ipmitool" /\ setting' = setting + 1
                                       /\ UNCHANGED at

\* Mutant: a command that fails is passed over.
IpmitoolOrWarn ==
    /\ NextSetting
    /\ bmc' \in {bmc, bmc \cup {LanSettings[setting]}}
    /\ UNCHANGED <<hasSet, tries, data, failures>>

Ipmitool ==
    /\ NextSetting
    /\ bmc' = bmc \cup {LanSettings[setting]}
    /\ UNCHANGED <<hasSet, tries, data, failures>>

TellInspector ==
    /\ Goto("has_set", "collect")
    /\ hasSet' = TRUE
    /\ data' = data \cup {"set_ipmi"}
    /\ UNCHANGED <<bmc, tries, setting, failures>>

\* An exception, wherever it was raised: start over 60 seconds later, or give up.
\* has_set may have arrived although its post failed.
SetterFails ==
    /\ at \in {"bmc", "ipmitool", "has_set"}
    /\ hasSet' \in {hasSet} \cup {at = "has_set" \/ hasSet}
    /\ data' = data \ {"set_ipmi"}
    /\ IF tries > 0 THEN /\ at' = "bmc" /\ tries' = tries - 1
                         /\ UNCHANGED failures
                    ELSE /\ at' = "collect" /\ UNCHANGED tries
                         /\ failures' = failures \cup {"ipmi_setter"}
    /\ UNCHANGED <<bmc, setting>>

SetBmIpmi ==
    NothingToSet \/ AddressIsSet \/ AddressDiffers \/ Ipmitool \/ TellInspector
        \/ SetterFails
===============================================================================
