\* Two commands: the thread of one may still be ending while the next, which
\* may be finalize_rescue, runs.  Delays are one value each: no property of this
\* run depends on how long the thread waits.
SPECIFICATION ServiceSpec
CONSTANTS
    Main = Main
    NoCaller = NoCaller
    MaxResults = 2
    Callers <- MCCallers
    Forcers <- Ids
    ReadsText = TRUE
    InitialDelay = 1
    MaxDelay = 1
    HeartbeatTimeout = 10
    Multipliers <- MCMultipliers
CHECK_DEADLOCK FALSE
INVARIANTS
    ServiceTypeOK
PROPERTIES
    NoLostWakeup
    HeartbeatsWhileListening
    NoForeignShutdown
    AgentExits
