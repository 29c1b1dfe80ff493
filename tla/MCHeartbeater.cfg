\* The delays of the code, in tenths of a second, and the heartbeat_timeout
\* of 300 seconds that Ironic sends by default.
SPECIFICATION HBSpec
CONSTANTS
    Forcers <- MCForcers
    ReadsText = TRUE
    InitialDelay = 10
    MaxDelay = 3000
    HeartbeatTimeout = 3000
    Multipliers <- MCMultipliers
CHECK_DEADLOCK FALSE
INVARIANTS
    ErrorDelayIsUsed
