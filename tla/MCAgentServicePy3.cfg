\* The instance of MCAgentService under Python 3, where os.read returns bytes.
SPECIFICATION ServiceSpec
CONSTANTS
    Main = Main
    NoCaller = NoCaller
    MaxResults = 1
    Callers <- MCCallers
    Forcers <- Ids
    ReadsText = FALSE
    InitialDelay = 1
    MaxDelay = 1
    HeartbeatTimeout = 10
    Multipliers <- MCMultipliers
CHECK_DEADLOCK FALSE
PROPERTIES
    AgentExits
