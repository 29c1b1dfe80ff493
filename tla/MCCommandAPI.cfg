\* The server handles one request at a time.  Three commands: the newest, one
\* that is finished, and one that can be refused or accepted in between; every
\* interleaving of the command threads with the field-by-field reads.
SPECIFICATION APISpec
CONSTANTS
    server = server
    NoCaller = NoCaller
    MaxResults = 3
    Callers <- MCCallers
CHECK_DEADLOCK FALSE
INVARIANTS
    APITypeOK
    AtMostOneRunning
    FinishedViewIsComplete
    OnlyNewestShownRunning
    WaitedForFinished
PROPERTIES
    ImplementsLog
    FinalResultsAreStable
    RequestsAnswered
