\* Flows of up to two steps of any kind, nested flows of up to two steps, and
\* up to three commands: a flow after a flow that failed half-way is included.
SPECIFICATION FlowSpec
CONSTANTS
    Outer = Outer
    NoCaller = NoCaller
    MaxResults = 3
    MaxSteps = 2
    Callers <- MCCallers
    Steps <- MCSteps
CHECK_DEADLOCK FALSE
INVARIANTS
    FlowTypeOK
    NothingLeftRunning
    NestedFlowRunsNothing
    FlowStopsAtFailure
    StepsDoNotOverlap
PROPERTIES
    FlowsEnd
