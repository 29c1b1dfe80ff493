SPECIFICATION Spec
CONSTANTS
    Managers <- ManagersDef
    MaxSupport = 2
    NoAnswer = NoAnswer
    Nodes = {n1, n2}
    NoNode = NoNode
    Steps = {erase}
    Priorities <- PrioritiesDef
    Versions = {v1, v2}
    NoVersion = NoVersion
INVARIANTS
    TypeOK
    CycleUsesOneVersion
    StepRunsForItsNode
PROPERTIES
    DeduplicationIsRight
