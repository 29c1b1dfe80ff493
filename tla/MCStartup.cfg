SPECIFICATION Spec
CONSTANTS
    Retries = 1
    Collectors <- CollectorsDef
    Disks <- DisksDef
    MinSize = 4
    Nics = {boot, other}
    BootNic = boot
    DhcpPolls = 2
    DiskWaits = 2
    NicPolls = 2
    LookupTries = 2
CHECK_DEADLOCK FALSE
INVARIANTS
    TypeOK
    FailuresAreReported
    HasSetIsTrue
PROPERTIES
    StartupSettles
