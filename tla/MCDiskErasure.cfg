SPECIFICATION Spec
CONSTANTS
    Disks = {d1, d2, vm}
    VirtualMedia = {vm}
    NoDisk = NoDisk
    NullMeans = "NULL"
    MaxFaults = 2
INVARIANTS
    TypeOK
    SuccessMeansErased
    CleanedIsUsable
PROPERTIES
    ErasureRecovers
