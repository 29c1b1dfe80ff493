SPECIFICATION Spec
CONSTANTS
    Disks = {d1, vm}
    VirtualMedia = {vm}
    NoDisk = NoDisk
    NullMeans = "NULL"
    MaxFaults = 1
PROPERTIES
    CleaningRecovers
