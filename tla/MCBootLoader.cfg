SPECIFICATION Spec
INVARIANTS
    TypeOK
    InstanceIsKept
    SuccessIsComplete
    DeviceIsReleased
