\* The instance of MCStandby, against what prepare_image promises.
SPECIFICATION Spec
CONSTANTS
    i1 = i1
    i2 = i2
    NoImage = NoImage
    Images <- MCImages
    NumUrls = 2
INVARIANTS
    PreparedIsOnDevice
