\* Two images, so that one can replace the other, and two urls each.
SPECIFICATION Spec
CONSTANTS
    i1 = i1
    i2 = i2
    NoImage = NoImage
    Images <- MCImages
    NumUrls = 2
INVARIANTS
    TypeOK
    NoFalseSuccess
    UuidsOfCachedImage
PROPERTIES
    CachedWhenWritten
