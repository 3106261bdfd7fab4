CONSTANTS
    r = r
    d1 = d1
    d2 = d2
    d3 = d3
    NoDevice = NoDevice
    OtherObject = OtherObject
    DevSeq <- MCDevSeq
    RootCores = 3
    Counts <- MCCounts
    Capacities <- MCCapacities
    MaxRefs = 2
    MAX_PARTITION_PROPS = 4
    InfoSizes <- MCInfoSizes
    PTR_SIZE = 8
    MAX_WORK_DIMS = 3
    STRING_LEN = 8

SPECIFICATION Spec

INVARIANT OutDevicesInBounds
