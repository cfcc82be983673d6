CONSTANTS
    k1 = k1
    k2 = k2
    k3 = k3
    k4 = k4
    k5 = k5
    Keys <- MCKeys
    ValueLen <- OversizeLen
    MaxSize = 7
SPECIFICATION Spec
PROPERTY
    EvictedMeansRemoved
