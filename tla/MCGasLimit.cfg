\* 8-bit words, divisor 4, minimum 8; the cap keeps gas limits below 2^(W-1)
CONSTANTS
    W = 8
    GasLimitBoundDivisor = 4
    MinGasLimit = 8
    MaxGasLimit = 127
    GenesisLimits = {8, 100}
SPECIFICATION Spec
INVARIANT
    TypeOK
PROPERTY
    GasLimitStep
