CONSTANTS
    c1 = c1
    c2 = c2
    NoneV = NoneV
    None <- NoneV
    Callers = {c1, c2}
    OptsSet <- MCOptsSet
    BaseFees <- MCBaseFees
    Tips = {2}
    Prices = {2}
    Estimate = 21
    Replace = FALSE
SPECIFICATION Spec
\* Each caller makes one call; the system stops when both have returned.
CHECK_DEADLOCK FALSE
INVARIANTS
    TypeOK
    TxTypeFollowsOpts
    NoNonceGap
