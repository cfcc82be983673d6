CONSTANTS
    c1 = c1
    c2 = c2
    None = None
    Callers = {c1, c2}
    CallKinds = {"pending", "hash", "number", "latest"}
    HasPending = {c1}
    HasBlockHash = {c1}
    HasOutputs = TRUE
    MaxHeight = 3
SPECIFICATION Spec
\* Both calls return and the chain reaches its bound: the model stops there.
CHECK_DEADLOCK FALSE
INVARIANT
    CallNoCodeAccurate
