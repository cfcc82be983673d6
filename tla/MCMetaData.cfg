CONSTANTS
    Callers = {c1, c2, c3}
    MaxCalls = 2
    None = None
SPECIFICATION Spec
\* Each goroutine makes MaxCalls calls; the model stops when all are done.
CHECK_DEADLOCK FALSE
INVARIANTS
    TypeOK
    AbiParsedOnce

