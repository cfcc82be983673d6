\* A channel of 2 slots and up to 3 logs of two events or none: results
\* that fit, and one that fills the channel with a log still to send.
CONSTANTS
    Cap = 2
    MaxLogs = 3
    None = None
    Transfer = Transfer
    Approval = Approval
    EventIDs = {Transfer, Approval}
    Selector = Transfer
    NoTopic = NoTopic
SPECIFICATION Spec
\* FilterLogs may fail and the caller may stop at any point.
CHECK_DEADLOCK FALSE
INVARIANTS
    TypeOK
    DrainedHasAll
    DeliveredInOrder
    DeliveredLogsUnpack
PROPERTIES
    LeakFreeWhenFits
    UnsubscribeReturns
