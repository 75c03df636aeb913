SPECIFICATION Spec
CONSTANTS
    TheRequest <- MCRequest
    RequestLength = 4
    Base = 2
    Replies <- MCReplies
    Decode <- MCDecode
    Timeout = 2
    Lag = 1
    Horizon = 4
    IoErrors = {"ConnectionReset", "WriteZero"}
INVARIANTS
    ReadsExactlyTheFrame
    TruncatedMeansCutShort
    NoWaitPastDeadline
PROPERTY
    ImplementsAttempt
