SPECIFICATION Spec
CONSTANTS
    TheRequest <- MCRequest
    Frames <- MCFrames
    MaxFrames = 4
    StatusIn <- MCStatus
    Decode <- MCDecode
    PriorityLength = 1
    MAX_FRAME = 5
    MAX_BODY = 2
    IoErrors = {"TruncatedResponse", "Timeout", "NetworkError"}
INVARIANTS
    AnswerIsTheWholeResponse
    RepliesKeepUp
    OtherStreamsAreIgnored
    HeadersReadBack
    OnlyCodesDecode
    RequestsSayTheSame
PROPERTY
    ImplementsHttpResponse
