SPECIFICATION Spec
CONSTANTS
    TheRequest <- MCRequest
    Responses <- MCResponses
    BlankLine <- MCBlankLine
    Parse <- MCParse
    Decode <- MCDecode
    MAX_HEAD = 4
    MAX_BODY = 2
    Buffer = 3
    IoErrors = {"Timeout", "NetworkError"}
INVARIANTS
    OutcomeIgnoresThePieces
    TruncatedMeansCutShort
    ReadingIsBounded
PROPERTY
    ImplementsHttpResponse
