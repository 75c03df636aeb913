SPECIFICATION Spec
CONSTANTS
    Plans <- MCPlans
    Responses <- MCResponses
    SendErrors = {"Timeout", "WireError"}
    Timeout = 2
    Durations = {2}
INVARIANTS
    EveryExchangeIsDue
    FirstGoodAnswerIsKept
    KeptAndReportedAreFinal
    EverySetSettledOnce
PROPERTY
    ImplementsRunPromise
