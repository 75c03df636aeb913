SPECIFICATION Spec
CONSTANTS
    TheRequest <- MCRequest
    Datagrams <- MCDatagrams
    Timeout = 2
    Lag = 1
    Horizon = 4
    MaxArrivals = 3
    SocketErrors = {"ConnectionRefused"}
INVARIANTS
    FirstDecisiveDatagramDecides
    NoWaitPastDeadline
PROPERTY
    ImplementsAttempt
