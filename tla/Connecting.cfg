SPECIFICATION Spec
CONSTANTS
    Protocols = {"udp", "tcp", "tls", "https"}
    Nameservers <- MCNameservers
    MaxAddresses = 2
    OpenErrors = {"ConnectionRefused", "TimedOut"}
    Timeout = 3
    Lag = 1
    Horizon = 5
    Texts <- MCTexts
    Hosts <- MCHosts
INVARIANTS
    AddressesInTurn
    NoWaitPastDeadline
    AddressesReadBack
PROPERTIES
    Settles
