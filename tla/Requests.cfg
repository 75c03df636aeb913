SPECIFICATION Spec
CONSTANTS
    CommandLines <- MCCommandLines
    Builds <- MCBuilds
    Usable <- MCUsable
    HostsFiles <- MCHostsFiles
    Files <- MCFiles
    MAX_LABEL = 63
    MAX_NAME = 255
    MAX_NAMESERVERS = 3
INVARIANTS
    EveryArgumentCounts
    SystemFilesAreFollowed
    SetsAreTheProduct
