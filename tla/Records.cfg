CONSTANTS
    Messages <- MCMessages
    TotalMax = 767
    ReadLabels <- MCReadLabels
    AsSeconds = FALSE
    Earlier <- MCEarlier
    Shapes <- MCShapes
    SendErrors <- MCSendErrors

SPECIFICATION PrintSpec

INVARIANTS
    RecordsEndWhereStated
    EntriesAsCounted
    MessagesReadBack
    RowsTellTheRecords
    JsonLeavesNothingOut
    ErrorsSayWhatIsWrong
    TextsTellApart
