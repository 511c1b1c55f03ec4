\* The indexer against crashes, failing requests and writes, and answers at their limit.
SPECIFICATION IndexerSpec
CONSTANTS
    Positions = {1}
    PageLimit = 2
    MaxEvents = 3
    MaxLedger = 3
    MaxCrashes = 1
INVARIANTS
    IndexerTypeOK
    NothingSkipped
    TablesTell
PROPERTY
    EventuallyHandled
CHECK_DEADLOCK FALSE
