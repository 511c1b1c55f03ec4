\* Whether a liquidated position is shown as one.
SPECIFICATION IndexerSpec
CONSTANTS
    Positions = {1}
    PageLimit = 2
    MaxEvents = 3
    MaxLedger = 3
    MaxCrashes = 1
INVARIANT
    LiquidationShown
CHECK_DEADLOCK FALSE
