\* The loops of the keeper against a chain that changes under them.
SPECIFICATION KeeperSpec
CONSTANTS
    alice = alice
    bob = bob
    Positions = {1, 2, 3}
    TraderOf <- MCTraderOf
    Reachable = {2}
    MaxTracked = 2
    MaxLedger = 2
INVARIANTS
    KeeperTypeOK
    PassIsComplete
PROPERTIES
    NoneForgotten
    UnderwaterIsSubmitted
    KeeperStops
CHECK_DEADLOCK FALSE
