\* The vault under an arbitrary position manager.
SPECIFICATION VaultSpec
CONSTANTS
    alice = alice
    bob = bob
    admin = admin
    NoAddress = NoAddress
    Admins = {admin}
    Accounts = {alice, bob}
    VaultAddr = VaultAddr
    PositionManagers = {PmAddr}
    PmAddr = PmAddr
    InitialUsdc <- MCInitialUsdc
    LpAmounts = {0, 1, 2, 3}
    MaxUtilizations = {0, 5000, 8000}
    MaxShares = 8
    ManagerAmounts = {0, 1, 2}
    ManagerPnls <- MCManagerPnls
    MaxDeposits = 7
    MaxLocked = 4
    U32Range = 1073741824
INVARIANTS
    VaultTypeOK
    SharesBacked
PROPERTIES
    NoDilution
    WithdrawalKeepsCover
