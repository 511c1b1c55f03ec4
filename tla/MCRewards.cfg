\* Whether a liquidation pays the keeper.
SPECIFICATION PerpsSpec
CONSTANTS
    user = user
    keeper = keeper
    deployer = deployer
    xlm = xlm
    btc = btc
    FrAddr = FrAddr
    OtherPm = OtherPm
    LeAddr = LeAddr
    Keepers = {keeper}
    PmAddr = PmAddr
    VaultAddr = VaultAddr
    NoAddress = NoAddress
    Admins = {deployer}
    Accounts = {user, keeper}
    PositionManagers = {PmAddr}
    LiquidationEngines = {LeAddr}
    FundingContracts = {FrAddr}
    InitialUsdc <- MCInitialUsdc
    LpAmounts = {16}
    MaxUtilizations = {10000}
    ManagerAmounts = {}
    ManagerPnls = {}
    MaxDeposits = 0
    MaxLocked = 0
    MaxShares = 16
    Assets = {xlm}
    Prices = {2, 3}
    StalenessThresholds = {1}
    TtlThreshold = 2
    TtlExtend = 4
    LedgerTimes = {1}
    MaxTime = 2
    Collaterals = {5}
    Leverages = {2}
    FeeRates = {1000}
    MaxLeverages = {3}
    MinCollaterals = {1}
    MaxPositionId = 1
    U32Range = 1073741824
    MaintenanceMargins = {3000}
    Penalties = {2500}
    KeeperRewards = {2000}
    FundingIntervals = {1}
    MaxRates = {2000}
    Spreads = {5}
    OpenInterests <- MCOpenInterests
PROPERTY
    KeeperIsRewarded
