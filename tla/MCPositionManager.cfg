\* The position manager with the vault and the oracle it calls, from its initialize on.
SPECIFICATION HalfDeployedSpec
CONSTANTS
    lp = lp
    trader = trader
    deployer = deployer
    Deployer = deployer
    Engine = LeAddr
    Funding = FrAddr
    MaxLeverage = 3
    MinCollateral = 1
    xlm = xlm
    LeAddr = LeAddr
    OtherPm = OtherPm
    FrAddr = FrAddr
    PmAddr = PmAddr
    VaultAddr = VaultAddr
    NoAddress = NoAddress
    Admins = {deployer}
    Accounts = {lp, trader}
    PositionManagers = {PmAddr, OtherPm}
    LiquidationEngines = {LeAddr}
    FundingContracts = {FrAddr}
    InitialUsdc <- MCInitialUsdc
    LpAmounts = {20}
    MaxUtilizations = {8000}
    ManagerAmounts = {20}
    ManagerPnls = {0}
    MaxDeposits = 20
    MaxLocked = 20
    MaxShares = 40
    Assets = {xlm}
    Prices = {3, 5}
    StalenessThresholds = {1}
    TtlThreshold = 2
    TtlExtend = 4
    LedgerTimes = {1}
    MaxTime = 0
    Utilization = 8000
    OpenFee = 1000
    CloseFee = 1000
    Staleness = 1
    Collaterals = {5}
    Leverages = {2}
    FeeRates = {1000}
    MaxLeverages = {3}
    MinCollaterals = {1}
    MaxPositionId = 2
    U32Range = 1073741824
INVARIANTS
    PmTypeOK
    LockedIsOpenNotional
    OpenInterestExact
    PositionCountExact
    Backing
    ExitOnlyNeedsEquity
PROPERTIES
    CoverageKept
    ImplementsLedger
