\* A close whose fee exceeds what the collateral covers.
SPECIFICATION DeployedSpec
CONSTANTS
    lp = lp
    trader = trader
    deployer = deployer
    Deployer = deployer
    Engine = LeAddr
    Funding = FrAddr
    MaxLeverage = 3
    MinCollateral = 1
    xlm = xlm
    LeAddr = LeAddr
    OtherPm = OtherPm
    FrAddr = FrAddr
    PmAddr = PmAddr
    VaultAddr = VaultAddr
    NoAddress = NoAddress
    Admins = {deployer}
    Accounts = {lp, trader}
    PositionManagers = {PmAddr}
    LiquidationEngines = {LeAddr}
    FundingContracts = {FrAddr}
    InitialUsdc <- MCInitialUsdc
    LpAmounts = {20}
    MaxUtilizations = {8000}
    ManagerAmounts = {}
    ManagerPnls = {}
    MaxDeposits = 0
    MaxLocked = 0
    MaxShares = 80
    Assets = {xlm}
    Prices = {2, 3, 4}
    StalenessThresholds = {1}
    TtlThreshold = 2
    TtlExtend = 4
    LedgerTimes = {1}
    MaxTime = 0
    Utilization = 8000
    OpenFee = 1000
    CloseFee = 1000
    Staleness = 1
    Collaterals = {5}
    Leverages = {2}
    FeeRates = {1000}
    MaxLeverages = {3}
    MinCollaterals = {1}
    MaxPositionId = 2
    U32Range = 1073741824
INVARIANT
    DepositsNotInflated
