------------------------------ MODULE Deployment ------------------------------
(***************************************************************************)
(* The contracts as scripts/deploy.sh leaves them: initialized by one      *)
(* deployer and wired to each other, no liquidity and no price yet; and as *)
(* they are half-way, before the position manager's initialize.  A run     *)
(* that needs no other way there starts in one of these states, which      *)
(* PmSpec reaches by the calls of the script.                              *)
(***************************************************************************)
EXTENDS PositionManager

CONSTANTS
    Deployer,           \* the admin of all contracts
    Engine,             \* the liquidation engine registered
    Funding,            \* the funding contract registered
    Utilization,        \* the configuration the script passes
    Staleness,
    OpenFee, CloseFee, MaxLeverage, MinCollateral

Deployed ==
    /\ vaultConfig = [admin |-> Deployer, maxUtilization |-> Utilization,
                      positionManager |-> PmAddr]
    /\ totalShares = 0 /\ totalDeposits = 0 /\ lockedLiquidity = 0
    /\ shareBalance = [a \in Accounts |-> 0]
    /\ usdc = [h \in Holders |-> IF h = VaultAddr THEN 0 ELSE InitialUsdc[h]]
    /\ oracleConfig = [admin |-> Deployer, stalenessThreshold |-> Staleness]
    /\ cachedPrice = [asset \in Assets |-> NoPrice]
    /\ liveUntil = [asset \in Assets |-> -1]
    /\ sequence = 0
    /\ now = 0
    /\ pmConfig = [admin |-> Deployer, openFeeBps |-> OpenFee, closeFeeBps |-> CloseFee,
                   maxLeverage |-> MaxLeverage, minCollateral |-> MinCollateral,
                   liquidationEngine |-> Engine, funding |-> Funding]
    /\ positions = << >>
    /\ nextPositionId = 1
    /\ openInterest = [d \in Directions |-> 0]
    /\ positionCount = [a \in Accounts |-> 0]
    /\ uncoveredFees = 0
    /\ otherLocked = 0
    /\ otherHeld = 0

DeployedSpec == Deployed /\ [][PmNext]_allVars

HalfDeployed ==
    /\ vaultConfig = [admin |-> Deployer, maxUtilization |-> Utilization,
                      positionManager |-> NoAddress]
    /\ totalShares = 0 /\ totalDeposits = 0 /\ lockedLiquidity = 0
    /\ shareBalance = [a \in Accounts |-> 0]
    /\ usdc = [h \in Holders |-> IF h = VaultAddr THEN 0 ELSE InitialUsdc[h]]
    /\ oracleConfig = [admin |-> Deployer, stalenessThreshold |-> Staleness]
    /\ cachedPrice = [asset \in Assets |-> NoPrice]
    /\ liveUntil = [asset \in Assets |-> -1]
    /\ sequence = 0
    /\ now = 0
    /\ PmInit

HalfDeployedSpec == HalfDeployed /\ [][PmNext]_allVars
===============================================================================
