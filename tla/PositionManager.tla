---------------------------- MODULE PositionManager ----------------------------
(***************************************************************************)
(* The position manager (contracts/position-manager).  A trader opens a    *)
(* leveraged position by posting collateral to the vault, which locks the  *)
(* position's notional; closing it settles the profit or loss at the       *)
(* oracle's price.  The liquidation engine may close it by force.          *)
(*                                                                         *)
(* The vault and the oracle it calls are the modules Vault and             *)
(* OracleAdapter, whose variables it shares; an error in either fails the  *)
(* whole transaction, so the guards of the callee are guards of the        *)
(* caller.  The vault's administrator may register another contract in     *)
(* this one's place, with positions open, and register this one again;     *)
(* what the other does then is whatever VaultEnv lets a manager do.        *)
(***************************************************************************)
EXTENDS VaultEnv, OracleAdapter

CONSTANTS
    PmAddr,                 \* the address of this contract
    LiquidationEngines,     \* addresses set_liquidation_engine may be called with
    FundingContracts,       \* addresses set_funding_address may be called with
    Collaterals,            \* arguments of open_position
    Leverages,
    FeeRates,               \* arguments of initialize and set_fee_rates
    MaxLeverages,           \* arguments of initialize and set_max_leverage
    MinCollaterals,         \* arguments of initialize
    MaxPositionId           \* bound of the model: positions ever opened

ASSUME PositionManagerAssumption ==
    /\ NoAddress \notin LiquidationEngines
    /\ Collaterals \subseteq Int
    /\ Leverages \subseteq Nat
    /\ FeeRates \subseteq Nat
    /\ MaxLeverages \subseteq Nat
    /\ MinCollaterals \subseteq Int
    /\ MaxPositionId \in Nat

VARIABLES
    pmConfig,           \* instance storage: admin, fees, limits, liquidation engine
    positions,          \* persistent storage: the open positions by id
    nextPositionId,
    openInterest,       \* the open interest of each direction
    positionCount,      \* persistent storage: the number of positions of a trader
    uncoveredFees,      \* history: fees credited to the pool that nobody paid
    otherLocked,        \* history: liquidity other managers locked, less what they unlocked
    otherHeld           \* history: USDC other managers brought beyond what they credited

pmVars == <<pmConfig, positions, nextPositionId, openInterest, positionCount,
            uncoveredFees>>

otherVars == <<otherLocked, otherHeld>>

\* The key of a position is its trader and its id.  Ids are never used twice, so
\* the id alone identifies it here and the trader is a field of the record.
Position == [trader : Accounts, asset : Assets, direction : Directions,
             size : Nat \ {0}, collateral : Nat \ {0}, entryPrice : Nat \ {0}]

PmInit ==
    /\ pmConfig = [admin |-> NoAddress, openFeeBps |-> 10, closeFeeBps |-> 10,
                   maxLeverage |-> 30, minCollateral |-> 100000000,
                   liquidationEngine |-> NoAddress, funding |-> NoAddress]
    /\ positions = << >>
    /\ nextPositionId = 1
    /\ openInterest = [d \in Directions |-> 0]
    /\ positionCount = [a \in Accounts |-> 0]
    /\ uncoveredFees = 0
    /\ otherLocked = 0
    /\ otherHeld = 0

PmInitialized == pmConfig.admin # NoAddress

\* An administrator's call changes the configuration and nothing else.
PmConfigOnly == UNCHANGED <<positions, nextPositionId, openInterest, positionCount,
                            uncoveredFees, otherVars, vaultVars, oracleVars>>

ValidFees(openBps, closeBps) == openBps <= 1000 /\ closeBps <= 1000

PmInitialize(admin, openBps, closeBps, maxLeverage, minCollateral) ==
    /\ ~PmInitialized
    /\ maxLeverage # 0
    /\ ValidFees(openBps, closeBps)
    /\ pmConfig' = [pmConfig EXCEPT !.admin = admin, !.openFeeBps = openBps,
                                    !.closeFeeBps = closeBps,
                                    !.maxLeverage = maxLeverage,
                                    !.minCollateral = minCollateral]
    /\ openInterest' = [d \in Directions |-> 0]
    /\ UNCHANGED <<positions, nextPositionId, positionCount, uncoveredFees, otherVars,
                   vaultVars, oracleVars>>

SetFeeRates(admin, openBps, closeBps) ==
    /\ PmInitialized
    /\ admin = pmConfig.admin
    /\ ValidFees(openBps, closeBps)
    /\ pmConfig' = [pmConfig EXCEPT !.openFeeBps = openBps, !.closeFeeBps = closeBps]
    /\ PmConfigOnly

SetMaxLeverage(admin, maxLeverage) ==
    /\ PmInitialized
    /\ admin = pmConfig.admin
    /\ maxLeverage # 0
    /\ pmConfig' = [pmConfig EXCEPT !.maxLeverage = maxLeverage]
    /\ PmConfigOnly

SetLiquidationEngine(admin, engine) ==
    /\ PmInitialized
    /\ admin = pmConfig.admin
    /\ pmConfig' = [pmConfig EXCEPT !.liquidationEngine = engine]
    /\ PmConfigOnly

\* The address is stored and never read.
SetFundingAddress(admin, funding) ==
    /\ PmInitialized
    /\ admin = pmConfig.admin
    /\ pmConfig' = [pmConfig EXCEPT !.funding = funding]
    /\ PmConfigOnly

-------------------------------------------------------------------------------
\* Positions.

\* save_position of the position id.
WithPosition(id, position) ==
    [i \in DOMAIN positions \cup {id} |-> IF i = id THEN position ELSE positions[i]]

\* remove_position of the position id.
WithoutPosition(id) == [i \in DOMAIN positions \ {id} |-> positions[i]]

\* get_position succeeds for this trader and id.
HasPosition(trader, id) == id \in DOMAIN positions /\ positions[id].trader = trader

OpenPosition(trader, asset, direction, collateral, leverage) ==
    LET size    == collateral * leverage
        openFee == CalculateFee(size, pmConfig.openFeeBps)
        price   == GetPriceValue(asset)
    IN  /\ PmInitialized
        /\ collateral >= pmConfig.minCollateral
        /\ leverage # 0
        /\ leverage <= pmConfig.maxLeverage
        /\ Served(asset)
        /\ Transfer(trader, VaultAddr, collateral + openFee)
        /\ LockLiquidity(PmAddr, size)
        /\ CollectFee(PmAddr, openFee)
        /\ nextPositionId' = nextPositionId + 1
        /\ positions' = WithPosition(nextPositionId,
                            [trader |-> trader, asset |-> asset,
                             direction |-> direction, size |-> size,
                             collateral |-> collateral, entryPrice |-> price])
        /\ openInterest' = [openInterest EXCEPT ![direction] = @ + size]
        /\ positionCount' = [positionCount EXCEPT ![trader] = @ + 1]
        /\ UNCHANGED <<pmConfig, uncoveredFees, otherVars, vaultConfig, totalShares,
                       shareBalance, oracleVars>>

\* The profit or loss a position is settled with at the price served for an asset.
RawPnl(position, asset) ==
    CalculatePnl(position.direction, position.size, position.entryPrice,
                 GetPriceValue(asset))

SettledPnl(position, asset) == CapLoss(RawPnl(position, asset), position.collateral)

\* Mutant: the interest of the other direction is reduced.
ReleaseOtherInterest(position) ==
    openInterest' = [d \in Directions |->
        IF d = position.direction THEN openInterest[d] ELSE openInterest[d] - position.size]

ReleaseInterest(position) ==
    openInterest' = [openInterest EXCEPT ![position.direction] = @ - position.size]

\* Mutant: the counter only ever grows.
KeepCount(trader) == UNCHANGED positionCount

ReduceCount(trader) ==
    positionCount' = [positionCount EXCEPT ![trader] = IF @ > 0 THEN @ - 1 ELSE @]

\* What close_position and liquidate_position do once they have checked the
\* caller: settle with the vault, then forget the position.
EndPosition(id, fee) ==
    LET position == positions[id]
        pnl      == SettledPnl(position, position.asset)
        payout   == position.collateral + pnl - fee
    IN  /\ Served(position.asset)
        /\ ClosePositionSettlement(PmAddr, position.trader, position.size,
                                   position.collateral, pnl, fee)
        /\ positions' = WithoutPosition(id)
        /\ ReleaseInterest(position)
        /\ ReduceCount(position.trader)
        /\ uncoveredFees' = uncoveredFees + (IF payout < 0 THEN -payout ELSE 0)
        /\ UNCHANGED <<pmConfig, nextPositionId, otherVars, vaultConfig, totalShares,
                       shareBalance, oracleVars>>

ClosePosition(trader, id, asset) ==
    /\ HasPosition(trader, id)
    /\ positions[id].asset = asset
    /\ EndPosition(id, CalculateFee(positions[id].size, pmConfig.closeFeeBps))

\* get_unrealized_pnl: any asset may be named, and the loss is not capped.
UnrealizedPnl(id, asset) == RawPnl(positions[id], asset)

\* Mutant: the asset the caller names is not compared with the position's.
LiquidateAnyAsset(caller, trader, id, asset) ==
    /\ pmConfig.liquidationEngine # NoAddress
    /\ caller = pmConfig.liquidationEngine
    /\ HasPosition(trader, id)
    /\ EndPosition(id, 0)

\* Mutant: a liquidation pays the closing fee.
LiquidateWithFee(caller, trader, id, asset) ==
    /\ pmConfig.liquidationEngine # NoAddress
    /\ caller = pmConfig.liquidationEngine
    /\ HasPosition(trader, id)
    /\ positions[id].asset = asset
    /\ EndPosition(id, CalculateFee(positions[id].size, pmConfig.closeFeeBps))

LiquidatePosition(caller, trader, id, asset) ==
    /\ pmConfig.liquidationEngine # NoAddress
    /\ caller = pmConfig.liquidationEngine
    /\ HasPosition(trader, id)
    /\ positions[id].asset = asset
    /\ EndPosition(id, 0)

-------------------------------------------------------------------------------
\* Steps, with the vault and the oracle as they are, and a liquidation engine
\* that may call liquidate_position whenever it likes.

PmAdminStep ==
    \E admin \in Admins :
        \/ \E openBps, closeBps \in FeeRates :
               \/ \E maxLeverage \in MaxLeverages, minCollateral \in MinCollaterals :
                      PmInitialize(admin, openBps, closeBps, maxLeverage, minCollateral)
               \/ SetFeeRates(admin, openBps, closeBps)
        \/ \E maxLeverage \in MaxLeverages : SetMaxLeverage(admin, maxLeverage)
        \/ \E engine \in LiquidationEngines : SetLiquidationEngine(admin, engine)
        \/ \E funding \in FundingContracts : SetFundingAddress(admin, funding)

PmTradeStep ==
    \E trader \in Accounts, asset \in Assets :
        \/ \E direction \in Directions, collateral \in Collaterals, leverage \in Leverages :
               /\ nextPositionId <= MaxPositionId
               /\ OpenPosition(trader, asset, direction, collateral, leverage)
        \/ \E id \in DOMAIN positions : ClosePosition(trader, id, asset)

PmLiquidateStep ==
    \E engine \in LiquidationEngines, trader \in Accounts, asset \in Assets :
        \E id \in DOMAIN positions : LiquidatePosition(engine, trader, id, asset)

\* The vault answers to another manager, which calls what it likes and has its
\* traders post what they like.
OtherManagerStep ==
    /\ vaultConfig.positionManager \notin {PmAddr, NoAddress}
    /\ ManagerStep \/ TraderStep
    /\ otherLocked' = otherLocked + (lockedLiquidity' - lockedLiquidity)
    /\ otherHeld' = otherHeld + (usdc'[VaultAddr] - usdc[VaultAddr])
                              - (totalDeposits' - totalDeposits)

\* A step of the vault or of the oracle that this position manager takes no part in.
CalleeStep ==
    /\ \/ (VaultAdminStep \/ VaultLpStep) /\ UNCHANGED <<oracleVars, otherVars>>
       \/ OracleStep /\ UNCHANGED <<vaultVars, otherVars>>
       \/ OtherManagerStep /\ UNCHANGED oracleVars
    /\ UNCHANGED pmVars

PmNext == PmAdminStep \/ PmTradeStep \/ PmLiquidateStep \/ CalleeStep

allVars == <<vaultVars, oracleVars, pmVars, otherVars>>

PmSpecInit == VaultInit /\ OracleInit /\ PmInit

PmSpec == PmSpecInit /\ [][PmNext]_allVars

-------------------------------------------------------------------------------
\* Properties.

PmTypeOK ==
    /\ pmConfig \in [admin : Admins \cup {NoAddress}, openFeeBps : Nat,
                     closeFeeBps : Nat, maxLeverage : Nat, minCollateral : Int,
                     liquidationEngine : LiquidationEngines \cup {NoAddress},
                     funding : FundingContracts \cup {NoAddress}]
    /\ nextPositionId \in Nat \ {0}
    /\ DOMAIN positions \subseteq 1 .. nextPositionId - 1
    /\ \A id \in DOMAIN positions : positions[id] \in Position
    /\ openInterest \in [Directions -> Nat]
    /\ positionCount \in [Accounts -> Nat]
    /\ uncoveredFees \in Nat
    /\ otherLocked \in Int
    /\ otherHeld \in Int

\* Totals over the open positions.
OpenIn(direction) == {id \in DOMAIN positions : positions[id].direction = direction}

OpenOf(trader) == {id \in DOMAIN positions : positions[id].trader = trader}

SizeOf == [id \in DOMAIN positions |-> positions[id].size]

CollateralOf == [id \in DOMAIN positions |-> positions[id].collateral]

OpenNotional == SumOver(SizeOf)

PostedCollateral == SumOver(CollateralOf)

\* The vault's locked liquidity is the notional of the open positions and what
\* other managers have locked and not unlocked.  The total is one number in the
\* vault, with two authors when the administrator registers another manager while
\* positions are open; neither a rewiring nor anything the other does makes this
\* contract's part of it differ from its positions.
LockedIsOpenNotional == lockedLiquidity = OpenNotional + otherLocked

\* The open interest of each direction is the total size of its positions, which
\* is what the funding rate is computed from: the amount added at the opening is
\* the one subtracted at the end, whatever happened in between.
OpenInterestExact ==
    \A d \in Directions :
        openInterest[d] = SumOver([id \in OpenIn(d) |-> positions[id].size])

\* The counter kept per trader is the number of the trader's open positions; its
\* guarded decrement at zero never hides a miscount.
PositionCountExact ==
    \A trader \in Accounts : positionCount[trader] = Cardinality(OpenOf(trader))

\* The USDC the vault holds is the pool's equity, the collateral of the open
\* positions and what other managers brought in and did not pay out or credit,
\* short only of the closing fees that were credited to the pool although the
\* position's collateral no longer covered them.
Backing ==
    usdc[VaultAddr] + uncoveredFees = totalDeposits + PostedCollateral + otherHeld

\* As long as every closing fee was covered and no other manager has unlocked or
\* paid out more than it brought, the only check of the vault's that can stop a
\* position with a recent price from ending, with this contract registered, is that
\* the pool's equity pays the profit: liquidity to release and tokens to pay are
\* there (they belong to other positions and to the pool, all intertwined).
ExitOnlyNeedsEquity ==
    uncoveredFees = 0 /\ otherLocked >= 0 /\ otherHeld >= 0 =>
        \A id \in DOMAIN positions :
            LET pnl == SettledPnl(positions[id], positions[id].asset)
                fee == CalculateFee(positions[id].size, pmConfig.closeFeeBps)
            IN  /\ positions[id].size <= lockedLiquidity
                /\ (Served(positions[id].asset) /\ totalDeposits - pnl + fee >= 0)
                       => positions[id].collateral + pnl - fee <= usdc[VaultAddr]

\* A test's comment on a close whose fee the collateral does not cover: "Vault
\* total_deposits should NOT be inflated beyond actual balance".
DepositsNotInflated == totalDeposits <= usdc[VaultAddr]

\* The equity covers the notional locked.
Covered == lockedLiquidity <= totalDeposits

\* The cap's cast to u32 changes none of the ratios the step checks: that of an
\* opening, with the equity before its fee, and that of a withdrawal, with what it
\* leaves.
CastsAreExact ==
    /\ lockedLiquidity' > lockedLiquidity => UtilizationFits(lockedLiquidity', totalDeposits)
    /\ totalShares' < totalShares => UtilizationFits(lockedLiquidity', totalDeposits')

\* Once the pool's equity covers the notional locked it goes on doing so, when
\* utilization is capped below 100% and no price more than doubles, as long as this
\* contract is the registered manager: what withdrawals, settlements of profit and
\* loss, and openings (whose cap is checked before the fee arrives, on a rounded
\* ratio) do to the two in any order.  Two openings are left out: on an empty pool,
\* where the cap is not checked (calc_utilization_bps is 0), and one of more than 429
\* thousand times the equity, where the cast to u32 wraps.
CoverageKept ==
    [][/\ Covered
       /\ vaultConfig.positionManager = PmAddr
       /\ ~(totalDeposits = 0 /\ lockedLiquidity' > lockedLiquidity)
       /\ vaultConfig.maxUtilization < BPS
       /\ CastsAreExact
       /\ \A p, q \in Prices : p > 0 => q <= 2 * p
       => Covered']_allVars

\* The position manager and the vault together keep the promises of PoolLedger:
\* whatever the order of deposits, withdrawals, openings, closes, liquidations and
\* reconfigurations, no one's money moves otherwise, save while another manager is
\* registered.
Ledger == INSTANCE PoolLedger
              WITH wallet <- [a \in Accounts |-> usdc[a]],
                   pool <- totalDeposits,
                   open <- positions,
                   managed <- vaultConfig.positionManager = PmAddr

ImplementsLedger == Ledger!LedgerSpec
===============================================================================
