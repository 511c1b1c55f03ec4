------------------------------ MODULE PerpsProofs ------------------------------
(***************************************************************************)
(* The contracts together: the liquidation engine closes by force only     *)
(* what is below its maintenance margin and splits exactly the collateral, *)
(* and the position manager and the ledger are an environment the funding  *)
(* contract is specified for, so that what is proved of each contract      *)
(* alone holds of them together.                                           *)
(***************************************************************************)
EXTENDS Perps, PositionManagerProofs

LeInv == PmInv /\ LeTypeOK

\* The engine's own calls are calls of liquidate_position by a registered engine.
LEMMA LeStepIsPmStep ==
    ASSUME PmInv, [LeNext]_<<allVars, leVars>>
    PROVE  [PmNext]_allVars
<1>1. CASE LeAdminStep BY <1>1 DEF LeAdminStep
<1>2. CASE LiquidateStep
    <2>1. PICK trader \in Accounts, asset \in Assets :
              \E id \in DOMAIN positions : LiquidatePosition(LeAddr, trader, id, asset)
        BY <1>2 DEF LiquidateStep, Liquidate
    <2>2. LeAddr \in LiquidationEngines
        <3>1. pmConfig.liquidationEngine \in LiquidationEngines \cup {NoAddress}
            BY DEF PmInv, PmTypeOK
        <3>2. QED BY <2>1, <3>1 DEF LiquidatePosition
    <2>3. PmLiquidateStep BY <2>1, <2>2 DEF PmLiquidateStep
    <2>4. QED BY <2>3 DEF PmNext
<1>3. CASE OtherStep BY <1>3 DEF OtherStep, PmNext
<1>4. CASE UNCHANGED <<allVars, leVars>> BY <1>4
<1>5. QED BY <1>1, <1>2, <1>3, <1>4 DEF LeNext

LEMMA LeInitInv == PmSpecInit /\ LeInit => LeInv
<1>1. PmSpecInit => PmInv BY PmInitInv
<1>2. LeInit => LeTypeOK BY DEF LeInit, LeTypeOK
<1>3. QED BY <1>1, <1>2 DEF LeInv

LEMMA LeNextPreserves == LeInv /\ [LeNext]_<<allVars, leVars>> => LeInv'
<1>1. SUFFICES ASSUME LeInv, [LeNext]_<<allVars, leVars>> PROVE LeInv' OBVIOUS
<1>2. PmInv' BY <1>1, LeStepIsPmStep, PmNextPreserves DEF LeInv
<1>3. LeTypeOK'
    <2>1. ASSUME NEW admin \in Admins, NEW maintenance \in MaintenanceMargins,
                 NEW penalty \in Penalties, NEW reward \in KeeperRewards,
                 LeInitialize(admin, maintenance, penalty, reward)
          PROVE  LeTypeOK'
        <3>1. maintenance \in 1 .. 5000
            BY <2>1, LiquidationEngineAssumption DEF LeInitialize, ValidMaintenance
        <3>2. QED BY <2>1, <3>1, LiquidationEngineAssumption DEF LeInitialize, LeTypeOK
    <2>2. ASSUME NEW admin \in Admins, NEW maintenance \in MaintenanceMargins,
                 SetMaintenanceMargin(admin, maintenance)
          PROVE  LeTypeOK'
        <3>1. maintenance \in 1 .. 5000
            <4>1. maintenance \in Nat BY LiquidationEngineAssumption
            <4>2. maintenance # 0 /\ maintenance <= 5000
                BY <2>2 DEF SetMaintenanceMargin, ValidMaintenance
            <4>3. QED BY <4>1, <4>2
        <3>2. QED BY <1>1, <2>2, <3>1 DEF SetMaintenanceMargin, LeTypeOK, LeInv
    <2>3. ASSUME NEW admin \in Admins, NEW penalty \in Penalties,
                 SetLiquidationPenalty(admin, penalty)
          PROVE  LeTypeOK'
        BY <1>1, <2>3, LiquidationEngineAssumption
        DEF SetLiquidationPenalty, LeTypeOK, LeInv
    <2>4. ASSUME NEW admin \in Admins, NEW reward \in KeeperRewards,
                 SetKeeperReward(admin, reward)
          PROVE  LeTypeOK'
        BY <1>1, <2>4, LiquidationEngineAssumption DEF SetKeeperReward, LeTypeOK, LeInv
    <2>5. CASE UNCHANGED leVars BY <1>1, <2>5 DEF leVars, LeTypeOK, LeInv
    <2>6. LeAdminStep \/ UNCHANGED leVars
        BY <1>1 DEF LeNext, LiquidateStep, OtherStep
    <2>7. QED BY <2>1, <2>2, <2>3, <2>4, <2>5, <2>6 DEF LeAdminStep
<1>4. QED BY <1>2, <1>3 DEF LeInv

LEMMA LeInvariant == LeSpec => []LeInv
BY LeInitInv, LeNextPreserves, PTL DEF LeSpec

\* The position manager together with the engine is the position manager of its own
\* specification, in which any registered engine may close any position; so what is
\* proved of that one holds with the engine and in the five contracts.
THEOREM EngineImplementsManager == LeSpec => PmSpec
<1>1. LeInv /\ [LeNext]_<<allVars, leVars>> => [PmNext]_allVars
    BY LeStepIsPmStep DEF LeInv
<1>2. QED BY <1>1, LeInvariant, PTL DEF LeSpec, PmSpec

\* The rates of the engine stay in the range its setters check.
THEOREM LeTypeCorrect == LeSpec => []LeTypeOK
<1>1. LeInv => LeTypeOK BY DEF LeInv
<1>2. QED BY <1>1, LeInvariant, PTL

\* Whatever asset the keeper names and whenever the price moves: a position that is
\* closed by force is below maintenance at its own asset's recent price (liquidate).
THEOREM LiquidationsAreJustified == LeSpec => OnlyUnhealthyLiquidated
<1>1. [LeNext]_<<allVars, leVars>> =>
          [LiquidateStep => \A id \in Ended : /\ Served(positions[id].asset)
                                              /\ ~Healthy(id)]_<<allVars, leVars>>
    <2>1. SUFFICES ASSUME LiquidateStep, NEW id \in Ended
                   PROVE  Served(positions[id].asset) /\ ~Healthy(id)
        OBVIOUS
    <2>2. PICK keeper \in Keepers, trader \in Accounts, asset \in Assets :
              \E i \in DOMAIN positions : Liquidate(keeper, trader, i, asset)
        BY <2>1 DEF LiquidateStep
    <2>3. PICK i \in DOMAIN positions : Liquidate(keeper, trader, i, asset)
        BY <2>2
    <2>4. /\ Served(asset) /\ IsLiquidatable(i, asset)
          /\ positions[i].asset = asset /\ positions' = WithoutPosition(i)
        BY <2>3 DEF Liquidate, LiquidatePosition, EndPosition
    <2>5. id = i BY <2>4 DEF Ended, WithoutPosition
    <2>6. QED BY <2>4, <2>5 DEF Healthy
<1>2. QED BY <1>1, PTL DEF LeSpec, OnlyUnhealthyLiquidated

\* A forced close gives pool and trader together the collateral, to the unit, for
\* every price, rounding and size (liquidate_position, close_position_settlement).
THEOREM LiquidationsSplitCollateral == LeSpec => LiquidationSettlesCollateral
<1>1. LeInv /\ [LeNext]_<<allVars, leVars>> =>
          [LiquidateStep =>
              \A id \in Ended :
                  LET owner == positions[id].trader
                  IN  (totalDeposits' - totalDeposits) + (usdc'[owner] - usdc[owner])
                          = positions[id].collateral]_<<allVars, leVars>>
    <2>1. SUFFICES ASSUME LeInv, LiquidateStep, NEW id \in Ended
                   PROVE  (totalDeposits' - totalDeposits)
                              + (usdc'[positions[id].trader] - usdc[positions[id].trader])
                              = positions[id].collateral
        OBVIOUS
    <2>. DEFINE p == positions[id]
                pnl == SettledPnl(p, p.asset)
                payout == p.collateral + pnl
    <2>2. PICK i \in DOMAIN positions : EndPosition(i, 0)
        BY <2>1 DEF LiquidateStep, Liquidate, LiquidatePosition
    <2>3. id = i BY <2>2 DEF Ended, EndPosition, WithoutPosition
    <2>4. id \in DOMAIN positions /\ EndPosition(id, 0) BY <2>2, <2>3
    <2>5. /\ p.collateral \in Nat /\ p.size \in Nat \ {0} /\ p.entryPrice \in Nat \ {0}
          /\ p.trader \in Accounts /\ p.asset \in Assets /\ p.direction \in Directions
        BY <2>1, <2>4 DEF LeInv, PmInv, PmTypeOK, Position
    <2>6. Served(p.asset) BY <2>4 DEF EndPosition
    <2>. HIDE DEF p
    <2>7. pnl \in Int /\ pnl >= -p.collateral
        <3>1. GetPriceValue(p.asset) \in Int
            BY <2>1, <2>5, <2>6, ServedPrice DEF LeInv, PmInv
        <3>2. RawPnl(p, p.asset) \in Int BY <2>5, <3>1, PnlInt DEF RawPnl
        <3>3. QED BY <2>5, <3>2, CapLossBounds DEF SettledPnl
    <2>8. /\ totalDeposits' = totalDeposits - pnl + 0
          /\ IF p.collateral + pnl - 0 > 0
             THEN Transfer(VaultAddr, p.trader, p.collateral + pnl - 0)
             ELSE UNCHANGED usdc
        BY <2>4 DEF EndPosition, ClosePositionSettlement, p
    <2>. HIDE DEF pnl
    <2>9. payout \in Int /\ payout >= 0 /\ p.collateral + pnl - 0 = payout
        BY <2>5, <2>7
    <2>10. /\ totalDeposits \in Nat /\ usdc \in [Holders -> Nat]
           /\ VaultAddr \in Holders /\ p.trader \in Holders /\ p.trader # VaultAddr
        BY <2>1, <2>5, AmountsTyped DEF LeInv, PmInv
    <2>11. usdc'[p.trader] = usdc[p.trader] + payout /\ usdc[p.trader] \in Nat
        <3>1. CASE payout > 0
            <4>1. Transfer(VaultAddr, p.trader, payout) BY <2>8, <2>9, <3>1
            <4>. HIDE DEF payout
            <4>2. QED BY <2>9, <2>10, <4>1, TransferMoves
        <3>2. CASE payout = 0
            <4>1. UNCHANGED usdc BY <2>8, <2>9, <3>2
            <4>. HIDE DEF payout
            <4>2. QED BY <2>10, <3>2, <4>1
        <3>3. QED BY <2>9, <3>1, <3>2
    <2>12. (totalDeposits' - totalDeposits) + (usdc'[p.trader] - usdc[p.trader])
               = p.collateral
        BY <2>5, <2>7, <2>8, <2>10, <2>11
    <2>13. QED BY <2>12 DEF p
<1>2. QED BY <1>1, LeInvariant, PTL DEF LeSpec, LiquidationSettlesCollateral

-------------------------------------------------------------------------------
\* The five contracts.

\* The funding contract takes no part in the others' state.
LEMMA PerpsImplementsEngine == PerpsSpec => LeSpec
<1>1. PerpsInit => PmSpecInit /\ LeInit BY DEF PerpsInit
<1>2. [PerpsNext]_perpsVars => [LeNext]_<<allVars, leVars>>
    BY DEF PerpsNext, perpsVars
<1>3. QED BY <1>1, <1>2, PTL DEF PerpsSpec, LeSpec

\* In the five contracts, however they are deployed and wired, the liquidity locked
\* is the open notional, the tokens of the vault are what it owes, and the other
\* books agree (open_position, close_position_settlement, liquidate_position); a
\* recent price is served (get_price).
THEOREM BooksAgreeInPerps ==
    PerpsSpec => []LockedIsOpenNotional /\ []OpenInterestExact /\ []PositionCountExact
                    /\ []Backing /\ []SharesBacked /\ []ExitOnlyNeedsEquity
                    /\ []RecentPriceIsServed
BY PerpsImplementsEngine, EngineImplementsManager, LockedIsNotional, InterestIsExact,
   CountIsExact, VaultIsBacked, SharesBackedUnderTrading, ExitsNeedOnlyEquity,
   PricesServedUnderTrading, PTL

\* And what no step may do: dilute a share, withdraw the cover of a position, uncover
\* the profits, depart from the ledger the contracts implement, or close by force
\* what is healthy or for another amount than the collateral.
THEOREM PromisesKeptInPerps ==
    PerpsSpec => /\ NoDilution /\ WithdrawalKeepsCover /\ CoverageKept
                 /\ ImplementsLedger
                 /\ OnlyUnhealthyLiquidated /\ LiquidationSettlesCollateral
BY PerpsImplementsEngine, EngineImplementsManager, NoDilutionUnderTrading,
   CoverUnderTrading, CoverageIsKept, LedgerImplemented, LiquidationsAreJustified,
   LiquidationsSplitCollateral, PTL

\* The clock only moves with the oracle's ledger step.
LEMMA ClockStep ==
    ASSUME [PmNext]_allVars
    PROVE  now' = now \/ (Tick /\ openInterest' = openInterest)
<1>1. CASE PmAdminStep
    <2>1. \A admin, openBps, closeBps, leverage, collateral :
              PmInitialize(admin, openBps, closeBps, leverage, collateral) => now' = now
        BY DEF PmInitialize, oracleVars
    <2>2. PmConfigOnly => now' = now BY DEF PmConfigOnly, oracleVars
    <2>3. \A admin, openBps, closeBps : SetFeeRates(admin, openBps, closeBps) => PmConfigOnly
        BY DEF SetFeeRates
    <2>4. \A admin, leverage : SetMaxLeverage(admin, leverage) => PmConfigOnly
        BY DEF SetMaxLeverage
    <2>5. \A admin, engine : SetLiquidationEngine(admin, engine) => PmConfigOnly
        BY DEF SetLiquidationEngine
    <2>6. \A admin, funding : SetFundingAddress(admin, funding) => PmConfigOnly
        BY DEF SetFundingAddress
    <2>7. QED BY <1>1, <2>1, <2>2, <2>3, <2>4, <2>5, <2>6 DEF PmAdminStep
<1>2. \A id, fee : EndPosition(id, fee) => now' = now
    <2>1. SUFFICES ASSUME NEW id, NEW fee, EndPosition(id, fee) PROVE now' = now
        OBVIOUS
    <2>2. UNCHANGED oracleVars BY <2>1 DEF EndPosition
    <2>3. QED BY <2>2 DEF oracleVars
<1>3. CASE PmTradeStep
    <2>1. \A trader, asset, direction, collateral, leverage :
              OpenPosition(trader, asset, direction, collateral, leverage) => now' = now
        <3>1. SUFFICES ASSUME NEW trader, NEW asset, NEW direction, NEW collateral,
                              NEW leverage,
                              OpenPosition(trader, asset, direction, collateral, leverage)
                       PROVE  now' = now
            OBVIOUS
        <3>2. UNCHANGED oracleVars BY <3>1 DEF OpenPosition
        <3>3. QED BY <3>2 DEF oracleVars
    <2>2. \A trader, id, asset : ClosePosition(trader, id, asset) => now' = now
        BY <1>2 DEF ClosePosition
    <2>3. QED BY <1>3, <2>1, <2>2 DEF PmTradeStep
<1>4. CASE PmLiquidateStep
    <2>1. \A engine, trader, id, asset :
              LiquidatePosition(engine, trader, id, asset) => now' = now
        BY <1>2 DEF LiquidatePosition
    <2>2. QED BY <1>4, <2>1 DEF PmLiquidateStep
<1>5. CASE CalleeStep
    <2>1. UNCHANGED oracleVars \/ OracleStep BY <1>5 DEF CalleeStep
    <2>2. CASE UNCHANGED oracleVars BY <2>2 DEF oracleVars
    <2>3. CASE OracleStep
        <3>1. \A admin, threshold : OracleInitialize(admin, threshold) => now' = now
            BY DEF OracleInitialize
        <3>2. \A admin, threshold : SetStalenessThreshold(admin, threshold) => now' = now
            BY DEF SetStalenessThreshold
        <3>3. \A admin, asset, price : SetPrice(admin, asset, price) => now' = now
            BY DEF SetPrice
        <3>4. UNCHANGED openInterest BY <1>5 DEF CalleeStep, pmVars
        <3>5. QED BY <2>3, <3>1, <3>2, <3>3, <3>4 DEF OracleStep
    <2>4. QED BY <2>1, <2>2, <2>3
<1>6. CASE UNCHANGED allVars
    <2>1. UNCHANGED oracleVars BY <1>6 DEF allVars
    <2>2. QED BY <2>1 DEF oracleVars
<1>7. QED BY <1>1, <1>3, <1>4, <1>5, <1>6 DEF PmNext

\* What the funding contract sees of a step of the others: a ledger closes, or the
\* open interest changes, or nothing.
LEMMA EnvironmentStep ==
    ASSUME OpenInterests = Nat, LeInv, [LeNext]_<<allVars, leVars>>, UNCHANGED frVars
    PROVE  FR!FrNext
<1>1. LeInv' BY LeNextPreserves
<1>2. openInterest' \in [Directions -> Nat] BY <1>1 DEF LeInv, PmInv, PmTypeOK
<1>3. FR!Directions = Directions BY DEF FR!Directions, Directions
<1>4. [PmNext]_allVars BY LeStepIsPmStep DEF LeInv
<1>5. UNCHANGED FR!frVars BY DEF frVars, FR!frVars
<1>6. CASE openInterest' = openInterest /\ Tick
    <2>1. now' \in now + 1 .. MaxTime
        <3>1. PICK seconds \in LedgerTimes : now + seconds <= MaxTime /\ now' = now + seconds
            BY <1>6 DEF Tick
        <3>2. now \in Nat BY DEF LeInv, PmInv, OracleInv, OracleTypeOK
        <3>3. QED BY <3>1, <3>2, OracleAssumption
    <2>2. FR!LedgerStep BY <1>5, <1>6, <2>1 DEF FR!LedgerStep
    <2>3. QED BY <2>2 DEF FR!FrNext
<1>7. CASE now' = now
    <2>1. FR!OpenInterestStep BY <1>2, <1>3, <1>5, <1>7 DEF FR!OpenInterestStep
    <2>2. QED BY <2>1 DEF FR!FrNext
<1>8. QED BY <1>4, <1>6, <1>7, ClockStep

\* In the composition the funding contract is what its own specification says, when
\* that allows every open interest: nobody else writes its indices, and the open
\* interest it reads is never negative (apply_funding, get_open_interest_long).
THEOREM FundingRefined ==
    ASSUME OpenInterests = Nat
    PROVE  PerpsSpec => FundingSpec
<1>1. PerpsInit => LeInv /\ FR!FrSpecInit
    <2>1. SUFFICES ASSUME PerpsInit PROVE LeInv /\ FR!FrSpecInit OBVIOUS
    <2>2. PmSpecInit /\ LeInit /\ FR!FrInit BY <2>1 DEF PerpsInit
    <2>3. OracleInit /\ PmInit BY <2>2 DEF PmSpecInit
    <2>4. now = 0 BY <2>3 DEF OracleInit
    <2>5. openInterest = [d \in Directions |-> 0] BY <2>3 DEF PmInit
    <2>6. FR!Directions = Directions BY DEF FR!Directions, Directions
    <2>7. FR!FrSpecInit BY <2>2, <2>4, <2>5, <2>6 DEF FR!FrSpecInit
    <2>8. QED BY <2>2, <2>7, LeInitInv
<1>2. LeInv /\ [PerpsNext]_perpsVars => LeInv'
    <2>1. [PerpsNext]_perpsVars => [LeNext]_<<allVars, leVars>>
        BY DEF PerpsNext, perpsVars
    <2>2. QED BY <2>1, LeNextPreserves
<1>3. LeInv /\ [PerpsNext]_perpsVars => [FR!FrNext]_<<FR!frVars, openInterest, now>>
    <2>1. SUFFICES ASSUME LeInv, [PerpsNext]_perpsVars
                   PROVE  FR!FrNext \/ UNCHANGED <<FR!frVars, openInterest, now>>
        OBVIOUS
    <2>2. CASE LeNext /\ UNCHANGED frVars BY <2>1, <2>2, EnvironmentStep
    <2>3. CASE FR!FrStep /\ UNCHANGED <<allVars, leVars>>
        <3>1. UNCHANGED pmVars /\ UNCHANGED oracleVars BY <2>3 DEF allVars
        <3>2. UNCHANGED <<openInterest, now>> BY <3>1 DEF pmVars, oracleVars
        <3>3. QED BY <2>3, <3>2 DEF FR!FrNext
    <2>4. CASE UNCHANGED perpsVars
        <3>1. UNCHANGED allVars /\ UNCHANGED frVars BY <2>4 DEF perpsVars
        <3>2. UNCHANGED pmVars /\ UNCHANGED oracleVars BY <3>1 DEF allVars
        <3>3. UNCHANGED <<openInterest, now>> BY <3>2 DEF pmVars, oracleVars
        <3>4. UNCHANGED FR!frVars BY <3>1 DEF frVars, FR!frVars
        <3>5. QED BY <3>3, <3>4
    <2>5. QED BY <2>1, <2>2, <2>3, <2>4 DEF PerpsNext
<1>4. QED BY <1>1, <1>2, <1>3, PTL DEF PerpsSpec, FundingSpec, FR!FrSpec

-------------------------------------------------------------------------------
\* What is proved of the funding contract alone, carried over.  The funder is no
\* part of the composition: its clock stands still and its constants are idle.

FP == INSTANCE FundingProofs
          WITH FunderInterval <- 1, MaxDelay <- 0,
               nextTick <- 0, sentAt <- -1, lostRequests <- 0

\* What the theorems about the funding contract assume of its constants.
LEMMA FundingAssumptions ==
    ASSUME OpenInterests = Nat
    PROVE  /\ FP!NoAddressAssumption
           /\ FP!U32RangeAssumption
           /\ FP!FundingRateAssumption
           /\ FP!FunderAssumption
<1>1. FP!NoAddressAssumption BY NoAddressAssumption DEF FP!NoAddressAssumption
<1>2. FP!U32RangeAssumption BY U32RangeAssumption DEF FP!U32RangeAssumption
<1>3. FP!FundingRateAssumption
    BY PerpsAssumption, OracleAssumption DEF FP!FundingRateAssumption
<1>4. FP!FunderAssumption BY DEF FP!FunderAssumption
<1>5. QED BY <1>1, <1>2, <1>3, <1>4

\* The two instances of FundingRate say the same, of the rates (get_current_rate),
LEMMA SameRates == FP!CurrentRates = FR!CurrentRates
BY DEF FP!CurrentRates, FR!CurrentRates, FP!FundingRates, FR!FundingRates, FP!Skew,
       FR!Skew, FP!Clamp, FR!Clamp, FP!Trunc, FR!Trunc, FP!BPS, FR!BPS,
       FP!Directions, FR!Directions

\* of the calls,
LEMMA SameStep == FP!FrStep <=> FR!FrStep
<1>1. FP!FrInitialized <=> FR!FrInitialized
    BY DEF FP!FrInitialized, FR!FrInitialized
<1>2. FP!Directions = FR!Directions BY DEF FP!Directions, FR!Directions
<1>3. FP!ApplyFunding <=> FR!ApplyFunding
    BY <1>1, <1>2, SameRates
    DEF FP!ApplyFunding, FR!ApplyFunding, FP!FundingDue, FR!FundingDue
<1>4. QED
    BY <1>1, <1>2, <1>3
    DEF FP!FrStep, FR!FrStep, FP!FrInitialize, FR!FrInitialize, FP!SetFundingInterval,
        FR!SetFundingInterval, FP!SetMaxRate, FR!SetMaxRate

\* and of every behaviour.
LEMMA SameFunding == FR!FrSpec => FP!FrSpec
<1>1. FR!FrSpecInit => FP!FrSpecInit
    BY DEF FP!FrSpecInit, FR!FrSpecInit, FP!FrInit, FR!FrInit, FP!Directions,
           FR!Directions
<1>2. [FR!FrNext]_<<FR!frVars, openInterest, now>>
          => [FP!FrNext]_<<FP!frVars, openInterest, now>>
    BY SameStep
    DEF FP!FrNext, FR!FrNext, FP!frVars, FR!frVars, FP!LedgerStep, FR!LedgerStep,
        FP!OpenInterestStep, FR!OpenInterestStep, FP!Directions, FR!Directions
<1>3. QED BY <1>1, <1>2, PTL DEF FP!FrSpec, FR!FrSpec

\* With the open interest of the real position manager and the clock of the real
\* ledger the indices move at the pace of the interval, and what one funding takes
\* from the payers covers the receivers (apply_funding).
THEOREM FundingKeptInPerps ==
    ASSUME OpenInterests = Nat
    PROVE  PerpsSpec => []FR!FundingPace /\ []FR!FundingIsFunded
<1>1. PerpsSpec => FR!FrSpec BY FundingRefined DEF FundingSpec
<1>2. FP!FrSpec => []FP!FundingPace BY FundingAssumptions, FP!PaceIsKept, PTL
<1>3. FP!FrSpec => []FP!FundingIsFunded
    BY FundingAssumptions, FP!FundingAlwaysFunded, PTL
<1>4. FP!FundingPace => FR!FundingPace BY DEF FP!FundingPace, FR!FundingPace
<1>5. FP!FundingIsFunded => FR!FundingIsFunded
    BY SameRates DEF FP!FundingIsFunded, FR!FundingIsFunded
<1>6. QED BY <1>1, <1>2, <1>3, <1>4, <1>5, SameFunding, PTL
===============================================================================
