--------------------------- MODULE LiquidationEngine ---------------------------
(***************************************************************************)
(* The liquidation engine (contracts/liquidation-engine): anyone may have  *)
(* a position whose margin has fallen below the maintenance margin closed  *)
(* by force.  The engine judges the position with queries to the position  *)
(* manager and the oracle for an asset the caller names, then has the      *)
(* position manager close it.  The penalty and the keeper's reward are     *)
(* computed for the event only: no token moves for them.                   *)
(***************************************************************************)
EXTENDS PositionManager

CONSTANTS
    LeAddr,             \* the address of this contract
    Keepers,            \* accounts that call liquidate
    MaintenanceMargins, \* arguments of initialize and set_maintenance_margin
    Penalties,          \* arguments of initialize and set_liquidation_penalty
    KeeperRewards       \* arguments of initialize and set_keeper_reward

ASSUME LiquidationEngineAssumption ==
    /\ Keepers \subseteq Accounts
    /\ MaintenanceMargins \subseteq Nat
    /\ Penalties \subseteq Nat
    /\ KeeperRewards \subseteq Nat

VARIABLE leConfig       \* instance storage: admin and the three rates

leVars == <<leConfig>>

LeInit == leConfig = [admin |-> NoAddress, maintenance |-> 500,
                      penalty |-> 250, keeperReward |-> 50]

LeInitialized == leConfig.admin # NoAddress

ValidMaintenance(bps) == bps # 0 /\ bps <= 5000

LeInitialize(admin, maintenance, penalty, reward) ==
    /\ ~LeInitialized
    /\ ValidMaintenance(maintenance)
    /\ reward <= penalty
    /\ leConfig' = [admin |-> admin, maintenance |-> maintenance,
                    penalty |-> penalty, keeperReward |-> reward]

\* Mutant: any rate is accepted.
SetMaintenanceMarginAny(admin, bps) ==
    /\ LeInitialized
    /\ admin = leConfig.admin
    /\ leConfig' = [leConfig EXCEPT !.maintenance = bps]

SetMaintenanceMargin(admin, bps) ==
    /\ LeInitialized
    /\ admin = leConfig.admin
    /\ ValidMaintenance(bps)
    /\ leConfig' = [leConfig EXCEPT !.maintenance = bps]

SetLiquidationPenalty(admin, bps) ==
    /\ LeInitialized
    /\ admin = leConfig.admin
    /\ leConfig' = [leConfig EXCEPT !.penalty = bps]

SetKeeperReward(admin, bps) ==
    /\ LeInitialized
    /\ admin = leConfig.admin
    /\ leConfig' = [leConfig EXCEPT !.keeperReward = bps]

\* get_margin_ratio and is_liquidatable, at the price served for the named asset.
MarginRatio(id, asset) ==
    CalcMarginRatio(positions[id].collateral, UnrealizedPnl(id, asset), positions[id].size)

IsLiquidatable(id, asset) == MarginRatio(id, asset) < leConfig.maintenance

\* The reward computed for the event once the position has ended with profit or
\* loss pnl, at most what was left of the collateral.
KeeperReward(collateral, pnl) ==
    LET reward == CalculateFee(collateral, leConfig.keeperReward)
    IN  IF collateral + pnl <= 0 THEN 0
        ELSE IF reward <= collateral + pnl THEN reward ELSE collateral + pnl

Liquidate(keeper, trader, id, asset) ==
    /\ LeInitialized
    /\ HasPosition(trader, id)
    /\ Served(asset)
    /\ IsLiquidatable(id, asset)
    /\ LiquidatePosition(LeAddr, trader, id, asset)

-------------------------------------------------------------------------------
LeAdminStep ==
    /\ \E admin \in Admins :
        \/ \E maintenance \in MaintenanceMargins :
               \/ \E penalty \in Penalties, reward \in KeeperRewards :
                      LeInitialize(admin, maintenance, penalty, reward)
               \/ SetMaintenanceMargin(admin, maintenance)
        \/ \E penalty \in Penalties : SetLiquidationPenalty(admin, penalty)
        \/ \E reward \in KeeperRewards : SetKeeperReward(admin, reward)
    /\ UNCHANGED allVars

LiquidateStep ==
    /\ \E keeper \in Keepers, trader \in Accounts, asset \in Assets :
        \E id \in DOMAIN positions : Liquidate(keeper, trader, id, asset)
    /\ UNCHANGED leVars

\* A step of the other contracts.  liquidate_position is called by this one only.
OtherStep == (PmAdminStep \/ PmTradeStep \/ CalleeStep) /\ UNCHANGED leVars

LeNext == LeAdminStep \/ LiquidateStep \/ OtherStep

LeSpec == PmSpecInit /\ LeInit /\ [][LeNext]_<<allVars, leVars>>

-------------------------------------------------------------------------------
\* Properties.

\* The rates keep their range: a maintenance margin is never zero (no position
\* could be liquidated) nor above one half, by initialize or by its setter.
LeTypeOK ==
    leConfig \in [admin : Admins \cup {NoAddress}, maintenance : 1 .. 5000,
                  penalty : Nat, keeperReward : Nat]

\* The ids of the positions that end in a step, and those of them whose trader
\* did not close them.
Ended == DOMAIN positions \ DOMAIN positions'

\* The margin a position has left at the recent price of its own asset.
Healthy(id) == ~IsLiquidatable(id, positions[id].asset)

\* A position is closed by force only when it is below the maintenance margin at
\* the recent price of its own asset.  The keeper names the asset; the margin is
\* queried for whatever asset was named, and only the position manager's check
\* at the very end ties it to the position's.
OnlyUnhealthyLiquidated ==
    [][LiquidateStep =>
          \A id \in Ended :
              /\ Served(positions[id].asset)
              /\ ~Healthy(id)]_<<allVars, leVars>>

\* What a liquidation moves is the collateral and nothing else: what the pool gains and
\* what the trader is paid are together the collateral, once.  Nothing is left for
\* the penalty and the reward of the doc of liquidate (see KeeperIsRewarded): both are
\* computed after the settlement, for the event.
LiquidationSettlesCollateral ==
    [][LiquidateStep =>
          \A id \in Ended :
              LET owner == positions[id].trader
              IN  (totalDeposits' - totalDeposits) + (usdc'[owner] - usdc[owner])
                      = positions[id].collateral]_<<allVars, leVars>>

\* The doc of liquidate: "4. Pay keeper reward".  Whoever calls it has the reward,
\* computed from the collateral of the position that ends, in the wallet.
KeeperIsRewarded ==
    [][LiquidateStep =>
          \E keeper \in Keepers :
              \A id \in Ended :
                  usdc'[keeper] - usdc[keeper]
                      >= KeeperReward(positions[id].collateral,
                                      SettledPnl(positions[id], positions[id].asset))
      ]_<<allVars, leVars>>
===============================================================================
