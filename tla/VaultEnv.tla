------------------------------- MODULE VaultEnv -------------------------------
(***************************************************************************)
(* The vault with an arbitrary position manager: the registered address    *)
(* calls any restricted entry point, in any order and with any amounts.    *)
(* unlock_liquidity and settle_pnl are entry points the position manager   *)
(* of this repository never calls; they occur only here.                   *)
(***************************************************************************)
EXTENDS Vault

CONSTANTS
    ManagerAmounts,     \* amounts, sizes, collaterals and fees a manager passes
    ManagerPnls,        \* profits and losses a manager passes
    MaxDeposits,        \* bound of the model: the equity credited without a transfer
    MaxLocked           \* bound of the model: an empty pool locks any amount

ASSUME VaultEnvAssumption ==
    /\ ManagerAmounts \subseteq Int
    /\ ManagerPnls \subseteq Int

\* The collateral and the fee of an opening reach the vault by a transfer of the
\* token contract, which the vault does not see.
PostStep(trader, amount) ==
    /\ Transfer(trader, VaultAddr, amount)
    /\ UNCHANGED <<vaultConfig, totalShares, totalDeposits, lockedLiquidity, shareBalance>>

LockStep(pm, amount) ==
    /\ LockLiquidity(pm, amount)
    /\ lockedLiquidity' <= MaxLocked
    /\ UNCHANGED <<vaultConfig, totalShares, totalDeposits, shareBalance, usdc>>

UnlockStep(pm, amount) ==
    /\ UnlockLiquidity(pm, amount)
    /\ UNCHANGED <<vaultConfig, totalShares, totalDeposits, shareBalance, usdc>>

SettlePnlStep(pm, trader, pnl) ==
    /\ SettlePnl(pm, trader, pnl)
    /\ totalDeposits' <= MaxDeposits
    /\ UNCHANGED <<vaultConfig, totalShares, lockedLiquidity, shareBalance>>

SettlementStep(pm, trader, size, collateral, pnl, fee) ==
    /\ ClosePositionSettlement(pm, trader, size, collateral, pnl, fee)
    /\ totalDeposits' <= MaxDeposits
    /\ UNCHANGED <<vaultConfig, totalShares, shareBalance>>

CollectFeeStep(pm, amount) ==
    /\ CollectFee(pm, amount)
    /\ totalDeposits' <= MaxDeposits
    /\ UNCHANGED <<vaultConfig, totalShares, lockedLiquidity, shareBalance, usdc>>

ManagerStep ==
    \E pm \in PositionManagers :
        \/ \E amount \in ManagerAmounts :
               \/ LockStep(pm, amount)
               \/ UnlockStep(pm, amount)
               \/ CollectFeeStep(pm, amount)
        \/ \E trader \in Accounts, pnl \in ManagerPnls :
               \/ SettlePnlStep(pm, trader, pnl)
               \/ \E size, collateral, fee \in ManagerAmounts :
                      SettlementStep(pm, trader, size, collateral, pnl, fee)

TraderStep == \E trader \in Accounts, amount \in ManagerAmounts : PostStep(trader, amount)

VaultNext == VaultAdminStep \/ VaultLpStep \/ ManagerStep \/ TraderStep

VaultSpec == VaultInit /\ [][VaultNext]_vaultVars
===============================================================================
