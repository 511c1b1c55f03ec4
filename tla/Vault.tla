--------------------------------- MODULE Vault ---------------------------------
(***************************************************************************)
(* The liquidity pool (contracts/vault).  Liquidity providers exchange     *)
(* USDC for shares of the pool; the position manager locks the notional of *)
(* every open position against the pool, and settles profit, loss and fees *)
(* with it when a position ends.                                           *)
(*                                                                         *)
(* A contract call is one transaction: it either runs to its end or rolls  *)
(* every write back, those of the contracts it called included.  So each   *)
(* entry point is one action, whose guard is the conjunction of its error  *)
(* checks; a call that fails leaves no trace and is no step at all.        *)
(*                                                                         *)
(* The operations of the position manager constrain only the variables     *)
(* they write, so that a caller can conjoin several of them, as            *)
(* open_position does.  The module VaultEnv closes them into steps of an   *)
(* arbitrary position manager.                                             *)
(***************************************************************************)
EXTENDS PerpsMath, Sums

CONSTANTS
    Accounts,           \* users: liquidity providers, traders, keepers
    VaultAddr,          \* the address of this contract, holder of the pool's USDC
    PositionManagers,   \* addresses set_position_manager may be called with
    InitialUsdc,        \* the USDC each account holds at the start
    LpAmounts,          \* arguments of deposit and withdraw
    MaxUtilizations,    \* arguments of initialize and set_max_utilization
    MaxShares           \* bound of the model: deposits stop at this many shares

ASSUME VaultAssumption ==
    /\ IsFiniteSet(Accounts)
    /\ VaultAddr \notin Accounts
    /\ NoAddress \notin PositionManagers
    /\ InitialUsdc \in [Accounts -> Nat]
    /\ LpAmounts \subseteq Int
    /\ MaxUtilizations \subseteq Nat

VARIABLES
    vaultConfig,        \* instance storage: admin, utilization cap, position manager
    totalShares,
    totalDeposits,      \* the pool's equity as the vault accounts for it
    lockedLiquidity,    \* the notional of the open positions
    shareBalance,       \* persistent storage: the shares of each account
    usdc                \* balances in the USDC token contract (external)

vaultVars == <<vaultConfig, totalShares, totalDeposits, lockedLiquidity,
               shareBalance, usdc>>

Holders == Accounts \cup {VaultAddr}

\* The contract is deployed and nothing has been stored; reads of an absent key
\* give the defaults of storage.rs.
VaultInit ==
    /\ vaultConfig = [admin |-> NoAddress, maxUtilization |-> 8000,
                      positionManager |-> NoAddress]
    /\ totalShares = 0
    /\ totalDeposits = 0
    /\ lockedLiquidity = 0
    /\ shareBalance = [a \in Accounts |-> 0]
    /\ usdc = [h \in Holders |-> IF h = VaultAddr THEN 0 ELSE InitialUsdc[h]]

VaultInitialized == vaultConfig.admin # NoAddress

\* transfer of the token contract: it traps on a negative amount and on an
\* amount above the balance.
Transfer(from, to, amount) ==
    /\ amount >= 0
    /\ amount <= usdc[from]
    /\ usdc' = [usdc EXCEPT ![from] = @ - amount, ![to] = @ + amount]

-------------------------------------------------------------------------------
\* Administration.

ValidUtilization(bps) == bps > 0 /\ bps <= BPS

\* Mutant: a second call is not refused.
VaultInitializeAgain(admin, maxUtilization) ==
    /\ ValidUtilization(maxUtilization)
    /\ vaultConfig' = [vaultConfig EXCEPT !.admin = admin,
                                          !.maxUtilization = maxUtilization]
    /\ totalShares' = 0
    /\ totalDeposits' = 0
    /\ lockedLiquidity' = 0
    /\ UNCHANGED <<shareBalance, usdc>>

VaultInitialize(admin, maxUtilization) ==
    /\ ~VaultInitialized
    /\ ValidUtilization(maxUtilization)
    /\ vaultConfig' = [vaultConfig EXCEPT !.admin = admin,
                                          !.maxUtilization = maxUtilization]
    /\ totalShares' = 0
    /\ totalDeposits' = 0
    /\ lockedLiquidity' = 0
    /\ UNCHANGED <<shareBalance, usdc>>

\* Mutant: the new manager starts with nothing locked.
SetPositionManagerResets(admin, manager) ==
    /\ VaultInitialized
    /\ admin = vaultConfig.admin
    /\ vaultConfig' = [vaultConfig EXCEPT !.positionManager = manager]
    /\ lockedLiquidity' = 0
    /\ UNCHANGED <<totalShares, totalDeposits, shareBalance, usdc>>

SetPositionManager(admin, manager) ==
    /\ VaultInitialized
    /\ admin = vaultConfig.admin
    /\ vaultConfig' = [vaultConfig EXCEPT !.positionManager = manager]
    /\ UNCHANGED <<totalShares, totalDeposits, lockedLiquidity, shareBalance, usdc>>

SetMaxUtilization(admin, maxUtilization) ==
    /\ VaultInitialized
    /\ admin = vaultConfig.admin
    /\ ValidUtilization(maxUtilization)
    /\ vaultConfig' = [vaultConfig EXCEPT !.maxUtilization = maxUtilization]
    /\ UNCHANGED <<totalShares, totalDeposits, lockedLiquidity, shareBalance, usdc>>

-------------------------------------------------------------------------------
\* Liquidity providers.

Deposit(depositor, amount) ==
    LET minted == CalcSharesToMint(amount, totalShares, totalDeposits)
    IN  /\ VaultInitialized
        /\ amount > 0
        /\ minted > 0
        /\ Transfer(depositor, VaultAddr, amount)
        /\ totalDeposits' = totalDeposits + amount
        /\ totalShares' = totalShares + minted
        /\ shareBalance' = [shareBalance EXCEPT ![depositor] = @ + minted]
        /\ UNCHANGED <<vaultConfig, lockedLiquidity>>

\* Mutant: the utilization is that before the withdrawal.
EnoughLeftStale(remaining) ==
    CalcUtilizationBps(lockedLiquidity, totalDeposits) <= vaultConfig.maxUtilization

\* What a withdrawal must leave behind for the liquidity locked.
EnoughLeft(remaining) ==
    IF remaining > 0
    THEN CalcUtilizationBps(lockedLiquidity, remaining) <= vaultConfig.maxUtilization
    ELSE lockedLiquidity = 0

Withdraw(depositor, shares) ==
    LET returned == CalcWithdrawalAmount(shares, totalShares, totalDeposits)
    IN  /\ VaultInitialized
        /\ shares > 0
        /\ shares <= shareBalance[depositor]
        /\ returned > 0
        /\ EnoughLeft(totalDeposits - returned)
        /\ Transfer(VaultAddr, depositor, returned)
        /\ totalDeposits' = totalDeposits - returned
        /\ totalShares' = totalShares - shares
        /\ shareBalance' = [shareBalance EXCEPT ![depositor] = @ - shares]
        /\ UNCHANGED <<vaultConfig, lockedLiquidity>>

-------------------------------------------------------------------------------
\* The position manager.

RequirePositionManager(caller) ==
    /\ vaultConfig.positionManager # NoAddress
    /\ caller = vaultConfig.positionManager

\* Mutant: the new amount replaces what was locked.
LockLiquidityOverwrites(caller, amount) ==
    /\ RequirePositionManager(caller)
    /\ amount > 0
    /\ CalcUtilizationBps(lockedLiquidity + amount, totalDeposits)
            <= vaultConfig.maxUtilization
    /\ lockedLiquidity' = amount

\* Writes lockedLiquidity.
LockLiquidity(caller, amount) ==
    /\ RequirePositionManager(caller)
    /\ amount > 0
    /\ CalcUtilizationBps(lockedLiquidity + amount, totalDeposits)
            <= vaultConfig.maxUtilization
    /\ lockedLiquidity' = lockedLiquidity + amount

\* Writes lockedLiquidity.
UnlockLiquidity(caller, amount) ==
    /\ RequirePositionManager(caller)
    /\ amount > 0
    /\ lockedLiquidity >= amount
    /\ lockedLiquidity' = lockedLiquidity - amount

\* Mutant: the pool's equity is not compared with the profit.
SettlePnlUnchecked(caller, trader, pnl) ==
    /\ RequirePositionManager(caller)
    /\ totalDeposits' = totalDeposits - pnl
    /\ IF pnl > 0 THEN Transfer(VaultAddr, trader, pnl) ELSE UNCHANGED usdc

\* Writes totalDeposits and usdc.  A loss was transferred to the vault before.
SettlePnl(caller, trader, pnl) ==
    /\ RequirePositionManager(caller)
    /\ pnl <= totalDeposits
    /\ totalDeposits' = totalDeposits - pnl
    /\ IF pnl > 0 THEN Transfer(VaultAddr, trader, pnl) ELSE UNCHANGED usdc

\* Mutant: the fee is credited to the pool and paid out as well.
SettlementPaysFeeTwice(caller, trader, size, collateral, pnl, fee) ==
    LET payout == collateral + pnl
    IN  /\ RequirePositionManager(caller)
        /\ lockedLiquidity - size >= 0
        /\ totalDeposits - pnl + fee >= 0
        /\ lockedLiquidity' = lockedLiquidity - size
        /\ totalDeposits' = totalDeposits - pnl + fee
        /\ IF payout > 0 THEN Transfer(VaultAddr, trader, payout)
                         ELSE UNCHANGED usdc

\* Writes lockedLiquidity, totalDeposits and usdc.  The collateral is already in
\* the vault; the trader receives what the loss and the fee leave of it.
ClosePositionSettlement(caller, trader, size, collateral, pnl, fee) ==
    LET payout == collateral + pnl - fee
    IN  /\ RequirePositionManager(caller)
        /\ lockedLiquidity - size >= 0
        /\ totalDeposits - pnl + fee >= 0
        /\ lockedLiquidity' = lockedLiquidity - size
        /\ totalDeposits' = totalDeposits - pnl + fee
        /\ IF payout > 0 THEN Transfer(VaultAddr, trader, payout)
                         ELSE UNCHANGED usdc

\* Mutant: the fee arrives and is never credited.
CollectFeeUncredited(caller, amount) ==
    /\ RequirePositionManager(caller)
    /\ amount > 0
    /\ UNCHANGED totalDeposits

\* Writes totalDeposits.  The fee was transferred to the vault before.
CollectFee(caller, amount) ==
    /\ RequirePositionManager(caller)
    /\ amount > 0
    /\ totalDeposits' = totalDeposits + amount

-------------------------------------------------------------------------------
\* Steps of the administrator and of the liquidity providers.

VaultAdminStep ==
    \E admin \in Admins :
        \/ \E bps \in MaxUtilizations :
               \/ VaultInitialize(admin, bps)
               \/ SetMaxUtilization(admin, bps)
        \/ \E manager \in PositionManagers : SetPositionManager(admin, manager)

VaultLpStep ==
    \E lp \in Accounts, amount \in LpAmounts :
        \/ Deposit(lp, amount) /\ totalShares' <= MaxShares
        \/ Withdraw(lp, amount)

-------------------------------------------------------------------------------
\* Properties.

\* Every stored quantity has its type; the pool's equity, its shares and the
\* liquidity locked are never negative (storage.rs keeps them as signed i128).
VaultTypeOK ==
    /\ vaultConfig \in [admin : Admins \cup {NoAddress}, maxUtilization : Nat,
                        positionManager : PositionManagers \cup {NoAddress}]
    /\ totalShares \in Nat
    /\ totalDeposits \in Nat
    /\ lockedLiquidity \in Nat
    /\ shareBalance \in [Accounts -> Nat]
    /\ usdc \in [Holders -> Nat]

\* The shares of the accounts add up to the total the share price is computed
\* from, however deposits and withdrawals round and interleave (deposit and
\* withdraw update the two in separate storage entries).
SharesBacked == totalShares = SumOver(shareBalance)

\* No deposit or withdrawal lowers what a share is worth to the others, nor may
\* their rounding add up to it: D'/S' >= D/S, without the division.  When no
\* share exists (the pool may still hold orphaned fees) there are no others.
NoDilution ==
    [][VaultLpStep /\ totalShares > 0
         => totalDeposits' * totalShares >= totalDeposits * totalShares']_vaultVars

\* A withdrawal leaves the open positions covered: with a cap below 100% the equity
\* that remains is no less than the notional locked, although the cap is checked
\* on a rounded ratio; unless that ratio is 2^32 or more, so that the cast to u32
\* changes it (the notional is then more than 429 thousand times the equity).
WithdrawalKeepsCover ==
    [][totalShares' < totalShares
         /\ vaultConfig.maxUtilization < BPS
         /\ UtilizationFits(lockedLiquidity', totalDeposits')
         => lockedLiquidity' <= totalDeposits']_vaultVars
===============================================================================
