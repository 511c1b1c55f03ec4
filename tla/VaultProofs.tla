------------------------------ MODULE VaultProofs ------------------------------
(***************************************************************************)
(* The vault: what its own operations preserve, whoever calls the          *)
(* restricted ones, and, under an arbitrary position manager, its type,    *)
(* the backing of its shares, no dilution, and the cover a withdrawal      *)
(* leaves, for every set of accounts, every amount and every cap.          *)
(*                                                                         *)
(* The module of the position manager uses the first part and the lemmas   *)
(* about single steps; the constants of VaultEnv are those of an arbitrary *)
(* manager, and nothing about the real one depends on them.                *)
(***************************************************************************)
EXTENDS VaultEnv, PerpsMathProofs

-------------------------------------------------------------------------------
\* The vault's own operations.

\* The inductive invariant.  SharesBacked is needed for the type: a withdrawal
\* keeps the equity and the total of shares natural only because no account holds
\* more shares than there are.  Nothing happens to a vault before it is
\* initialized, so the zeroes initialize writes are there already.
EmptyUntilInitialized ==
    ~VaultInitialized =>
        /\ vaultConfig.positionManager = NoAddress
        /\ totalShares = 0 /\ totalDeposits = 0 /\ lockedLiquidity = 0

VaultInv == VaultTypeOK /\ SharesBacked /\ EmptyUntilInitialized

\* A transfer moves the amount and leaves every other balance alone.
LEMMA TransferMoves ==
    ASSUME usdc \in [Holders -> Nat],
           NEW from \in Holders, NEW to \in Holders, from # to,
           NEW amount \in Int, Transfer(from, to, amount)
    PROVE  /\ usdc' \in [Holders -> Nat]
           /\ amount \in Nat
           /\ usdc'[from] = usdc[from] - amount
           /\ usdc'[to] = usdc[to] + amount
           /\ \A h \in Holders \ {from, to} : usdc'[h] = usdc[h]
<1>1. amount >= 0 /\ amount <= usdc[from] BY DEF Transfer
<1>2. usdc' = [usdc EXCEPT ![from] = @ - amount, ![to] = @ + amount] BY DEF Transfer
<1>3. usdc[from] \in Nat /\ usdc[to] \in Nat OBVIOUS
<1>4. usdc[from] - amount \in Nat /\ usdc[to] + amount \in Nat BY <1>1, <1>3
<1>5. /\ usdc'[from] = usdc[from] - amount
      /\ usdc'[to] = usdc[to] + amount
      /\ \A h \in Holders \ {from, to} : usdc'[h] = usdc[h]
      /\ DOMAIN usdc' = Holders
    BY <1>2
<1>6. usdc' \in [Holders -> Nat]
    <2>1. \A h \in Holders : usdc'[h] \in Nat BY <1>4, <1>5
    <2>2. usdc' = [h \in Holders |-> usdc'[h]] BY <1>2
    <2>3. QED BY <2>1, <2>2
<1>7. QED BY <1>1, <1>5, <1>6

\* A vault without shares and tokens is fine, whatever its configuration, unless it
\* has a position manager before it is initialized.
LEMMA EmptyVault ==
    ASSUME vaultConfig \in [admin : Admins \cup {NoAddress}, maxUtilization : Nat,
                            positionManager : PositionManagers \cup {NoAddress}],
           VaultInitialized \/ vaultConfig.positionManager = NoAddress,
           totalShares = 0, totalDeposits = 0, lockedLiquidity = 0,
           shareBalance = [a \in Accounts |-> 0],
           usdc = [h \in Holders |-> IF h = VaultAddr THEN 0 ELSE InitialUsdc[h]]
    PROVE  VaultInv
<1>1. VaultTypeOK
    <2>1. \A h \in Holders : h # VaultAddr => InitialUsdc[h] \in Nat
        BY VaultAssumption DEF Holders
    <2>2. usdc \in [Holders -> Nat] BY <2>1
    <2>3. QED BY <2>2 DEF VaultTypeOK
<1>2. SharesBacked BY SumOverZero DEF SharesBacked
<1>3. EmptyUntilInitialized BY DEF EmptyUntilInitialized
<1>4. QED BY <1>1, <1>2, <1>3 DEF VaultInv

\* The vault starts in the invariant.
LEMMA VaultInitInv == VaultInit => VaultInv
BY EmptyVault DEF VaultInit

\* Deposit: the invariant, no dilution, and what arrives is credited.
LEMMA DepositPreserves ==
    ASSUME VaultInv, NEW lp \in Accounts, NEW amount \in LpAmounts, Deposit(lp, amount)
    PROVE  /\ VaultInv'
           /\ totalShares > 0 =>
                totalDeposits' * totalShares >= totalDeposits * totalShares'
           /\ usdc'[VaultAddr] - totalDeposits' = usdc[VaultAddr] - totalDeposits
<1>. DEFINE minted == CalcSharesToMint(amount, totalShares, totalDeposits)
<1>1. /\ amount \in Nat
      /\ Transfer(lp, VaultAddr, amount)
      /\ totalDeposits' = totalDeposits + amount
      /\ totalShares' = totalShares + minted
      /\ shareBalance' = [shareBalance EXCEPT ![lp] = @ + minted]
      /\ UNCHANGED <<vaultConfig, lockedLiquidity>>
    BY VaultAssumption DEF Deposit
<1>2. /\ totalShares \in Nat /\ totalDeposits \in Nat
      /\ shareBalance \in [Accounts -> Nat] /\ usdc \in [Holders -> Nat]
    BY DEF VaultInv, VaultTypeOK
<1>3. /\ minted \in Nat
      /\ totalShares > 0 => totalDeposits * minted <= amount * totalShares
    BY <1>1, <1>2, MintBounds
<1>. HIDE DEF minted
<1>4. usdc' \in [Holders -> Nat] /\ usdc'[VaultAddr] = usdc[VaultAddr] + amount
    <2>1. lp \in Holders /\ VaultAddr \in Holders /\ lp # VaultAddr
        BY VaultAssumption DEF Holders
    <2>2. QED BY <1>1, <1>2, <2>1, TransferMoves
<1>5. shareBalance[lp] + minted \in Nat BY <1>2, <1>3
<1>6. VaultTypeOK'
    BY <1>1, <1>2, <1>3, <1>4, <1>5 DEF VaultInv, VaultTypeOK, Holders
<1>7. SharesBacked'
    <2>. DEFINE held == shareBalance[lp] + minted
    <2>1. shareBalance' = [shareBalance EXCEPT ![lp] = held] /\ held \in Nat
        BY <1>1, <1>5
    <2>2. IsFiniteSet(Accounts) BY VaultAssumption
    <2>3. SumOver(shareBalance') = SumOver(shareBalance) - shareBalance[lp] + held
        <3>. HIDE DEF held
        <3>1. SumOver([shareBalance EXCEPT ![lp] = held])
                  = SumOver(shareBalance) - shareBalance[lp] + held
            BY <1>2, <2>1, <2>2, SumOverExcept
        <3>2. QED BY <3>1, <2>1
    <2>4. totalShares = SumOver(shareBalance) BY DEF VaultInv, SharesBacked
    <2>5. shareBalance[lp] \in Nat BY <1>2
    <2>6. QED BY <2>3, <2>4, <2>5, <1>1, <1>2, <1>3 DEF SharesBacked
<1>8. ASSUME totalShares > 0
      PROVE  totalDeposits' * totalShares >= totalDeposits * totalShares'
    BY <1>1, <1>2, <1>3, <1>8, SMT
<1>9. EmptyUntilInitialized'
    BY DEF Deposit, EmptyUntilInitialized, VaultInitialized
<1>10. usdc'[VaultAddr] - totalDeposits' = usdc[VaultAddr] - totalDeposits
    <2>1. usdc[VaultAddr] \in Nat BY <1>2 DEF Holders
    <2>2. QED BY <2>1, <1>1, <1>2, <1>4
<1>11. QED BY <1>6, <1>7, <1>8, <1>9, <1>10 DEF VaultInv

\* Withdraw: the invariant, no dilution, and what leaves is debited.
LEMMA WithdrawPreserves ==
    ASSUME VaultInv, NEW lp \in Accounts, NEW shares \in LpAmounts, Withdraw(lp, shares)
    PROVE  /\ VaultInv'
           /\ totalDeposits' * totalShares >= totalDeposits * totalShares'
           /\ usdc'[VaultAddr] - totalDeposits' = usdc[VaultAddr] - totalDeposits
<1>. DEFINE returned == CalcWithdrawalAmount(shares, totalShares, totalDeposits)
<1>1. /\ shares \in Nat
      /\ shares <= shareBalance[lp]
      /\ Transfer(VaultAddr, lp, returned)
      /\ totalDeposits' = totalDeposits - returned
      /\ totalShares' = totalShares - shares
      /\ shareBalance' = [shareBalance EXCEPT ![lp] = @ - shares]
      /\ UNCHANGED <<vaultConfig, lockedLiquidity>>
    BY VaultAssumption DEF Withdraw
<1>2. /\ totalShares \in Nat /\ totalDeposits \in Nat
      /\ shareBalance \in [Accounts -> Nat] /\ usdc \in [Holders -> Nat]
    BY DEF VaultInv, VaultTypeOK
<1>3. totalShares = SumOver(shareBalance) BY DEF VaultInv, SharesBacked
<1>4. shares <= totalShares
    <2>1. shareBalance[lp] <= SumOver(shareBalance)
        BY <1>2, VaultAssumption, SumOverBounds
    <2>2. shareBalance[lp] \in Nat BY <1>2
    <2>3. QED BY <1>1, <1>2, <1>3, <2>1, <2>2
<1>5. /\ returned \in Nat
      /\ totalShares * returned <= shares * totalDeposits
      /\ returned <= totalDeposits
    BY <1>1, <1>2, <1>4, WithdrawalBounds
<1>. HIDE DEF returned
<1>6. usdc' \in [Holders -> Nat] /\ usdc'[VaultAddr] = usdc[VaultAddr] - returned
    <2>1. lp \in Holders /\ VaultAddr \in Holders /\ lp # VaultAddr
        BY VaultAssumption DEF Holders
    <2>2. QED BY <1>1, <1>2, <1>5, <2>1, TransferMoves
<1>7. shareBalance[lp] - shares \in Nat BY <1>1, <1>2
<1>8. totalDeposits' \in Nat /\ totalShares' \in Nat BY <1>1, <1>2, <1>4, <1>5
<1>9. VaultTypeOK'
    BY <1>1, <1>2, <1>6, <1>7, <1>8 DEF VaultInv, VaultTypeOK, Holders
<1>10. SharesBacked'
    <2>. DEFINE held == shareBalance[lp] - shares
    <2>1. shareBalance' = [shareBalance EXCEPT ![lp] = held] /\ held \in Nat
        BY <1>1, <1>7
    <2>2. IsFiniteSet(Accounts) BY VaultAssumption
    <2>3. SumOver(shareBalance') = SumOver(shareBalance) - shareBalance[lp] + held
        <3>. HIDE DEF held
        <3>1. SumOver([shareBalance EXCEPT ![lp] = held])
                  = SumOver(shareBalance) - shareBalance[lp] + held
            BY <1>2, <2>1, <2>2, SumOverExcept
        <3>2. QED BY <3>1, <2>1
    <2>4. shareBalance[lp] \in Nat BY <1>2
    <2>5. QED BY <2>3, <2>4, <1>1, <1>2, <1>3 DEF SharesBacked
<1>11. totalDeposits' * totalShares >= totalDeposits * totalShares'
    BY <1>1, <1>2, <1>5, SMT
<1>12. EmptyUntilInitialized'
    BY DEF Withdraw, EmptyUntilInitialized, VaultInitialized
<1>13. usdc'[VaultAddr] - totalDeposits' = usdc[VaultAddr] - totalDeposits
    <2>1. usdc[VaultAddr] \in Nat BY <1>2 DEF Holders
    <2>2. QED BY <2>1, <1>1, <1>2, <1>5, <1>6
<1>14. QED BY <1>9, <1>10, <1>11, <1>12, <1>13 DEF VaultInv

\* A utilization of at most a cap below 100%, as the vault computes it, means that
\* the locked notional is less than the equity, unless the cast to u32 changed it.
LEMMA UtilizationCovers ==
    ASSUME NEW locked \in Nat, NEW deposits \in Nat \ {0}, NEW cap \in Nat,
           cap < BPS, UtilizationFits(locked, deposits),
           CalcUtilizationBps(locked, deposits) <= cap
    PROVE  locked <= deposits
<1>. DEFINE n == locked * BPS
            q == n \div deposits
<1>1. n \in Nat BY ProductNat DEF BPS
<1>2. q \in Nat /\ deposits * q <= n /\ n < deposits * q + deposits
    BY <1>1, DivBounds
<1>3. q < U32Range BY DEF UtilizationFits
<1>4. q % U32Range = q
    <2>. HIDE DEF q, n
    <2>1. U32Range \in Nat \ {0} BY U32RangeAssumption
    <2>2. QED BY <1>2, <1>3, <2>1
<1>5. q <= cap BY <1>4 DEF CalcUtilizationBps, AsU32
<1>6. q + 1 <= BPS
    <2>. HIDE DEF q
    <2>1. QED BY <1>2, <1>5 DEF BPS
<1>7. deposits * q + deposits <= deposits * BPS
    <2>. HIDE DEF q
    <2>1. QED BY <1>2, <1>6, SMT DEF BPS
<1>8. QED
    <2>. HIDE DEF q
    <2>1. QED BY <1>2, <1>7, SMT DEF BPS

\* Administration leaves the invariant alone.  initialize runs once, before any
\* share exists, so its zeroes change nothing.
LEMMA VaultAdminPreserves ==
    ASSUME VaultInv, VaultAdminStep
    PROVE  /\ VaultInv'
           /\ UNCHANGED <<totalShares, totalDeposits, lockedLiquidity, shareBalance, usdc>>
<1>1. UNCHANGED <<totalShares, totalDeposits, lockedLiquidity, shareBalance, usdc>>
    BY DEF VaultInv, EmptyUntilInitialized, VaultAdminStep, VaultInitialize,
           SetMaxUtilization, SetPositionManager
<1>2. vaultConfig' \in [admin : Admins \cup {NoAddress}, maxUtilization : Nat,
                        positionManager : PositionManagers \cup {NoAddress}]
    BY VaultAssumption
    DEF VaultInv, VaultTypeOK, VaultAdminStep, VaultInitialize, SetMaxUtilization,
        SetPositionManager
<1>3. VaultTypeOK' BY <1>1, <1>2 DEF VaultInv, VaultTypeOK, Holders
<1>4. SharesBacked' BY <1>1 DEF VaultInv, SharesBacked
<1>5. VaultInitialized'
    <2>1. PICK admin \in Admins :
              \/ \E bps \in MaxUtilizations : \/ VaultInitialize(admin, bps)
                                              \/ SetMaxUtilization(admin, bps)
              \/ \E manager \in PositionManagers : SetPositionManager(admin, manager)
        BY DEF VaultAdminStep
    <2>2. admin # NoAddress BY NoAddressAssumption
    <2>3. vaultConfig'.admin = admin
        BY <2>1 DEF VaultInv, VaultTypeOK, VaultInitialize, SetMaxUtilization,
                    SetPositionManager
    <2>4. QED BY <2>2, <2>3 DEF VaultInitialized
<1>6. QED BY <1>1, <1>3, <1>4, <1>5 DEF VaultInv, EmptyUntilInitialized

-------------------------------------------------------------------------------
\* The vault under an arbitrary position manager.

\* A call of the position manager: it finds an initialized vault, and leaves the
\* shares alone.
LEMMA ManagerPreserves ==
    ASSUME VaultInv, ManagerStep
    PROVE  VaultInv' /\ totalShares' = totalShares
<1>1. PICK pm \in PositionManagers :
          \/ \E amount \in ManagerAmounts : \/ LockStep(pm, amount)
                                           \/ UnlockStep(pm, amount)
                                           \/ CollectFeeStep(pm, amount)
          \/ \E trader \in Accounts, pnl \in ManagerPnls :
                \/ SettlePnlStep(pm, trader, pnl)
                \/ \E size, collateral, fee \in ManagerAmounts :
                       SettlementStep(pm, trader, size, collateral, pnl, fee)
    BY DEF ManagerStep
<1>2. UNCHANGED <<vaultConfig, totalShares, shareBalance>>
    BY <1>1 DEF LockStep, UnlockStep, CollectFeeStep, SettlePnlStep, SettlementStep
<1>3. VaultInitialized
    <2>1. vaultConfig.positionManager # NoAddress
        BY <1>1 DEF LockStep, UnlockStep, CollectFeeStep, SettlePnlStep, SettlementStep,
                    LockLiquidity, UnlockLiquidity, CollectFee, SettlePnl,
                    ClosePositionSettlement, RequirePositionManager
    <2>2. QED BY <2>1 DEF VaultInv, EmptyUntilInitialized
<1>. DEFINE Typed == /\ totalDeposits \in Nat
                    /\ lockedLiquidity \in Nat
                    /\ usdc \in [Holders -> Nat]
<1>4. Typed'
    <2>. USE VaultEnvAssumption
    <2>1. Typed
        BY DEF VaultInv, VaultTypeOK
    <2>2. VaultAddr \in Holders /\ \A a \in Accounts : a \in Holders /\ a # VaultAddr
        BY VaultAssumption DEF Holders
    <2>3. ASSUME NEW amount \in ManagerAmounts, LockStep(pm, amount)
          PROVE  Typed'
        BY <2>1, <2>3 DEF LockStep, LockLiquidity
    <2>4. ASSUME NEW amount \in ManagerAmounts, UnlockStep(pm, amount)
          PROVE  Typed'
        BY <2>1, <2>4 DEF UnlockStep, UnlockLiquidity
    <2>5. ASSUME NEW amount \in ManagerAmounts, CollectFeeStep(pm, amount)
          PROVE  Typed'
        BY <2>1, <2>5 DEF CollectFeeStep, CollectFee
    <2>6. ASSUME NEW trader \in Accounts, NEW pnl \in ManagerPnls,
                 SettlePnlStep(pm, trader, pnl)
          PROVE  Typed'
        <3>1. pnl \in Int /\ pnl <= totalDeposits /\ totalDeposits' = totalDeposits - pnl
              /\ UNCHANGED lockedLiquidity
              /\ (Transfer(VaultAddr, trader, pnl) \/ UNCHANGED usdc)
            BY <2>6 DEF SettlePnlStep, SettlePnl
        <3>2. usdc' \in [Holders -> Nat] BY <2>1, <2>2, <3>1, TransferMoves
        <3>3. QED BY <2>1, <3>1, <3>2
    <2>7. ASSUME NEW trader \in Accounts, NEW pnl \in ManagerPnls,
                 NEW size \in ManagerAmounts, NEW collateral \in ManagerAmounts,
                 NEW fee \in ManagerAmounts,
                 SettlementStep(pm, trader, size, collateral, pnl, fee)
          PROVE  Typed'
        <3>. DEFINE payout == collateral + pnl - fee
        <3>1. /\ pnl \in Int /\ size \in Int /\ fee \in Int /\ payout \in Int
              /\ lockedLiquidity - size >= 0 /\ lockedLiquidity' = lockedLiquidity - size
              /\ totalDeposits - pnl + fee >= 0
              /\ totalDeposits' = totalDeposits - pnl + fee
              /\ (Transfer(VaultAddr, trader, payout) \/ UNCHANGED usdc)
            BY <2>7 DEF SettlementStep, ClosePositionSettlement
        <3>. HIDE DEF payout
        <3>2. usdc' \in [Holders -> Nat] BY <2>1, <2>2, <3>1, TransferMoves
        <3>3. QED BY <2>1, <3>1, <3>2
    <2>8. QED BY <1>1, <2>3, <2>4, <2>5, <2>6, <2>7
<1>5. VaultTypeOK' BY <1>2, <1>4 DEF VaultInv, VaultTypeOK, Holders
<1>6. SharesBacked' BY <1>2 DEF VaultInv, SharesBacked
<1>7. EmptyUntilInitialized' BY <1>2, <1>3 DEF EmptyUntilInitialized, VaultInitialized
<1>8. QED BY <1>2, <1>5, <1>6, <1>7 DEF VaultInv

\* A transfer to the vault changes balances only.
LEMMA TraderPreserves ==
    ASSUME VaultInv, TraderStep
    PROVE  VaultInv' /\ totalShares' = totalShares
<1>1. PICK trader \in Accounts, amount \in ManagerAmounts : PostStep(trader, amount)
    BY DEF TraderStep
<1>2. usdc' \in [Holders -> Nat]
    <2>1. usdc \in [Holders -> Nat] BY DEF VaultInv, VaultTypeOK
    <2>2. trader \in Holders /\ VaultAddr \in Holders /\ trader # VaultAddr
        BY VaultAssumption DEF Holders
    <2>3. amount \in Int /\ Transfer(trader, VaultAddr, amount)
        BY <1>1, VaultEnvAssumption DEF PostStep
    <2>4. QED BY <2>1, <2>2, <2>3, TransferMoves
<1>3. UNCHANGED <<vaultConfig, totalShares, totalDeposits, lockedLiquidity, shareBalance>>
    BY <1>1 DEF PostStep
<1>4. QED BY <1>2, <1>3 DEF VaultInv, VaultTypeOK, SharesBacked, EmptyUntilInitialized,
                            VaultInitialized, Holders

\* A step of a liquidity provider is a deposit or a withdrawal.
LEMMA LpPreserves ==
    ASSUME VaultInv, VaultLpStep
    PROVE  /\ VaultInv'
           /\ totalShares > 0 =>
                totalDeposits' * totalShares >= totalDeposits * totalShares'
<1>1. PICK lp \in Accounts, amount \in LpAmounts :
          Deposit(lp, amount) \/ Withdraw(lp, amount)
    BY DEF VaultLpStep
<1>2. QED BY <1>1, DepositPreserves, WithdrawPreserves

\* Every step of the vault preserves the invariant.
LEMMA VaultNextPreserves == VaultInv /\ [VaultNext]_vaultVars => VaultInv'
<1>. SUFFICES ASSUME VaultInv, [VaultNext]_vaultVars PROVE VaultInv' OBVIOUS
<1>1. CASE VaultAdminStep BY <1>1, VaultAdminPreserves
<1>2. CASE VaultLpStep BY <1>2, LpPreserves
<1>3. CASE ManagerStep BY <1>3, ManagerPreserves
<1>4. CASE TraderStep BY <1>4, TraderPreserves
<1>5. CASE UNCHANGED vaultVars
    BY <1>5 DEF VaultInv, VaultTypeOK, SharesBacked, EmptyUntilInitialized,
                VaultInitialized, Holders, vaultVars
<1>6. QED BY <1>1, <1>2, <1>3, <1>4, <1>5 DEF VaultNext

\* The invariant of the vault: its types (no negative equity, shares or lock, which
\* signed storage would hold as well) and the backing of its shares.
THEOREM VaultInvariant == VaultSpec => []VaultInv
<1>1. VaultInit => VaultInv BY VaultInitInv
<1>2. VaultInv /\ [VaultNext]_vaultVars => VaultInv' BY VaultNextPreserves
<1>3. QED BY <1>1, <1>2, PTL DEF VaultSpec

\* Type correctness (storage.rs).
THEOREM VaultTypeCorrect == VaultSpec => []VaultTypeOK
<1>1. VaultInv => VaultTypeOK BY DEF VaultInv
<1>2. QED BY <1>1, VaultInvariant, PTL

\* The shares of the accounts add up to the total (deposit, withdraw).
THEOREM SharesAlwaysBacked == VaultSpec => []SharesBacked
<1>1. VaultInv => SharesBacked BY DEF VaultInv
<1>2. QED BY <1>1, VaultInvariant, PTL

\* No deposit or withdrawal lowers the value of the shares of the others, however
\* its divisions round (calc_shares_to_mint, calc_withdrawal_amount).
THEOREM LpStepsNeverDilute == VaultSpec => NoDilution
<1>1. VaultInv /\ [VaultNext]_vaultVars =>
        [VaultLpStep /\ totalShares > 0
            => totalDeposits' * totalShares >= totalDeposits * totalShares']_vaultVars
    BY LpPreserves
<1>2. QED BY <1>1, VaultInvariant, PTL DEF VaultSpec, NoDilution

\* A deposit burns no shares.
LEMMA DepositMints ==
    ASSUME VaultInv, NEW lp \in Accounts, NEW amount \in LpAmounts, Deposit(lp, amount)
    PROVE  totalShares' > totalShares
<1>. DEFINE minted == CalcSharesToMint(amount, totalShares, totalDeposits)
<1>1. minted > 0 /\ totalShares' = totalShares + minted BY DEF Deposit
<1>2. totalShares \in Nat /\ totalDeposits \in Nat BY DEF VaultInv, VaultTypeOK
<1>3. minted \in Nat
    <2>1. amount \in Nat BY VaultAssumption DEF Deposit
    <2>2. QED BY <1>2, <2>1, MintBounds
<1>. HIDE DEF minted
<1>4. QED BY <1>1, <1>2, <1>3

\* The check of the rounded utilization leaves the locked notional covered.
LEMMA WithdrawKeepsCover ==
    ASSUME VaultInv, NEW lp \in Accounts, NEW amount \in LpAmounts, Withdraw(lp, amount),
           vaultConfig.maxUtilization < BPS,
           UtilizationFits(lockedLiquidity', totalDeposits')
    PROVE  lockedLiquidity' <= totalDeposits'
<1>1. VaultInv' BY WithdrawPreserves
<1>2. EnoughLeft(totalDeposits') /\ UNCHANGED lockedLiquidity BY DEF Withdraw
<1>3. /\ totalDeposits' \in Nat /\ lockedLiquidity \in Nat
      /\ vaultConfig.maxUtilization \in Nat
    BY <1>1, <1>2 DEF VaultInv, VaultTypeOK
<1>4. CASE totalDeposits' > 0
    <2>1. CalcUtilizationBps(lockedLiquidity, totalDeposits') <= vaultConfig.maxUtilization
        BY <1>2, <1>4 DEF EnoughLeft
    <2>2. totalDeposits' \in Nat \ {0} BY <1>3, <1>4
    <2>3. UtilizationFits(lockedLiquidity, totalDeposits') BY <1>2
    <2>4. lockedLiquidity <= totalDeposits'
        <3>. DEFINE remaining == totalDeposits'
        <3>1. /\ remaining \in Nat \ {0} /\ UtilizationFits(lockedLiquidity, remaining)
              /\ CalcUtilizationBps(lockedLiquidity, remaining)
                    <= vaultConfig.maxUtilization
            BY <2>1, <2>2, <2>3
        <3>. HIDE DEF remaining
        <3>2. lockedLiquidity <= remaining BY <1>3, <3>1, UtilizationCovers
        <3>3. QED BY <3>2 DEF remaining
    <2>5. QED BY <1>2, <2>4
<1>5. CASE ~(totalDeposits' > 0)
    BY <1>2, <1>3, <1>5 DEF EnoughLeft
<1>6. QED BY <1>4, <1>5

\* Of the providers' steps only a withdrawal burns shares, and it keeps the cover.
LEMMA BurnKeepsCover ==
    ASSUME VaultInv, VaultLpStep,
           totalShares' < totalShares, vaultConfig.maxUtilization < BPS,
           UtilizationFits(lockedLiquidity', totalDeposits')
    PROVE  lockedLiquidity' <= totalDeposits'
<1>1. PICK lp \in Accounts, amount \in LpAmounts :
          Deposit(lp, amount) \/ Withdraw(lp, amount)
    BY DEF VaultLpStep
<1>2. CASE Deposit(lp, amount)
    <2>1. totalShares' > totalShares BY <1>2, DepositMints
    <2>2. totalShares \in Nat /\ totalShares' \in Nat
        BY <1>2, DepositPreserves DEF VaultInv, VaultTypeOK
    <2>3. QED BY <2>1, <2>2
<1>3. CASE Withdraw(lp, amount) BY <1>3, WithdrawKeepsCover
<1>4. QED BY <1>1, <1>2, <1>3

\* A withdrawal leaves the open positions covered (the check in withdraw).
THEOREM WithdrawalsKeepCover == VaultSpec => WithdrawalKeepsCover
<1>1. ASSUME VaultInv, [VaultNext]_vaultVars
      PROVE  VaultLpStep \/ totalShares' = totalShares
    BY <1>1, VaultAdminPreserves, ManagerPreserves, TraderPreserves DEF VaultNext, vaultVars
<1>2. VaultInv => totalShares \in Nat BY DEF VaultInv, VaultTypeOK
<1>3. VaultInv /\ [VaultNext]_vaultVars =>
        [totalShares' < totalShares
           /\ vaultConfig.maxUtilization < BPS
           /\ UtilizationFits(lockedLiquidity', totalDeposits')
           => lockedLiquidity' <= totalDeposits']_vaultVars
    BY <1>1, <1>2, BurnKeepsCover
<1>4. QED BY <1>3, VaultInvariant, PTL DEF VaultSpec, WithdrawalKeepsCover
===============================================================================
