------------------------------- MODULE PerpsMath -------------------------------
(***************************************************************************)
(* The arithmetic of the contracts: the vault's share conversions          *)
(* (vault/src/shares.rs), the position manager's profit and fee            *)
(* (position-manager/src/math.rs), the liquidation engine's margin ratio   *)
(* and the funding contract's rates.                                       *)
(*                                                                         *)
(* Every division is Rust's i128 division, which truncates toward zero;    *)
(* TLA+'s \div rounds down, so the two differ on negative numerators.      *)
(***************************************************************************)
EXTENDS PerpsTypes

\* The number of values of a u32.  2^32 in the code; a parameter here because
\* TLC's integers have 32 bits, and so that a run can make the cast wrap.
CONSTANT U32Range

ASSUME U32RangeAssumption == U32Range \in Nat \ {0}

\* n / d of Rust for d > 0.
Trunc(n, d) == IF n >= 0 THEN n \div d ELSE -((-n) \div d)

\* n as u32 of Rust for n >= 0.
AsU32(n) == n % U32Range

-------------------------------------------------------------------------------
\* Vault shares.  The arguments are never negative.

\* Mutant: the division rounds up, in favour of the depositor.
CalcSharesToMintUp(amount, shares, deposits) ==
    IF shares = 0 \/ deposits = 0 THEN amount
    ELSE (amount * shares + deposits - 1) \div deposits

CalcSharesToMint(amount, shares, deposits) ==
    IF shares = 0 \/ deposits = 0 THEN amount
    ELSE (amount * shares) \div deposits

CalcWithdrawalAmount(burnt, shares, deposits) ==
    IF shares = 0 THEN 0 ELSE (burnt * deposits) \div shares

CalcUtilizationBps(locked, deposits) ==
    IF deposits = 0 THEN 0 ELSE AsU32((locked * BPS) \div deposits)

\* The utilization is a u32 before the cast makes it one.
UtilizationFits(locked, deposits) ==
    deposits > 0 => (locked * BPS) \div deposits < U32Range

-------------------------------------------------------------------------------
\* Positions.  size and entryPrice are positive.

CalculatePnl(direction, size, entryPrice, price) ==
    IF direction = "Long"
    THEN Trunc(size * (price - entryPrice), entryPrice)
    ELSE Trunc(size * (entryPrice - price), entryPrice)

\* A loss never exceeds the collateral; a profit is not capped.
CapLoss(pnl, collateral) == IF pnl < -collateral THEN -collateral ELSE pnl

CalculateFee(size, bps) == Trunc(size * bps, BPS)

CalcMarginRatio(collateral, pnl, size) == Trunc((collateral + pnl) * BPS, size)

-------------------------------------------------------------------------------
\* Funding.

Clamp(value, low, high) ==
    IF value < low THEN low ELSE IF value > high THEN high ELSE value

\* Mutant: the difference is taken the other way round.
SkewReversed(oiLong, oiShort) == Trunc((oiShort - oiLong) * BPS, oiLong + oiShort)

\* The skew of the open interest in basis points, positive when longs dominate.
Skew(oiLong, oiShort) == Trunc((oiLong - oiShort) * BPS, oiLong + oiShort)

\* The rate each direction pays for one interval; negative when it receives.
FundingRates(oiLong, oiShort, maxRate, spread) ==
    IF oiLong + oiShort = 0 THEN [d \in Directions |-> 0]
    ELSE LET base == Clamp(Skew(oiLong, oiShort), -maxRate, maxRate)
         IN  [d \in Directions |-> IF d = "Long" THEN base + spread
                                                 ELSE -(base - spread)]
===============================================================================
