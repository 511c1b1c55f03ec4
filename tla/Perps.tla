--------------------------------- MODULE Perps ---------------------------------
(***************************************************************************)
(* The five contracts together: the funding contract reads the open        *)
(* interest of the position manager, everything else is as in the module   *)
(* LiquidationEngine.                                                      *)
(***************************************************************************)
EXTENDS LiquidationEngine

CONSTANTS FundingIntervals, MaxRates, Spreads, OpenInterests

\* OpenInterests is of no concern here, where the open interest is the position
\* manager's: it is what the funding contract's own specification allows.
ASSUME PerpsAssumption ==
    /\ FundingIntervals \subseteq Nat
    /\ MaxRates \subseteq Nat
    /\ Spreads \subseteq Nat

VARIABLES frConfig, cumulativeFunding, lastFundingTime

FR == INSTANCE FundingRate

frVars == <<frConfig, cumulativeFunding, lastFundingTime>>

perpsVars == <<allVars, leVars, frVars>>

PerpsInit == PmSpecInit /\ LeInit /\ FR!FrInit

PerpsNext ==
    \/ LeNext /\ UNCHANGED frVars
    \/ FR!FrStep /\ UNCHANGED <<allVars, leVars>>

PerpsSpec == PerpsInit /\ [][PerpsNext]_perpsVars

-------------------------------------------------------------------------------
\* Properties.

\* The composition is an implementation of the funding contract's own
\* specification: the position manager and the ledger behave as the environment
\* assumed there, and nobody else writes the indices.
FundingSpec == FR!FrSpec

\* README: "Lazy funding settlement via cumulative indices, settled per-position
\* at close".  A position whose direction has paid funding since it was opened
\* (its funding_index is 0) is settled for less than its profit and fee alone.
FundingIsSettledAtClose ==
    [][PmTradeStep =>
          \A id \in DOMAIN positions \ DOMAIN positions' :
              LET p   == positions[id]
                  pnl == SettledPnl(p, p.asset)
                  fee == CalculateFee(p.size, pmConfig.closeFeeBps)
                  owed == Trunc(p.size * cumulativeFunding[p.direction], BPS)
              IN  owed > 0 /\ p.collateral + pnl - fee - owed > 0 =>
                      usdc'[p.trader] - usdc[p.trader]
                          = p.collateral + pnl - fee - owed]_perpsVars
===============================================================================
