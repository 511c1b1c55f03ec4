------------------------------ MODULE FundingRate ------------------------------
(***************************************************************************)
(* The funding rate contract (contracts/funding-rate): once per interval   *)
(* anyone may add the current rates to two cumulative indices.  The rates  *)
(* follow from the skew of the open interest, which the contract reads     *)
(* from the position manager at that moment.                               *)
(*                                                                         *)
(* Here the open interest and the time belong to the environment and       *)
(* change freely; the module Perps puts the position manager and the       *)
(* ledger in their place.                                                  *)
(***************************************************************************)
EXTENDS PerpsMath

CONSTANTS
    FundingIntervals,   \* arguments of initialize and set_funding_interval
    MaxRates,           \* arguments of initialize and set_max_rate
    Spreads,            \* arguments of initialize
    OpenInterests,      \* values the open interest of a direction takes
    MaxTime             \* bound of the model: time stops here

ASSUME FundingRateAssumption ==
    /\ FundingIntervals \subseteq Nat
    /\ MaxRates \subseteq Nat
    /\ Spreads \subseteq Nat
    /\ OpenInterests \subseteq Nat
    /\ MaxTime \in Nat

VARIABLES
    frConfig,           \* instance storage: admin, interval, maximal rate, spread
    cumulativeFunding,  \* the index of each direction
    lastFundingTime,
    openInterest,       \* of the position manager
    now                 \* the ledger timestamp (external)

frVars == <<frConfig, cumulativeFunding, lastFundingTime>>

FrInit ==
    /\ frConfig = [admin |-> NoAddress, interval |-> 3600, maxRate |-> 10, spread |-> 5]
    /\ cumulativeFunding = [d \in Directions |-> 0]
    /\ lastFundingTime = 0

FrInitialized == frConfig.admin # NoAddress

\* Mutant: an interval of zero is accepted.
FrInitializeAny(admin, interval, maxRate, spread) ==
    /\ ~FrInitialized
    /\ maxRate # 0
    /\ frConfig' = [admin |-> admin, interval |-> interval, maxRate |-> maxRate,
                    spread |-> spread]
    /\ cumulativeFunding' = [d \in Directions |-> 0]
    /\ lastFundingTime' = now

FrInitialize(admin, interval, maxRate, spread) ==
    /\ ~FrInitialized
    /\ interval # 0
    /\ maxRate # 0
    /\ frConfig' = [admin |-> admin, interval |-> interval, maxRate |-> maxRate,
                    spread |-> spread]
    /\ cumulativeFunding' = [d \in Directions |-> 0]
    /\ lastFundingTime' = now

SetFundingInterval(admin, interval) ==
    /\ FrInitialized
    /\ admin = frConfig.admin
    /\ interval # 0
    /\ frConfig' = [frConfig EXCEPT !.interval = interval]
    /\ UNCHANGED <<cumulativeFunding, lastFundingTime>>

SetMaxRate(admin, maxRate) ==
    /\ FrInitialized
    /\ admin = frConfig.admin
    /\ maxRate # 0
    /\ frConfig' = [frConfig EXCEPT !.maxRate = maxRate]
    /\ UNCHANGED <<cumulativeFunding, lastFundingTime>>

\* get_current_rate.
CurrentRates ==
    FundingRates(openInterest["Long"], openInterest["Short"],
                 frConfig.maxRate, frConfig.spread)

\* Mutant: an interval must be over for some time.
FundingDueLate == FrInitialized /\ now - lastFundingTime > frConfig.interval

\* The interval since the last funding is over; before, the call fails.
FundingDue == FrInitialized /\ now - lastFundingTime >= frConfig.interval

\* Mutant: the time of the funding is not remembered.
ApplyFundingForgets ==
    /\ FundingDue
    /\ cumulativeFunding' = [d \in Directions |-> cumulativeFunding[d] + CurrentRates[d]]
    /\ UNCHANGED <<frConfig, lastFundingTime>>

\* Any caller will do; without the position manager's address the query traps.
ApplyFunding ==
    /\ FundingDue
    /\ cumulativeFunding' = [d \in Directions |-> cumulativeFunding[d] + CurrentRates[d]]
    /\ lastFundingTime' = now
    /\ UNCHANGED frConfig

FrStep ==
    \/ \E admin \in Admins :
        \/ \E interval \in FundingIntervals :
               \/ \E maxRate \in MaxRates, spread \in Spreads :
                      FrInitialize(admin, interval, maxRate, spread)
               \/ SetFundingInterval(admin, interval)
        \/ \E maxRate \in MaxRates : SetMaxRate(admin, maxRate)
    \/ ApplyFunding

\* The environment: ledgers close, each some seconds after the last; positions
\* open and end.
LedgerStep ==
    /\ now' \in now + 1 .. MaxTime
    /\ UNCHANGED <<openInterest, frVars>>

OpenInterestStep ==
    /\ openInterest' \in [Directions -> OpenInterests]
    /\ UNCHANGED <<now, frVars>>

FrNext ==
    \/ FrStep /\ UNCHANGED <<openInterest, now>>
    \/ LedgerStep
    \/ OpenInterestStep

FrSpecInit ==
    /\ FrInit
    /\ openInterest = [d \in Directions |-> 0]
    /\ now = 0

FrSpec == FrSpecInit /\ [][FrNext]_<<frVars, openInterest, now>>

-------------------------------------------------------------------------------
\* Properties.

FrTypeOK ==
    /\ frConfig \in [admin : Admins \cup {NoAddress}, interval : Nat \ {0},
                     maxRate : Nat \ {0}, spread : Nat]
    /\ cumulativeFunding \in [Directions -> Int]
    /\ lastFundingTime \in Nat
    /\ now \in Nat
    /\ lastFundingTime <= now
    /\ openInterest \in [Directions -> Nat]

\* What the two indices have gained together is the protocol's spread, twice per
\* funding: it never exceeds what the time passed allows at the shortest interval
\* ever configured, however many keepers race for the same interval, and it is
\* never negative: funding moves value between the sides and to the protocol,
\* never out of it.
FundingPace ==
    LET gained == cumulativeFunding["Long"] + cumulativeFunding["Short"]
    IN  /\ gained >= 0
        /\ \A interval \in FundingIntervals \ {0} :
              (\A other \in FundingIntervals \ {0} : interval <= other)
                 => gained * interval <= 2 * frConfig.spread * lastFundingTime

\* What one funding takes from the payers covers what it promises the receivers,
\* for any open interest: the side that dominates pays, or both sides do, and
\* neither the rounding of the skew nor the clamp turns that around.
FundingIsFunded ==
    CurrentRates["Long"] * openInterest["Long"]
        + CurrentRates["Short"] * openInterest["Short"] >= 0
===============================================================================
