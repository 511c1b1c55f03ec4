------------------------------ MODULE FundingProofs ------------------------------
(***************************************************************************)
(* The funding contract: its indices move at the pace of its interval, the *)
(* payers cover the receivers, and with the keeper's funder running no     *)
(* funding is overdue by more than the requests that were lost.            *)
(***************************************************************************)
EXTENDS Funder, PerpsMathProofs

-------------------------------------------------------------------------------
\* The rates.

\* The skew and its clamp lie on the side that dominates.
LEMMA BaseRateSign ==
    ASSUME NEW long \in Nat, NEW short \in Nat, long + short > 0, NEW max \in Nat
    PROVE  LET base == Clamp(Skew(long, short), -max, max)
           IN  /\ base \in Int
               /\ long >= short => base >= 0
               /\ long <= short => base <= 0
<1>. DEFINE n == (long - short) * BPS
            total == long + short
<1>1. /\ n \in Int
      /\ long >= short => n >= 0
      /\ long <= short => n <= 0
    BY DEF BPS
<1>2. total \in Nat \ {0} OBVIOUS
<1>. HIDE DEF n, total
<1>3. /\ Trunc(n, total) \in Int
      /\ n >= 0 => Trunc(n, total) >= 0
      /\ n <= 0 => Trunc(n, total) <= 0
    BY <1>1, <1>2, TruncBounds
<1>4. Skew(long, short) = Trunc(n, total) BY DEF Skew, n, total
<1>5. QED BY <1>1, <1>3, <1>4 DEF Clamp

\* Both rates are numbers, and together they are the spread twice or nothing.
LEMMA RatesSum ==
    ASSUME NEW long \in Nat, NEW short \in Nat, NEW max \in Nat, NEW spread \in Nat
    PROVE  LET rates == FundingRates(long, short, max, spread)
           IN  /\ rates \in [Directions -> Int]
               /\ rates["Long"] + rates["Short"] \in {0, 2 * spread}
<1>1. CASE long + short = 0
    <2>1. FundingRates(long, short, max, spread) = [d \in Directions |-> 0]
        BY <1>1 DEF FundingRates
    <2>2. QED BY <2>1 DEF Directions
<1>2. CASE long + short # 0
    <2>. DEFINE base == Clamp(Skew(long, short), -max, max)
                rates == [d \in Directions |-> IF d = "Long" THEN base + spread
                                                             ELSE -(base - spread)]
    <2>1. base \in Int
        <3>1. long + short > 0 BY <1>2
        <3>2. QED BY <3>1, BaseRateSign
    <2>2. FundingRates(long, short, max, spread) = rates BY <1>2 DEF FundingRates
    <2>. HIDE DEF base
    <2>3. rates \in [Directions -> Int] BY <2>1
    <2>4. rates["Long"] = base + spread /\ rates["Short"] = -(base - spread)
        BY DEF Directions
    <2>5. rates["Long"] + rates["Short"] = 2 * spread BY <2>1, <2>4
    <2>6. QED BY <2>2, <2>3, <2>5
<1>3. QED BY <1>1, <1>2

\* The payers' rates on the payers' interest cover the receivers'.
LEMMA RatesAreFunded ==
    ASSUME NEW long \in Nat, NEW short \in Nat, NEW max \in Nat, NEW spread \in Nat
    PROVE  LET rates == FundingRates(long, short, max, spread)
           IN  rates["Long"] * long + rates["Short"] * short >= 0
<1>1. CASE long + short = 0
    <2>1. long = 0 /\ short = 0 BY <1>1
    <2>2. FundingRates(long, short, max, spread) = [d \in Directions |-> 0]
        BY <1>1 DEF FundingRates
    <2>3. QED BY <2>1, <2>2 DEF Directions
<1>2. CASE long + short # 0
    <2>. DEFINE base == Clamp(Skew(long, short), -max, max)
    <2>1. /\ base \in Int
          /\ long >= short => base >= 0
          /\ long <= short => base <= 0
        <3>1. long + short > 0 BY <1>2
        <3>2. QED BY <3>1, BaseRateSign
    <2>2. /\ FundingRates(long, short, max, spread)["Long"] = base + spread
          /\ FundingRates(long, short, max, spread)["Short"] = -(base - spread)
        BY <1>2 DEF FundingRates, Directions
    <2>. HIDE DEF base
    <2>3. (base + spread) * long + (-(base - spread)) * short
              = base * (long - short) + spread * (long + short)
        BY <2>1, SMT
    <2>4. base * (long - short) >= 0
        <3>1. CASE long >= short
            <4>1. base \in Nat /\ long - short \in Nat BY <2>1, <3>1
            <4>2. QED BY <4>1, ProductNat
        <3>2. CASE long <= short
            <4>1. -base \in Nat /\ short - long \in Nat BY <2>1, <3>2
            <4>2. (-base) * (short - long) >= 0 BY <4>1, ProductNat
            <4>3. (-base) * (short - long) = base * (long - short) BY <2>1, SMT
            <4>4. QED BY <4>2, <4>3
        <3>3. QED BY <3>1, <3>2
    <2>5. spread * (long + short) >= 0 BY ProductNat
    <2>6. base * (long - short) \in Int /\ spread * (long + short) \in Int BY <2>1
    <2>7. QED BY <2>2, <2>3, <2>4, <2>5, <2>6
<1>3. QED BY <1>1, <1>2

-------------------------------------------------------------------------------
\* The invariant of the contract: its types, and an interval that was configured.

\* Before initialize the indices are zero; afterwards the interval is one of those
\* the administrator passed.
IntervalConfigured ==
    IF FrInitialized THEN frConfig.interval \in FundingIntervals
    ELSE cumulativeFunding = [d \in Directions |-> 0]

FrInvariant == FrTypeOK /\ IntervalConfigured /\ FundingPace

LEMMA FrInitKeeps == FrSpecInit => FrInvariant
<1>1. SUFFICES ASSUME FrSpecInit PROVE FrInvariant OBVIOUS
<1>2. FrTypeOK BY <1>1 DEF FrSpecInit, FrInit, FrTypeOK
<1>3. IntervalConfigured
    BY <1>1, NoAddressAssumption DEF FrSpecInit, FrInit, IntervalConfigured, FrInitialized
<1>4. FundingPace
    <2>1. cumulativeFunding["Long"] + cumulativeFunding["Short"] = 0
        BY <1>1 DEF FrSpecInit, FrInit, Directions
    <2>2. ASSUME NEW interval \in FundingIntervals
          PROVE  0 * interval <= 2 * frConfig.spread * lastFundingTime
        BY <1>1, FundingRateAssumption DEF FrSpecInit, FrInit
    <2>3. QED BY <2>1, <2>2 DEF FundingPace
<1>5. QED BY <1>2, <1>3, <1>4 DEF FrInvariant

\* initialize starts the indices at zero.
LEMMA FrInitializeKeeps ==
    ASSUME FrInvariant, NEW admin \in Admins, NEW interval \in FundingIntervals,
           NEW maxRate \in MaxRates, NEW spread \in Spreads,
           FrInitialize(admin, interval, maxRate, spread), UNCHANGED <<openInterest, now>>
    PROVE  FrInvariant'
<1>. USE FundingRateAssumption, NoAddressAssumption
<1>1. interval \in Nat \ {0} /\ maxRate \in Nat \ {0} /\ spread \in Nat
    BY DEF FrInitialize
<1>2. now \in Nat BY DEF FrInvariant, FrTypeOK
<1>3. FrTypeOK' BY <1>1, <1>2 DEF FrInvariant, FrTypeOK, FrInitialize
<1>4. IntervalConfigured' BY DEF FrInitialize, IntervalConfigured, FrInitialized
<1>5. FundingPace'
    <2>1. (cumulativeFunding["Long"] + cumulativeFunding["Short"])' = 0
        BY DEF FrInitialize, Directions
    <2>2. frConfig'.spread = spread /\ lastFundingTime' = now BY DEF FrInitialize
    <2>3. 2 * spread * now >= 0
        <3>1. 2 * spread \in Nat BY <1>1
        <3>2. QED BY <3>1, <1>2, ProductNat
    <2>4. ASSUME NEW other \in FundingIntervals
          PROVE  0 * other <= 2 * spread * now
        BY <2>3
    <2>5. QED BY <2>1, <2>2, <2>4 DEF FundingPace
<1>6. QED BY <1>3, <1>4, <1>5 DEF FrInvariant

\* The two setters touch neither the indices nor the spread.
LEMMA FrSettersKeep ==
    ASSUME FrInvariant, NEW admin \in Admins, UNCHANGED <<openInterest, now>>,
           \/ \E interval \in FundingIntervals : SetFundingInterval(admin, interval)
           \/ \E maxRate \in MaxRates : SetMaxRate(admin, maxRate)
    PROVE  FrInvariant'
<1>. USE FundingRateAssumption
<1>1. /\ cumulativeFunding' = cumulativeFunding
      /\ lastFundingTime' = lastFundingTime
      /\ frConfig'.spread = frConfig.spread
    BY DEF SetFundingInterval, SetMaxRate, FrInvariant, FrTypeOK
<1>2. FrTypeOK' BY DEF FrInvariant, FrTypeOK, SetFundingInterval, SetMaxRate
<1>3. IntervalConfigured'
    BY DEF FrInvariant, FrTypeOK, IntervalConfigured, FrInitialized,
           SetFundingInterval, SetMaxRate
<1>4. FundingPace' BY <1>1 DEF FrInvariant, FundingPace
<1>5. QED BY <1>2, <1>3, <1>4 DEF FrInvariant

\* apply_funding adds the spread twice, or nothing, for an interval that is over.
LEMMA ApplyFundingKeeps ==
    ASSUME FrInvariant, ApplyFunding, UNCHANGED <<openInterest, now>>
    PROVE  FrInvariant'
<1>. USE FundingRateAssumption
<1>1. /\ frConfig \in [admin : Admins \cup {NoAddress}, interval : Nat \ {0},
                       maxRate : Nat \ {0}, spread : Nat]
      /\ cumulativeFunding \in [Directions -> Int]
      /\ lastFundingTime \in Nat /\ now \in Nat
      /\ openInterest \in [Directions -> Nat]
    BY DEF FrInvariant, FrTypeOK
<1>. DEFINE rates  == CurrentRates
            gained == cumulativeFunding["Long"] + cumulativeFunding["Short"]
            double == 2 * frConfig.spread
<1>2. rates \in [Directions -> Int] /\ rates["Long"] + rates["Short"] \in {0, double}
    <2>1. openInterest["Long"] \in Nat /\ openInterest["Short"] \in Nat
        BY <1>1 DEF Directions
    <2>2. frConfig.maxRate \in Nat /\ frConfig.spread \in Nat BY <1>1
    <2>3. QED BY <2>1, <2>2, RatesSum DEF CurrentRates
<1>3. double \in Nat /\ gained \in Int BY <1>1 DEF Directions
<1>. HIDE DEF rates
<1>4. cumulativeFunding' = [d \in Directions |-> cumulativeFunding[d] + rates[d]]
    BY DEF ApplyFunding, rates
<1>5. gained' \in {gained, gained + double}
    <2>1. gained' = gained + (rates["Long"] + rates["Short"])
        BY <1>1, <1>2, <1>4 DEF Directions
    <2>2. QED BY <1>2, <1>3, <2>1
<1>6. FrTypeOK' BY <1>1, <1>2, <1>4 DEF FrTypeOK, ApplyFunding
<1>7. IntervalConfigured'
    BY DEF FrInvariant, IntervalConfigured, FrInitialized, ApplyFunding, FundingDue
<1>8. FundingPace'
    <2>1. gained' >= 0 BY <1>3, <1>5 DEF FrInvariant, FundingPace
    <2>2. SUFFICES ASSUME NEW interval \in FundingIntervals \ {0},
                          \A other \in FundingIntervals \ {0} : interval <= other
                   PROVE  gained' * interval <= double * now
        BY <2>1 DEF FundingPace, ApplyFunding
    <2>3. frConfig.interval \in FundingIntervals \ {0}
        BY <1>1 DEF FrInvariant, IntervalConfigured, ApplyFunding, FundingDue
    <2>4. interval \in Nat /\ lastFundingTime + interval <= now
        <3>1. now - lastFundingTime >= frConfig.interval BY DEF ApplyFunding, FundingDue
        <3>2. interval <= frConfig.interval BY <2>2, <2>3
        <3>3. QED BY <1>1, <2>3, <3>1, <3>2
    <2>5. gained \in Nat /\ gained * interval <= double * lastFundingTime
        BY <1>3, <2>2 DEF FrInvariant, FundingPace
    <2>. HIDE DEF gained, double
    <2>6. double * (lastFundingTime + interval) <= double * now
        BY <1>1, <1>3, <2>4, ProductMonotone
    <2>7. /\ double * (lastFundingTime + interval)
                 = double * lastFundingTime + double * interval
          /\ (gained + double) * interval = gained * interval + double * interval
        BY <1>1, <1>3, <2>4, <2>5, SMT
    <2>8. /\ double * interval \in Nat /\ gained * interval \in Nat
          /\ double * lastFundingTime \in Nat /\ double * now \in Nat
        BY <1>1, <1>3, <2>4, <2>5, ProductNat
    <2>9. /\ gained * interval <= double * now
          /\ (gained + double) * interval <= double * now
        BY <2>5, <2>6, <2>7, <2>8
    <2>10. QED BY <1>5, <2>9
<1>9. QED BY <1>6, <1>7, <1>8 DEF FrInvariant

LEMMA FrNextKeeps == FrInvariant /\ [FrNext]_<<frVars, openInterest, now>> => FrInvariant'
<1>1. SUFFICES ASSUME FrInvariant, [FrNext]_<<frVars, openInterest, now>>
               PROVE  FrInvariant'
    OBVIOUS
<1>2. CASE FrStep /\ UNCHANGED <<openInterest, now>>
    BY <1>1, <1>2, FrInitializeKeeps, FrSettersKeep, ApplyFundingKeeps DEF FrStep
<1>3. CASE LedgerStep
    BY <1>1, <1>3 DEF LedgerStep, frVars, FrInvariant, FrTypeOK, IntervalConfigured,
                      FrInitialized, FundingPace
<1>4. CASE OpenInterestStep
    <2>1. openInterest' \in [Directions -> Nat]
        BY <1>4, FundingRateAssumption DEF OpenInterestStep
    <2>2. QED
        BY <1>1, <1>4, <2>1 DEF OpenInterestStep, frVars, FrInvariant, FrTypeOK,
                                IntervalConfigured, FrInitialized, FundingPace
<1>5. CASE UNCHANGED <<frVars, openInterest, now>>
    BY <1>1, <1>5 DEF frVars, FrInvariant, FrTypeOK, IntervalConfigured,
                      FrInitialized, FundingPace
<1>6. QED BY <1>1, <1>2, <1>3, <1>4, <1>5 DEF FrNext

THEOREM FrInvariantHolds == FrSpec => []FrInvariant
BY FrInitKeeps, FrNextKeeps, PTL DEF FrSpec

\* Type correctness (lib.rs), with the last funding never in the future.
THEOREM FrTypeCorrect == FrSpec => []FrTypeOK
<1>1. FrInvariant => FrTypeOK BY DEF FrInvariant
<1>2. QED BY <1>1, FrInvariantHolds, PTL

\* For every set of intervals, rates and spreads, and every order of calls: what
\* the indices gain together is bounded by the time that passed (apply_funding).
THEOREM PaceIsKept == FrSpec => []FundingPace
<1>1. FrInvariant => FundingPace BY DEF FrInvariant
<1>2. QED BY <1>1, FrInvariantHolds, PTL

\* For every open interest, maximal rate and spread, the payers cover what the
\* receivers are promised (get_current_rate).
THEOREM FundingAlwaysFunded == FrSpec => []FundingIsFunded
<1>1. FrInvariant => FundingIsFunded
    <2>1. SUFFICES ASSUME FrInvariant PROVE FundingIsFunded OBVIOUS
    <2>2. /\ openInterest["Long"] \in Nat /\ openInterest["Short"] \in Nat
          /\ frConfig.maxRate \in Nat /\ frConfig.spread \in Nat
        BY <2>1 DEF FrInvariant, FrTypeOK, Directions
    <2>3. QED BY <2>2, RatesAreFunded DEF FundingIsFunded, CurrentRates
<1>2. QED BY <1>1, FrInvariantHolds, PTL

-------------------------------------------------------------------------------
\* The funder.

funderSpecVars == <<frVars, openInterest, now, funderVars>>

\* Whatever the funder and the network do, the contract sees its own steps only.
LEMMA FunderStepIsFrStep ==
    ASSUME [FunderNext]_funderSpecVars
    PROVE  [FrNext]_<<frVars, openInterest, now>>
<1>1. CASE TriggerFunding BY <1>1 DEF TriggerFunding, frVars
<1>2. CASE Executed BY <1>2 DEF Executed, FrNext, FrStep, frVars
<1>3. CASE Dropped BY <1>3 DEF Dropped, frVars
<1>4. CASE OtherCall BY <1>4 DEF OtherCall, FrNext
<1>5. CASE TimePasses BY <1>5 DEF TimePasses, FrNext
<1>6. CASE OpenInterestStep BY <1>6 DEF FrNext
<1>7. CASE UNCHANGED funderSpecVars BY <1>7 DEF funderSpecVars, frVars
<1>8. QED BY <1>1, <1>2, <1>3, <1>4, <1>5, <1>6, <1>7 DEF FunderNext

\* The next tick is at most one period away, and a transaction that is under way
\* was sent at the last one.
Clock ==
    /\ nextTick \in Nat /\ sentAt \in Int /\ lostRequests \in Nat
    /\ now <= nextTick /\ nextTick <= now + FunderInterval
    /\ UnderWay => /\ nextTick = sentAt + FunderInterval
                   /\ sentAt <= now /\ now <= sentAt + MaxDelay

\* What the requests lost may have cost.
Slack(lost) == FunderInterval * (1 + lost)

\* The next tick comes in time, and one tick earlier when a transaction that may
\* still fund is under way.
TickInTime ==
    FrInitialized =>
        \E interval \in FundingIntervals :
            nextTick - lastFundingTime
                < interval + Slack(lostRequests) + (IF UnderWay THEN FunderInterval ELSE 0)

FunderInvariant == FrInvariant /\ Clock /\ TickInTime

LEMMA SlackGrows ==
    ASSUME NEW lost \in Nat
    PROVE  /\ Slack(lost) \in Nat
           /\ Slack(lost) >= FunderInterval
           /\ Slack(lost + 1) = Slack(lost) + FunderInterval
<1>1. FunderInterval \in Nat BY FunderAssumption
<1>2. FunderInterval * lost \in Nat BY <1>1, ProductNat
<1>3. /\ Slack(lost) = FunderInterval + FunderInterval * lost
      /\ Slack(lost + 1) = FunderInterval + (FunderInterval * lost + FunderInterval)
    BY <1>1, SMT DEF Slack
<1>4. QED BY <1>1, <1>2, <1>3

\* A step that has just funded, or started the contract, leaves the tick in time.
LEMMA FundedInTime ==
    ASSUME NEW tick \in Nat, NEW t \in Nat, tick <= t + FunderInterval,
           NEW interval \in Nat \ {0}, NEW lost \in Nat
    PROVE  tick - t < interval + Slack(lost)
<1>1. FunderInterval \in Nat BY FunderAssumption
<1>2. Slack(lost) \in Nat /\ Slack(lost) >= FunderInterval BY SlackGrows
<1>3. QED BY <1>1, <1>2

LEMMA FunderInitKeeps == FunderSpecInit => FunderInvariant
<1>1. SUFFICES ASSUME FunderSpecInit PROVE FunderInvariant OBVIOUS
<1>2. FrInvariant BY <1>1, FrInitKeeps DEF FunderSpecInit
<1>3. Clock
    BY <1>1, FunderAssumption DEF FunderSpecInit, FrSpecInit, FunderInit, Clock, UnderWay
<1>4. TickInTime
    BY <1>1, NoAddressAssumption DEF FunderSpecInit, FrSpecInit, FrInit, TickInTime,
                                     FrInitialized
<1>5. QED BY <1>2, <1>3, <1>4 DEF FunderInvariant

\* The interval of a contract that was initialized.
LEMMA IntervalKnown ==
    ASSUME FrInvariant, FrInitialized
    PROVE  /\ frConfig.interval \in FundingIntervals
           /\ frConfig.interval \in Nat \ {0}
BY DEF FrInvariant, FrTypeOK, IntervalConfigured

LEMMA TriggerKeeps ==
    ASSUME FunderInvariant, TriggerFunding
    PROVE  Clock' /\ TickInTime'
<1>. USE FunderAssumption, FundingRateAssumption
<1>1. now \in Nat /\ lastFundingTime \in Nat
    BY DEF FunderInvariant, FrInvariant, FrTypeOK
<1>2. Clock'
    BY <1>1 DEF FunderInvariant, Clock, TriggerFunding, UnderWay
<1>3. TickInTime'
    <2>1. SUFFICES ASSUME FrInitialized'
                   PROVE  \E interval \in FundingIntervals :
                              nextTick' - lastFundingTime' < interval + Slack(lostRequests')
                                  + (IF UnderWay' THEN FunderInterval ELSE 0)
        BY DEF TickInTime, UnderWay
    <2>. DEFINE early == IF UnderWay THEN FunderInterval ELSE 0
    <2>2. PICK interval \in FundingIntervals :
              nextTick - lastFundingTime < interval + Slack(lostRequests) + early
        BY <2>1 DEF FunderInvariant, TickInTime, TriggerFunding, FrInitialized, frVars
    <2>7. early = 0 BY DEF TriggerFunding
    <2>. HIDE DEF early
    <2>3. /\ nextTick' = nextTick + FunderInterval
          /\ lastFundingTime' = lastFundingTime
          /\ nextTick \in Nat /\ interval \in Nat /\ lostRequests \in Nat
        BY DEF TriggerFunding, frVars, FunderInvariant, Clock
    <2>8. /\ Slack(lostRequests) \in Nat
          /\ Slack(lostRequests + 1) = Slack(lostRequests) + FunderInterval
        BY <2>3, SlackGrows
    <2>9. nextTick' - lastFundingTime'
              < interval + (Slack(lostRequests) + FunderInterval)
        BY <1>1, <2>2, <2>3, <2>7, <2>8
    <2>4. CASE UnderWay' /\ lostRequests' = lostRequests
        BY <2>3, <2>4, <2>8, <2>9
    <2>5. CASE ~UnderWay' /\ lostRequests' = lostRequests + 1
        BY <2>3, <2>5, <2>8, <2>9
    <2>6. QED BY <2>4, <2>5, <1>1 DEF TriggerFunding, UnderWay
<1>4. QED BY <1>2, <1>3

LEMMA ExecutedKeeps ==
    ASSUME FunderInvariant, Executed
    PROVE  Clock' /\ TickInTime'
<1>. USE FunderAssumption, FundingRateAssumption
<1>1. now \in Nat /\ lastFundingTime \in Nat /\ lostRequests \in Nat
    BY DEF FunderInvariant, FrInvariant, FrTypeOK, Clock
<1>2. /\ nextTick' = nextTick /\ nextTick \in Nat /\ now' = now /\ ~UnderWay'
      /\ nextTick <= now + FunderInterval
    BY DEF Executed, FunderInvariant, Clock, UnderWay
<1>3. Clock'
    BY <1>1, <1>2 DEF FunderInvariant, Clock, Executed, UnderWay
<1>4. TickInTime'
    <2>1. SUFFICES ASSUME FrInitialized'
                   PROVE  \E interval \in FundingIntervals :
                              nextTick' - lastFundingTime' < interval + Slack(lostRequests')
        <3>1. lostRequests' \in Nat BY <1>1 DEF Executed
        <3>2. Slack(lostRequests') \in Nat BY <3>1, SlackGrows
        <3>3. ASSUME NEW interval \in FundingIntervals
              PROVE  interval + Slack(lostRequests') + 0 = interval + Slack(lostRequests')
            BY <3>2
        <3>4. (IF UnderWay' THEN FunderInterval ELSE 0) = 0 BY <1>2
        <3>5. QED BY <3>3, <3>4 DEF TickInTime
    <2>2. FrInitialized
        BY <2>1 DEF FrInitialized, Executed, ApplyFunding, frVars
    <2>3. frConfig.interval \in FundingIntervals /\ frConfig.interval \in Nat \ {0}
        BY <2>2, IntervalKnown DEF FunderInvariant
    <2>4. CASE ApplyFunding /\ lostRequests' = 0
        <3>1. nextTick - now < frConfig.interval + Slack(0)
            BY <1>1, <1>2, <2>3, FundedInTime
        <3>2. nextTick' - lastFundingTime' < frConfig.interval + Slack(lostRequests')
            BY <2>4, <3>1, <1>2 DEF ApplyFunding
        <3>3. QED BY <2>3, <3>2
    <2>5. CASE ~FundingDue /\ UNCHANGED <<frVars, lostRequests>>
        <3>1. now - lastFundingTime < frConfig.interval
            BY <1>1, <2>2, <2>3, <2>5 DEF FundingDue
        <3>2. Slack(lostRequests) \in Nat /\ Slack(lostRequests) >= FunderInterval
            BY <1>1, SlackGrows
        <3>3. nextTick - lastFundingTime < frConfig.interval + Slack(lostRequests)
            BY <1>1, <1>2, <2>3, <3>1, <3>2
        <3>4. QED BY <2>3, <2>5, <3>3, <1>2 DEF frVars
    <2>6. QED BY <2>4, <2>5 DEF Executed
<1>5. QED BY <1>3, <1>4

\* A transaction that is dropped is one request more that was lost.
LEMMA DroppedKeeps ==
    ASSUME FunderInvariant, Dropped
    PROVE  Clock' /\ TickInTime'
<1>. USE FunderAssumption, FundingRateAssumption
<1>1. lastFundingTime \in Nat /\ nextTick \in Nat /\ lostRequests \in Nat
    BY DEF FunderInvariant, FrInvariant, FrTypeOK, Clock
<1>2. Clock' BY <1>1 DEF FunderInvariant, Clock, Dropped, UnderWay
<1>3. TickInTime'
    <2>1. SUFFICES ASSUME FrInitialized'
                   PROVE  \E interval \in FundingIntervals :
                              nextTick' - lastFundingTime' < interval + Slack(lostRequests')
        <3>1. lostRequests' \in Nat BY <1>1 DEF Dropped
        <3>2. Slack(lostRequests') \in Nat BY <3>1, SlackGrows
        <3>3. ASSUME NEW interval \in FundingIntervals
              PROVE  interval + Slack(lostRequests') + 0 = interval + Slack(lostRequests')
            BY <3>2
        <3>4. (IF UnderWay' THEN FunderInterval ELSE 0) = 0 BY DEF Dropped, UnderWay
        <3>5. QED BY <3>3, <3>4 DEF TickInTime
    <2>. DEFINE early == IF UnderWay THEN FunderInterval ELSE 0
    <2>2. PICK interval \in FundingIntervals :
              nextTick - lastFundingTime < interval + Slack(lostRequests) + early
        BY <2>1 DEF FunderInvariant, TickInTime, Dropped, FrInitialized, frVars
    <2>3. early = FunderInterval BY DEF Dropped
    <2>. HIDE DEF early
    <2>4. /\ Slack(lostRequests) \in Nat
          /\ Slack(lostRequests + 1) = Slack(lostRequests) + FunderInterval
        BY <1>1, SlackGrows
    <2>5. nextTick - lastFundingTime < interval + Slack(lostRequests + 1)
        BY <1>1, <2>2, <2>3, <2>4
    <2>6. QED BY <2>5 DEF Dropped, frVars
<1>4. QED BY <1>2, <1>3

\* Another keeper's funding brings the time forward, the administrator's calls do
\* not, and initialize starts it.
LEMMA OtherCallKeeps ==
    ASSUME FunderInvariant, OtherCall
    PROVE  Clock' /\ TickInTime'
<1>. USE FunderAssumption, FundingRateAssumption
<1>1. /\ now \in Nat /\ nextTick \in Nat /\ lostRequests \in Nat
      /\ nextTick <= now + FunderInterval /\ UnderWay' = UnderWay
    BY DEF FunderInvariant, FrInvariant, FrTypeOK, Clock, OtherCall, UnderWay
<1>2. lostRequests' \in Nat BY <1>1 DEF OtherCall
<1>3. Clock' BY <1>2 DEF FunderInvariant, Clock, OtherCall, UnderWay
<1>4. FrInvariant'
    <2>1. FrStep /\ UNCHANGED <<openInterest, now>> BY DEF OtherCall
    <2>2. QED BY <2>1, FrNextKeeps DEF FrNext, FunderInvariant
<1>5. TickInTime'
    <2>1. SUFFICES ASSUME FrInitialized' PROVE TickInTime' BY DEF TickInTime
    <2>. DEFINE early == IF UnderWay THEN FunderInterval ELSE 0
    <2>2. early \in Nat /\ early = (IF UnderWay' THEN FunderInterval ELSE 0) BY <1>1
    <2>3. CASE lastFundingTime' = now
        <3>1. frConfig'.interval \in FundingIntervals /\ frConfig'.interval \in Nat \ {0}
            BY <2>1, <1>4 DEF FrInvariant, FrTypeOK, IntervalConfigured
        <3>2. nextTick - now < frConfig'.interval + Slack(lostRequests')
            BY <1>1, <1>2, <3>1, FundedInTime
        <3>3. Slack(lostRequests') \in Nat BY <1>2, SlackGrows
        <3>. HIDE DEF early
        <3>4. nextTick - now < frConfig'.interval + Slack(lostRequests') + early
            BY <1>1, <2>2, <3>1, <3>2, <3>3
        <3>5. nextTick' = nextTick BY DEF OtherCall
        <3>6. QED BY <2>2, <2>3, <3>1, <3>4, <3>5 DEF TickInTime
    <2>4. CASE lastFundingTime' = lastFundingTime /\ FrInitialized
        <3>1. nextTick' = nextTick /\ lostRequests' = lostRequests
            BY <2>4 DEF OtherCall
        <3>. HIDE DEF early
        <3>2. PICK interval \in FundingIntervals :
                  nextTick - lastFundingTime < interval + Slack(lostRequests) + early
            BY <2>4 DEF FunderInvariant, TickInTime, early
        <3>3. QED BY <2>2, <2>4, <3>1, <3>2 DEF TickInTime
    <2>5. lastFundingTime' = now \/ (lastFundingTime' = lastFundingTime /\ FrInitialized)
        BY DEF OtherCall, FrStep, FrInitialize, SetFundingInterval, SetMaxRate, ApplyFunding
    <2>6. QED BY <2>3, <2>4, <2>5
<1>6. QED BY <1>3, <1>5

LEMMA LaterIsWithin ==
    ASSUME NEW time \in Int, NEW later \in Int, NEW span \in Int, NEW end \in Int,
           time <= later, end <= time + span
    PROVE  end <= later + span
OBVIOUS

LEMMA TimePassesKeeps ==
    ASSUME FunderInvariant, TimePasses
    PROVE  Clock' /\ TickInTime'
<1>. USE FunderAssumption, FundingRateAssumption
<1>1. now \in Nat BY DEF FunderInvariant, FrInvariant, FrTypeOK
<1>2. Clock'
    <2>1. now' \in Nat /\ now <= now' BY <1>1 DEF TimePasses, LedgerStep
    <2>2. /\ now' <= nextTick /\ (UnderWay => now' <= sentAt + MaxDelay)
          /\ nextTick' = nextTick /\ sentAt' = sentAt /\ lostRequests' = lostRequests
        BY DEF TimePasses, funderVars
    <2>3. /\ nextTick \in Nat /\ sentAt \in Int /\ lostRequests \in Nat
          /\ nextTick <= now + FunderInterval
          /\ UnderWay => nextTick = sentAt + FunderInterval /\ sentAt <= now
        BY DEF FunderInvariant, Clock
    <2>4. nextTick <= now' + FunderInterval
        <3>1. FunderInterval \in Int /\ nextTick \in Int /\ now \in Int /\ now' \in Int
            BY <1>1, <2>1, <2>3, FunderAssumption
        <3>2. QED BY <2>1, <2>3, <3>1, LaterIsWithin
    <2>5. UnderWay => sentAt <= now' BY <1>1, <2>1, <2>3
    <2>6. QED BY <2>1, <2>2, <2>3, <2>4, <2>5 DEF Clock, UnderWay
<1>3. TickInTime'
    BY DEF FunderInvariant, TickInTime, TimePasses, LedgerStep, frVars, funderVars,
           UnderWay, FrInitialized
<1>4. QED BY <1>2, <1>3

LEMMA FunderNextKeeps ==
    FunderInvariant /\ [FunderNext]_funderSpecVars => FunderInvariant'
<1>1. SUFFICES ASSUME FunderInvariant, [FunderNext]_funderSpecVars
               PROVE  FunderInvariant'
    OBVIOUS
<1>2. FrInvariant' BY <1>1, FunderStepIsFrStep, FrNextKeeps DEF FunderInvariant
<1>3. ASSUME (OpenInterestStep /\ UNCHANGED funderVars) \/ UNCHANGED funderSpecVars
      PROVE  Clock' /\ TickInTime'
    BY <1>1, <1>3 DEF OpenInterestStep, frVars, funderVars, funderSpecVars,
                      FunderInvariant, Clock, TickInTime, UnderWay, FrInitialized
<1>4. Clock' /\ TickInTime'
    BY <1>1, <1>3, TriggerKeeps, ExecutedKeeps, DroppedKeeps, OtherCallKeeps,
       TimePassesKeeps DEF FunderNext
<1>5. QED BY <1>2, <1>4 DEF FunderInvariant

LEMMA InTimeBoundsLag == FunderInvariant => FundingLag
<1>. USE FunderAssumption, FundingRateAssumption
<1>1. SUFFICES ASSUME FunderInvariant, FrInitialized
               PROVE  \E interval \in FundingIntervals :
                          now - lastFundingTime
                              < interval + Slack(lostRequests) + MaxDelay
    BY DEF FundingLag, Slack
<1>. DEFINE early == IF UnderWay THEN FunderInterval ELSE 0
<1>2. PICK interval \in FundingIntervals :
          nextTick - lastFundingTime < interval + Slack(lostRequests) + early
    BY <1>1 DEF FunderInvariant, TickInTime
<1>3. /\ now \in Nat /\ lastFundingTime \in Nat /\ nextTick \in Nat /\ sentAt \in Int
      /\ interval \in Nat
    BY <1>1 DEF FunderInvariant, FrInvariant, FrTypeOK, Clock
<1>4. Slack(lostRequests) \in Nat
    BY <1>1, SlackGrows DEF FunderInvariant, Clock
<1>5. CASE UnderWay
    <2>1. nextTick = sentAt + FunderInterval /\ now <= sentAt + MaxDelay
        BY <1>1, <1>5 DEF FunderInvariant, Clock
    <2>2. early = FunderInterval BY <1>5
    <2>. HIDE DEF early
    <2>3. now - lastFundingTime < interval + Slack(lostRequests) + MaxDelay
        BY <1>2, <1>3, <1>4, <2>1, <2>2
    <2>4. QED BY <2>3
<1>6. CASE ~UnderWay
    <2>1. now <= nextTick BY <1>1 DEF FunderInvariant, Clock
    <2>2. early = 0 BY <1>6
    <2>. HIDE DEF early
    <2>3. now - lastFundingTime < interval + Slack(lostRequests) + MaxDelay
        BY <1>2, <1>3, <1>4, <2>1, <2>2
    <2>4. QED BY <2>3
<1>7. QED BY <1>5, <1>6

\* For every interval, period and delay, and every order of ticks, losses and calls
\* of others: funding is overdue by no more than the lost requests account for
\* (triggerFunding and the loop around it, against apply_funding).
THEOREM FundingNeverLagsBehind == FunderSpec => []FundingLag
<1>1. FunderSpecInit => FunderInvariant BY FunderInitKeeps
<1>2. FunderInvariant /\ [FunderNext]_funderSpecVars => FunderInvariant'
    BY FunderNextKeeps
<1>3. FunderInvariant => FundingLag BY InTimeBoundsLag
<1>4. QED BY <1>1, <1>2, <1>3, PTL DEF FunderSpec, funderSpecVars
===============================================================================
