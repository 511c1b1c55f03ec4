------------------------- MODULE PositionManagerProofs -------------------------
(***************************************************************************)
(* The oracle adapter alone, and the three contracts that hold the money   *)
(* and the prices together: the locked liquidity, the open interest, the   *)
(* counters and the tokens held all follow from the open positions, for    *)
(* every set of users, assets, prices, amounts and configurations.         *)
(***************************************************************************)
EXTENDS Deployment, VaultProofs

-------------------------------------------------------------------------------
\* The oracle.

\* The ledgers a stored price is short of TtlThreshold, counted from the current
\* one, have closed since it was set: it ages by the time each of them took, in
\* whatever state its entry was before.
LivesLongEnough ==
    \A asset \in Assets, shortest \in LedgerTimes :
        /\ \A seconds \in LedgerTimes : shortest <= seconds
        /\ cachedPrice[asset].price > 0
        => shortest * (sequence + TtlThreshold - liveUntil[asset])
               <= now - cachedPrice[asset].timestamp

LEMMA NothingShort ==
    ASSUME NEW d \in Nat, NEW n \in Int, n <= 0
    PROVE  d * n <= 0
<1>1. CASE d = 0 BY <1>1
<1>2. CASE d > 0 BY <1>2, SMT
<1>3. QED BY <1>1, <1>2

LEMMA OneMoreShort ==
    ASSUME NEW d \in Nat, NEW seconds \in Nat, NEW n \in Int, NEW age \in Int,
           d <= seconds, d * n <= age
    PROVE  d * (n + 1) <= age + seconds
<1>1. d * (n + 1) = d * n + d BY SMT
<1>2. d * n \in Int OBVIOUS
<1>3. QED BY <1>1, <1>2

LEMMA LifeCovers ==
    ASSUME NEW d \in Nat \ {0}, NEW n \in Int, NEW ttl \in Nat, NEW age \in Int,
           d * (n + ttl) <= age, age <= ttl * d
    PROVE  n <= 0
<1>1. d * (n + ttl) = d * n + ttl * d BY SMT
<1>2. d * n \in Int /\ ttl * d \in Int OBVIOUS
<1>3. d * n <= 0 BY <1>1, <1>2
<1>4. n > 0 => d * n > 0 BY SMT
<1>5. QED BY <1>2, <1>3, <1>4

\* A live entry holds a price, so a served price is positive.
OracleInv ==
    /\ OracleTypeOK
    /\ \A asset \in Assets : liveUntil[asset] >= 0 => cachedPrice[asset].price > 0
    /\ LivesLongEnough

LEMMA OracleInitInv == OracleInit => OracleInv
BY OracleAssumption DEF OracleInit, OracleInv, OracleTypeOK, LivesLongEnough, NoPrice

\* set_price stores the price and extends the life of its entry.
LEMMA SetPriceKeeps ==
    ASSUME OracleInv, NEW admin, NEW asset \in Assets, NEW price \in Int,
           SetPrice(admin, asset, price)
    PROVE  OracleInv'
<1>. USE OracleAssumption
<1>1. /\ oracleConfig \in [admin : Admins \cup {NoAddress}, stalenessThreshold : Nat \ {0}]
      /\ cachedPrice \in [Assets -> [price : Nat, timestamp : Nat]]
      /\ liveUntil \in [Assets -> Int]
      /\ sequence \in Nat /\ now \in Nat
    BY DEF OracleInv, OracleTypeOK
<1>2. price \in Nat \ {0} BY DEF SetPrice
<1>3. /\ ExtendTtl(liveUntil[asset]) \in Int
      /\ ExtendTtl(liveUntil[asset]) >= sequence + TtlThreshold
    BY <1>1 DEF ExtendTtl
<1>4. OracleTypeOK'
    BY <1>1, <1>2, <1>3 DEF SetPrice, OracleTypeOK
<1>5. SUFFICES ASSUME NEW other \in Assets
               PROVE  /\ liveUntil'[other] >= 0 => cachedPrice'[other].price > 0
                      /\ \A shortest \in LedgerTimes :
                            /\ \A seconds \in LedgerTimes : shortest <= seconds
                            /\ cachedPrice'[other].price > 0
                            => shortest * (sequence' + TtlThreshold - liveUntil'[other])
                                   <= now' - cachedPrice'[other].timestamp
    BY <1>4 DEF OracleInv, LivesLongEnough
<1>6. CASE other = asset
    <2>. DEFINE end == ExtendTtl(liveUntil[asset])
    <2>1. /\ liveUntil'[other] = end /\ sequence' = sequence /\ now' = now
          /\ cachedPrice'[other].price = price /\ cachedPrice'[other].timestamp = now
        BY <1>1, <1>6 DEF SetPrice
    <2>2. end \in Int /\ sequence + TtlThreshold - end <= 0
        <3>1. end \in Int /\ end >= sequence + TtlThreshold BY <1>3
        <3>. HIDE DEF end
        <3>2. QED BY <1>1, <3>1
    <2>. HIDE DEF end
    <2>3. ASSUME NEW shortest \in LedgerTimes
          PROVE  shortest * (sequence + TtlThreshold - end) <= now - now
        <3>1. shortest \in Nat /\ sequence + TtlThreshold - end \in Int BY <1>1, <2>2
        <3>2. shortest * (sequence + TtlThreshold - end) <= 0 BY <2>2, <3>1, NothingShort
        <3>3. now - now = 0 BY <1>1
        <3>4. QED BY <3>2, <3>3
    <2>4. QED BY <1>2, <2>1, <2>3
<1>7. CASE other # asset BY <1>7, <1>1 DEF SetPrice, OracleInv, LivesLongEnough
<1>8. QED BY <1>6, <1>7

\* A ledger closes, and every price grows older by the time it took.
LEMMA TickKeeps ==
    ASSUME OracleInv, Tick
    PROVE  OracleInv'
<1>. USE OracleAssumption
<1>1. PICK seconds \in LedgerTimes : now' = now + seconds BY DEF Tick
<1>2. /\ sequence' = sequence + 1 /\ UNCHANGED <<oracleConfig, cachedPrice, liveUntil>>
    BY DEF Tick
<1>3. /\ cachedPrice \in [Assets -> [price : Nat, timestamp : Nat]]
      /\ liveUntil \in [Assets -> Int]
      /\ sequence \in Nat /\ now \in Nat /\ seconds \in Nat
    BY DEF OracleInv, OracleTypeOK
<1>4. OracleTypeOK' BY <1>1, <1>2, <1>3 DEF OracleInv, OracleTypeOK
<1>5. ASSUME NEW asset \in Assets, NEW shortest \in LedgerTimes,
             \A other \in LedgerTimes : shortest <= other, cachedPrice[asset].price > 0
      PROVE  shortest * (sequence' + TtlThreshold - liveUntil[asset])
                 <= now' - cachedPrice[asset].timestamp
    <2>. DEFINE n   == sequence + TtlThreshold - liveUntil[asset]
                age == now - cachedPrice[asset].timestamp
    <2>1. /\ shortest \in Nat /\ shortest <= seconds /\ n \in Int /\ age \in Int
        BY <1>3, <1>5
    <2>2. shortest * n <= age BY <1>5 DEF OracleInv, LivesLongEnough
    <2>3. /\ sequence' + TtlThreshold - liveUntil[asset] = n + 1
          /\ now' - cachedPrice[asset].timestamp = age + seconds
        BY <1>1, <1>2, <1>3
    <2>. HIDE DEF n, age
    <2>4. shortest * (n + 1) <= age + seconds BY <1>3, <2>1, <2>2, OneMoreShort
    <2>5. QED BY <2>3, <2>4
<1>6. LivesLongEnough' BY <1>2, <1>5 DEF LivesLongEnough
<1>7. QED BY <1>2, <1>4, <1>6 DEF OracleInv

\* Whatever the administrator and the ledger do.
LEMMA OracleStepPreserves ==
    ASSUME OracleInv, OracleStep
    PROVE  OracleInv'
<1>. USE OracleAssumption
<1>1. ASSUME NEW admin \in Admins, NEW threshold \in StalenessThresholds,
             OracleInitialize(admin, threshold) \/ SetStalenessThreshold(admin, threshold)
      PROVE  OracleInv'
    BY <1>1 DEF OracleInv, OracleTypeOK, LivesLongEnough, OracleInitialize,
                SetStalenessThreshold
<1>2. ASSUME NEW admin \in Admins, NEW asset \in Assets, NEW price \in Prices,
             SetPrice(admin, asset, price)
      PROVE  OracleInv'
    BY <1>2, SetPriceKeeps
<1>3. CASE Tick BY <1>3, TickKeeps
<1>4. QED BY <1>1, <1>2, <1>3 DEF OracleStep

\* Nothing else writes to the oracle's storage.
LEMMA OracleUntouched ==
    ASSUME OracleInv, UNCHANGED oracleVars
    PROVE  OracleInv'
BY DEF OracleInv, OracleTypeOK, LivesLongEnough, oracleVars

LEMMA OracleInvariant == OracleSpec => []OracleInv
BY OracleInitInv, OracleStepPreserves, OracleUntouched, PTL DEF OracleSpec

\* The configuration, the prices and their lives stay well-formed, whatever the
\* administrator passes: no threshold of zero, no negative price.
THEOREM OracleTypeCorrect == OracleSpec => []OracleTypeOK
<1>1. OracleInv => OracleTypeOK BY DEF OracleInv
<1>2. QED BY <1>1, OracleInvariant, PTL

\* The life of a price covers every threshold within it.
LEMMA InvServes == OracleInv => RecentPriceIsServed
<1>1. SUFFICES ASSUME OracleInv, NEW asset \in Assets, NEW shortest \in LedgerTimes,
                      \A seconds \in LedgerTimes : shortest <= seconds,
                      cachedPrice[asset].price > 0,
                      oracleConfig.stalenessThreshold <= TtlThreshold * shortest,
                      now - cachedPrice[asset].timestamp
                          <= oracleConfig.stalenessThreshold
               PROVE  Served(asset)
    BY DEF RecentPriceIsServed
<1>. DEFINE n   == sequence - liveUntil[asset]
            age == now - cachedPrice[asset].timestamp
<1>2. /\ n \in Int /\ age \in Int /\ sequence \in Int /\ liveUntil[asset] \in Int
      /\ shortest \in Nat \ {0} /\ TtlThreshold \in Nat
      /\ oracleConfig.stalenessThreshold \in Nat
    <2>1. /\ sequence \in Int /\ now \in Int /\ liveUntil[asset] \in Int
          /\ cachedPrice[asset].timestamp \in Int
          /\ oracleConfig.stalenessThreshold \in Nat
        <3>1. OracleTypeOK BY <1>1 DEF OracleInv
        <3>2. sequence \in Int /\ now \in Int BY <3>1 DEF OracleTypeOK
        <3>3. liveUntil[asset] \in Int BY <3>1 DEF OracleTypeOK
        <3>4. cachedPrice[asset].timestamp \in Int BY <3>1 DEF OracleTypeOK
        <3>5. oracleConfig.stalenessThreshold \in Nat BY <3>1 DEF OracleTypeOK
        <3>6. QED BY <3>2, <3>3, <3>4, <3>5
    <2>2. shortest \in Nat \ {0} /\ TtlThreshold \in Nat BY OracleAssumption
    <2>3. QED BY <2>1, <2>2
<1>3. shortest * (n + TtlThreshold) <= age
    <2>1. n + TtlThreshold = sequence + TtlThreshold - liveUntil[asset] BY <1>2
    <2>2. shortest * (sequence + TtlThreshold - liveUntil[asset]) <= age
        BY <1>1 DEF OracleInv, LivesLongEnough
    <2>3. QED BY <2>1, <2>2
<1>4. age <= TtlThreshold * shortest
    <2>1. age <= oracleConfig.stalenessThreshold BY <1>1
    <2>. HIDE DEF age
    <2>2. TtlThreshold * shortest \in Int BY <1>2
    <2>3. QED BY <1>1, <1>2, <2>1, <2>2
<1>5. n <= 0
    <2>. HIDE DEF n, age
    <2>1. QED BY <1>2, <1>3, <1>4, LifeCovers
<1>6. sequence <= liveUntil[asset] BY <1>2, <1>5
<1>7. QED BY <1>1, <1>6 DEF Served, Cached

\* Whatever time each ledger takes to close: for every threshold within TtlThreshold
\* of the shortest, every price that get_price would still accept is in storage.
THEOREM RecentPricesAreServed == OracleSpec => []RecentPriceIsServed
BY InvServes, OracleInvariant, PTL

\* get_price_value returns a positive price or fails.
LEMMA ServedPrice ==
    ASSUME OracleInv, NEW asset \in Assets, Served(asset)
    PROVE  GetPriceValue(asset) \in Nat \ {0}
<1>1. liveUntil[asset] >= 0
    <2>1. liveUntil[asset] \in Int /\ sequence \in Nat /\ sequence <= liveUntil[asset]
        BY DEF OracleInv, OracleTypeOK, Served, Cached
    <2>2. QED BY <2>1
<1>2. QED BY <1>1 DEF OracleInv, OracleTypeOK, GetPriceValue

-------------------------------------------------------------------------------
\* The totals over the positions when one is added or removed.

InterestIn(d) == SumOver([id \in OpenIn(d) |-> positions[id].size])

\* There are finitely many positions, and what is added up is natural.
LEMMA BooksTyped ==
    ASSUME PmTypeOK
    PROVE  /\ IsFiniteSet(DOMAIN positions)
           /\ SizeOf \in [DOMAIN positions -> Nat]
           /\ CollateralOf \in [DOMAIN positions -> Nat]
           /\ \A d : /\ IsFiniteSet(OpenIn(d))
                     /\ [id \in OpenIn(d) |-> positions[id].size] \in [OpenIn(d) -> Nat]
           /\ \A t : IsFiniteSet(OpenOf(t))
<1>1. IsFiniteSet(DOMAIN positions)
    <2>1. nextPositionId - 1 \in Int /\ DOMAIN positions \subseteq 1 .. nextPositionId - 1
        BY DEF PmTypeOK
    <2>2. IsFiniteSet(1 .. nextPositionId - 1) BY <2>1, FS_Interval
    <2>3. QED BY <2>1, <2>2, FS_Subset
<1>2. \A id \in DOMAIN positions : positions[id].size \in Nat
                                   /\ positions[id].collateral \in Nat
    BY DEF PmTypeOK, Position
<1>3. SizeOf \in [DOMAIN positions -> Nat] BY <1>2 DEF SizeOf
<1>4. CollateralOf \in [DOMAIN positions -> Nat] BY <1>2 DEF CollateralOf
<1>5. \A d : OpenIn(d) \in SUBSET DOMAIN positions BY DEF OpenIn
<1>6. \A t : OpenOf(t) \in SUBSET DOMAIN positions BY DEF OpenOf
<1>7. \A d : [id \in OpenIn(d) |-> positions[id].size] \in [OpenIn(d) -> Nat]
    BY <1>2, <1>5
<1>8. QED BY <1>1, <1>3, <1>4, <1>5, <1>6, <1>7, FS_Subset

\* save_position of a new id.
LEMMA AddedToBooks ==
    ASSUME PmTypeOK, NEW new, new \notin DOMAIN positions, NEW p \in Position,
           positions' = WithPosition(new, p)
    PROVE  /\ OpenNotional' = OpenNotional + p.size
           /\ PostedCollateral' = PostedCollateral + p.collateral
           /\ \A d \in Directions :
                 InterestIn(d)' = InterestIn(d) + (IF d = p.direction THEN p.size ELSE 0)
           /\ \A t \in Accounts :
                 Cardinality(OpenOf(t)') =
                    Cardinality(OpenOf(t)) + (IF t = p.trader THEN 1 ELSE 0)
<1>. USE BooksTyped
<1>1. /\ DOMAIN positions' = DOMAIN positions \cup {new}
      /\ positions'[new] = p
      /\ \A i \in DOMAIN positions : positions'[i] = positions[i]
    BY DEF WithPosition
<1>2. p.size \in Nat /\ p.collateral \in Nat BY DEF Position
<1>3. OpenNotional' = OpenNotional + p.size
    <2>1. SizeOf' = [i \in DOMAIN positions \cup {new} |->
                        IF i = new THEN p.size ELSE SizeOf[i]]
        BY <1>1 DEF SizeOf
    <2>2. QED BY <1>2, <2>1, SumOverAdd DEF OpenNotional
<1>4. PostedCollateral' = PostedCollateral + p.collateral
    <2>1. CollateralOf' = [i \in DOMAIN positions \cup {new} |->
                              IF i = new THEN p.collateral ELSE CollateralOf[i]]
        BY <1>1 DEF CollateralOf
    <2>2. QED BY <1>2, <2>1, SumOverAdd DEF PostedCollateral
<1>5. ASSUME NEW d \in Directions
      PROVE  InterestIn(d)' = InterestIn(d) + (IF d = p.direction THEN p.size ELSE 0)
    <2>. DEFINE sizes == [i \in OpenIn(d) |-> positions[i].size]
    <2>1. IsFiniteSet(OpenIn(d)) /\ sizes \in [OpenIn(d) -> Nat] OBVIOUS
    <2>2. new \notin OpenIn(d) BY DEF OpenIn
    <2>3. CASE d = p.direction
        <3>1. OpenIn(d)' = OpenIn(d) \cup {new} BY <1>1, <2>3 DEF OpenIn
        <3>2. sizes' = [i \in OpenIn(d) \cup {new} |-> IF i = new THEN p.size ELSE sizes[i]]
            BY <1>1, <3>1 DEF OpenIn
        <3>. HIDE DEF sizes
        <3>3. SumOver([i \in OpenIn(d) \cup {new} |-> IF i = new THEN p.size ELSE sizes[i]])
                = SumOver(sizes) + p.size
            <4>. DEFINE opened == OpenIn(d)
                        size   == p.size
            <4>1. IsFiniteSet(opened) /\ sizes \in [opened -> Nat]
                  /\ new \notin opened /\ size \in Nat
                BY <1>2, <2>1, <2>2
            <4>. HIDE DEF opened, size
            <4>2. SumOver([i \in opened \cup {new} |-> IF i = new THEN size ELSE sizes[i]])
                    = SumOver(sizes) + size
                BY <4>1, SumOverAdd
            <4>3. QED BY <4>2 DEF opened, size
        <3>4. SumOver(sizes') = SumOver(sizes) + p.size BY <3>2, <3>3
        <3>5. QED BY <2>3, <3>4 DEF InterestIn, sizes
    <2>4. CASE d # p.direction
        <3>1. OpenIn(d)' = OpenIn(d) BY <1>1, <2>4 DEF OpenIn
        <3>2. sizes' = sizes BY <1>1, <3>1 DEF OpenIn
        <3>3. SumOver(sizes) \in Nat
            <4>. HIDE DEF sizes
            <4>1. QED BY <2>1, SumOverNat
        <3>4. QED BY <2>4, <3>2, <3>3 DEF InterestIn
    <2>5. QED BY <2>3, <2>4
<1>6. ASSUME NEW t \in Accounts
      PROVE  Cardinality(OpenOf(t)') =
                Cardinality(OpenOf(t)) + (IF t = p.trader THEN 1 ELSE 0)
    <2>1. IsFiniteSet(OpenOf(t)) /\ new \notin OpenOf(t) BY DEF OpenOf
    <2>2. Cardinality(OpenOf(t)) \in Nat BY <2>1, FS_CardinalityType
    <2>3. CASE t = p.trader
        <3>1. OpenOf(t)' = OpenOf(t) \cup {new} BY <1>1, <2>3 DEF OpenOf
        <3>2. QED BY <2>1, <2>3, <3>1, FS_AddElement
    <2>4. CASE t # p.trader
        <3>1. OpenOf(t)' = OpenOf(t) BY <1>1, <2>4 DEF OpenOf
        <3>2. QED BY <2>2, <2>4, <3>1
    <2>5. QED BY <2>3, <2>4
<1>7. QED BY <1>3, <1>4, <1>5, <1>6

\* remove_position.
LEMMA RemovedFromBooks ==
    ASSUME PmTypeOK, NEW old \in DOMAIN positions, positions' = WithoutPosition(old)
    PROVE  /\ OpenNotional = positions[old].size + OpenNotional'
           /\ PostedCollateral = positions[old].collateral + PostedCollateral'
           /\ \A d \in Directions :
                 InterestIn(d) = InterestIn(d)' + (IF d = positions[old].direction
                                                   THEN positions[old].size ELSE 0)
           /\ \A t \in Accounts :
                 Cardinality(OpenOf(t)') =
                    Cardinality(OpenOf(t)) - (IF t = positions[old].trader THEN 1 ELSE 0)
<1>. USE BooksTyped
<1>1. /\ DOMAIN positions' = DOMAIN positions \ {old}
      /\ \A i \in DOMAIN positions \ {old} : positions'[i] = positions[i]
    BY DEF WithoutPosition
<1>2. OpenNotional = positions[old].size + OpenNotional'
    <2>1. SizeOf' = [i \in DOMAIN positions \ {old} |-> SizeOf[i]] BY <1>1 DEF SizeOf
    <2>2. SizeOf[old] = positions[old].size BY DEF SizeOf
    <2>3. SumOver(SizeOf) = SizeOf[old] + SumOver(SizeOf') BY <2>1, SumOverSplit
    <2>4. QED BY <2>2, <2>3 DEF OpenNotional
<1>3. PostedCollateral = positions[old].collateral + PostedCollateral'
    <2>1. CollateralOf' = [i \in DOMAIN positions \ {old} |-> CollateralOf[i]]
        BY <1>1 DEF CollateralOf
    <2>2. CollateralOf[old] = positions[old].collateral BY DEF CollateralOf
    <2>3. SumOver(CollateralOf) = CollateralOf[old] + SumOver(CollateralOf')
        BY <2>1, SumOverSplit
    <2>4. QED BY <2>2, <2>3 DEF PostedCollateral
<1>4. ASSUME NEW d \in Directions
      PROVE  InterestIn(d) = InterestIn(d)' + (IF d = positions[old].direction
                                               THEN positions[old].size ELSE 0)
    <2>. DEFINE sizes == [i \in OpenIn(d) |-> positions[i].size]
    <2>1. IsFiniteSet(OpenIn(d)) /\ sizes \in [OpenIn(d) -> Nat] OBVIOUS
    <2>2. CASE d = positions[old].direction
        <3>1. old \in OpenIn(d) /\ OpenIn(d)' = OpenIn(d) \ {old} BY <1>1, <2>2 DEF OpenIn
        <3>2. sizes' = [i \in OpenIn(d) \ {old} |-> sizes[i]] BY <1>1, <3>1 DEF OpenIn
        <3>3. sizes[old] = positions[old].size BY <3>1
        <3>4. IsFiniteSet(OpenIn(d)')  BY <2>1, <3>1, FS_RemoveElement
        <3>5. sizes' \in [OpenIn(d)' -> Nat] BY <2>1, <3>1, <3>2
        <3>. HIDE DEF sizes
        <3>6. SumOver(sizes) = sizes[old] + SumOver(sizes')
            <4>. DEFINE open == OpenIn(d)
            <4>1. IsFiniteSet(open) /\ sizes \in [open -> Nat] /\ old \in open
                BY <2>1, <3>1
            <4>. HIDE DEF open
            <4>2. SumOver(sizes) = sizes[old] + SumOver([i \in open \ {old} |-> sizes[i]])
                BY <4>1, SumOverSplit
            <4>3. QED BY <3>2, <4>2 DEF open
        <3>7. SumOver(sizes') \in Nat BY <3>4, <3>5, SumOverNat
        <3>8. sizes[old] \in Nat BY <2>1, <3>1
        <3>9. SumOver(sizes) = SumOver(sizes') + positions[old].size
            BY <3>3, <3>6, <3>7, <3>8
        <3>10. QED BY <2>2, <3>9 DEF InterestIn, sizes
    <2>3. CASE d # positions[old].direction
        <3>1. OpenIn(d)' = OpenIn(d) BY <1>1, <2>3 DEF OpenIn
        <3>2. sizes' = sizes BY <1>1, <2>3, <3>1 DEF OpenIn
        <3>3. SumOver(sizes) \in Nat
            <4>. HIDE DEF sizes
            <4>1. QED BY <2>1, SumOverNat
        <3>4. QED BY <2>3, <3>2, <3>3 DEF InterestIn
    <2>4. QED BY <2>2, <2>3
<1>5. ASSUME NEW t \in Accounts
      PROVE  Cardinality(OpenOf(t)') =
                Cardinality(OpenOf(t)) - (IF t = positions[old].trader THEN 1 ELSE 0)
    <2>1. IsFiniteSet(OpenOf(t)) OBVIOUS
    <2>2. Cardinality(OpenOf(t)) \in Nat BY <2>1, FS_CardinalityType
    <2>3. CASE t = positions[old].trader
        <3>1. old \in OpenOf(t) /\ OpenOf(t)' = OpenOf(t) \ {old} BY <1>1, <2>3 DEF OpenOf
        <3>2. QED BY <2>1, <2>3, <3>1, FS_RemoveElement
    <2>4. CASE t # positions[old].trader
        <3>1. OpenOf(t)' = OpenOf(t) BY <1>1, <2>4 DEF OpenOf
        <3>2. QED BY <2>2, <2>4, <3>1
    <2>5. QED BY <2>3, <2>4
<1>6. QED BY <1>2, <1>3, <1>4, <1>5

-------------------------------------------------------------------------------
\* The invariant.  It takes all of its parts: a close leaves the locked liquidity
\* natural because it is the notional of the open positions, the open interest
\* because it is the total of its direction, and Backing counts on both.  The
\* positions are none before initialize, which resets the open interest.

NoneUntilInitialized == ~PmInitialized => DOMAIN positions = {}

Books == LockedIsOpenNotional /\ OpenInterestExact /\ PositionCountExact /\ Backing

PmInv == VaultInv /\ OracleInv /\ PmTypeOK /\ Books /\ NoneUntilInitialized

\* The totals are natural.
LEMMA TotalsTyped ==
    ASSUME PmTypeOK
    PROVE  /\ OpenNotional \in Nat
           /\ PostedCollateral \in Nat
           /\ \A d : InterestIn(d) \in Nat
<1>1. OpenNotional \in Nat BY BooksTyped, SumOverNat DEF OpenNotional
<1>2. PostedCollateral \in Nat BY BooksTyped, SumOverNat DEF PostedCollateral
<1>3. ASSUME NEW d PROVE InterestIn(d) \in Nat
    <2>. DEFINE sizes == [id \in OpenIn(d) |-> positions[id].size]
    <2>1. IsFiniteSet(OpenIn(d)) /\ sizes \in [OpenIn(d) -> Nat] BY BooksTyped
    <2>2. SumOver(sizes) \in Nat
        <3>. HIDE DEF sizes
        <3>1. QED BY <2>1, SumOverNat
    <2>3. QED BY <2>2 DEF InterestIn
<1>4. QED BY <1>1, <1>2, <1>3

\* What the type of the balances and of the totals says of the vault's.
LEMMA AmountsTyped ==
    ASSUME VaultInv
    PROVE  /\ usdc[VaultAddr] \in Nat /\ totalDeposits \in Nat /\ lockedLiquidity \in Nat
           /\ usdc \in [Holders -> Nat]
           /\ VaultAddr \in Holders
           /\ \A a \in Accounts : a \in Holders /\ a # VaultAddr
BY VaultAssumption DEF VaultInv, VaultTypeOK, Holders

\* A step that leaves the positions alone keeps the books, if what it does to the
\* liquidity locked and to the tokens beyond the pool's equity is another manager's.
LEMMA BooksKept ==
    ASSUME VaultInv, VaultInv', PmTypeOK, PmTypeOK', Books,
           UNCHANGED <<positions, openInterest, positionCount, uncoveredFees>>,
           lockedLiquidity' - otherLocked' = lockedLiquidity - otherLocked,
           usdc'[VaultAddr] - totalDeposits' - otherHeld'
               = usdc[VaultAddr] - totalDeposits - otherHeld
    PROVE  Books'
<1>1. /\ OpenNotional' = OpenNotional /\ PostedCollateral' = PostedCollateral
      /\ \A d \in Directions : OpenIn(d)' = OpenIn(d)
      /\ \A t \in Accounts : OpenOf(t)' = OpenOf(t)
    BY DEF OpenNotional, SizeOf, PostedCollateral, CollateralOf, OpenIn, OpenOf
<1>2. /\ usdc[VaultAddr] \in Nat /\ totalDeposits \in Nat /\ lockedLiquidity \in Nat
      /\ usdc'[VaultAddr] \in Nat /\ totalDeposits' \in Nat /\ lockedLiquidity' \in Nat
    BY VaultAssumption DEF VaultInv, VaultTypeOK, Holders
<1>3. /\ otherLocked \in Int /\ otherHeld \in Int /\ uncoveredFees \in Nat
      /\ otherLocked' \in Int /\ otherHeld' \in Int
    BY DEF PmTypeOK
<1>4. OpenNotional \in Nat /\ PostedCollateral \in Nat BY TotalsTyped
<1>5. LockedIsOpenNotional'
    <2>1. lockedLiquidity = OpenNotional + otherLocked BY DEF Books, LockedIsOpenNotional
    <2>2. lockedLiquidity' = OpenNotional + otherLocked' BY <1>2, <1>3, <1>4, <2>1
    <2>3. QED BY <1>1, <2>2 DEF LockedIsOpenNotional
<1>6. OpenInterestExact' BY <1>1 DEF Books, OpenInterestExact
<1>7. PositionCountExact' BY <1>1 DEF Books, PositionCountExact
<1>8. Backing'
    <2>1. usdc[VaultAddr] + uncoveredFees = totalDeposits + PostedCollateral + otherHeld
        BY DEF Books, Backing
    <2>2. usdc'[VaultAddr] + uncoveredFees = totalDeposits' + PostedCollateral + otherHeld'
        BY <1>2, <1>3, <1>4, <2>1
    <2>3. QED BY <1>1, <2>2 DEF Backing
<1>9. QED BY <1>5, <1>6, <1>7, <1>8 DEF Books

\* Without positions the books agree on zero.
LEMMA EmptyBooks ==
    ASSUME positions = << >>,
           openInterest = [d \in Directions |-> 0],
           positionCount = [a \in Accounts |-> 0],
           lockedLiquidity = 0, totalDeposits = 0, usdc[VaultAddr] = 0,
           uncoveredFees = 0, otherLocked = 0, otherHeld = 0
    PROVE  Books
<1>1. DOMAIN positions = {} OBVIOUS
<1>2. OpenNotional = 0 /\ PostedCollateral = 0
    <2>1. DOMAIN SizeOf = {} /\ DOMAIN CollateralOf = {} BY <1>1 DEF SizeOf, CollateralOf
    <2>2. QED BY <2>1, SumOverEmpty DEF OpenNotional, PostedCollateral
<1>3. LockedIsOpenNotional BY <1>2 DEF LockedIsOpenNotional
<1>4. OpenInterestExact
    <2>1. SUFFICES ASSUME NEW d \in Directions
                   PROVE  openInterest[d] = SumOver([id \in OpenIn(d) |-> positions[id].size])
        BY DEF OpenInterestExact
    <2>2. OpenIn(d) = {} BY <1>1 DEF OpenIn
    <2>3. DOMAIN [id \in OpenIn(d) |-> positions[id].size] = {} BY <2>2
    <2>4. SumOver([id \in OpenIn(d) |-> positions[id].size]) = 0 BY <2>3, SumOverEmpty
    <2>5. QED BY <2>4
<1>5. PositionCountExact
    <2>1. \A t \in Accounts : OpenOf(t) = {} BY <1>1 DEF OpenOf
    <2>2. \A t \in Accounts : Cardinality(OpenOf(t)) = 0 BY <2>1, FS_EmptySet
    <2>3. QED BY <2>2 DEF PositionCountExact
<1>6. Backing BY <1>2 DEF Backing
<1>7. QED BY <1>3, <1>4, <1>5, <1>6 DEF Books

\* The state before the first call is in the invariant.
LEMMA PmInitInv == PmSpecInit => PmInv
<1>. SUFFICES ASSUME PmSpecInit PROVE PmInv OBVIOUS
<1>1. VaultInv BY VaultInitInv DEF PmSpecInit
<1>2. OracleInv BY OracleInitInv DEF PmSpecInit
<1>3. positions = << >> /\ DOMAIN positions = {} BY DEF PmSpecInit, PmInit
<1>4. PmTypeOK BY <1>3 DEF PmSpecInit, PmInit, PmTypeOK
<1>5. usdc[VaultAddr] = 0 BY DEF PmSpecInit, VaultInit, Holders
<1>6. Books BY <1>3, <1>5, EmptyBooks DEF PmSpecInit, PmInit, VaultInit
<1>7. NoneUntilInitialized BY <1>3 DEF NoneUntilInitialized
<1>8. QED BY <1>1, <1>2, <1>4, <1>6, <1>7 DEF PmInv

\* What scripts/deploy.sh passes has the types the contracts expect.
DeploymentTyped ==
    /\ Deployer \in Admins
    /\ Engine \in LiquidationEngines
    /\ Funding \in FundingContracts
    /\ PmAddr \in PositionManagers
    /\ Utilization \in Nat /\ OpenFee \in Nat /\ CloseFee \in Nat /\ MaxLeverage \in Nat
    /\ MinCollateral \in Int
    /\ Staleness \in Nat \ {0}

\* So is the state scripts/deploy.sh leaves.
LEMMA DeployedInv == DeploymentTyped /\ Deployed => PmInv
<1>. SUFFICES ASSUME DeploymentTyped, Deployed PROVE PmInv OBVIOUS
<1>. USE DEF DeploymentTyped
<1>1. VaultInv
    <2>1. vaultConfig \in [admin : Admins \cup {NoAddress}, maxUtilization : Nat,
                           positionManager : PositionManagers \cup {NoAddress}]
        BY DEF Deployed
    <2>2. VaultInitialized BY NoAddressAssumption DEF Deployed, VaultInitialized
    <2>3. QED BY <2>1, <2>2, EmptyVault DEF Deployed
<1>2. OracleInv
    BY OracleAssumption DEF Deployed, OracleInv, OracleTypeOK, LivesLongEnough, NoPrice
<1>3. positions = << >> /\ DOMAIN positions = {} BY DEF Deployed
<1>4. PmTypeOK BY <1>3 DEF Deployed, PmTypeOK
<1>5. usdc[VaultAddr] = 0 BY DEF Deployed, Holders
<1>6. Books BY <1>3, <1>5, EmptyBooks DEF Deployed
<1>7. NoneUntilInitialized BY <1>3 DEF NoneUntilInitialized
<1>8. QED BY <1>1, <1>2, <1>4, <1>6, <1>7 DEF PmInv

\* Administration.  initialize finds no position, so the open interest it resets
\* was zero.
LEMMA PmAdminPreserves ==
    ASSUME PmInv, PmAdminStep
    PROVE  PmInv'
<1>. USE PositionManagerAssumption
<1>. DEFINE Config == [admin : Admins \cup {NoAddress}, openFeeBps : Nat,
                       closeFeeBps : Nat, maxLeverage : Nat, minCollateral : Int,
                       liquidationEngine : LiquidationEngines \cup {NoAddress},
                       funding : FundingContracts \cup {NoAddress}]
            Kept   == UNCHANGED <<positions, nextPositionId, positionCount,
                                  uncoveredFees, otherVars, vaultVars, oracleVars>>
            Resets == ~PmInitialized /\ openInterest' = [d \in Directions |-> 0]
<1>1. pmConfig \in Config BY DEF PmInv, PmTypeOK
<1>2. PICK admin \in Admins :
          \/ \E openBps, closeBps \in FeeRates :
                 \/ \E maxLeverage \in MaxLeverages, minCollateral \in MinCollaterals :
                        PmInitialize(admin, openBps, closeBps, maxLeverage, minCollateral)
                 \/ SetFeeRates(admin, openBps, closeBps)
          \/ \E maxLeverage \in MaxLeverages : SetMaxLeverage(admin, maxLeverage)
          \/ \E engine \in LiquidationEngines : SetLiquidationEngine(admin, engine)
          \/ \E funding \in FundingContracts : SetFundingAddress(admin, funding)
    BY DEF PmAdminStep
<1>3. admin # NoAddress BY NoAddressAssumption
<1>4. /\ Kept
      /\ openInterest' = openInterest \/ Resets
      /\ pmConfig' \in Config
      /\ PmInitialized'
    <2>1. ASSUME NEW openBps \in FeeRates, NEW closeBps \in FeeRates,
                 NEW maxLeverage \in MaxLeverages, NEW minCollateral \in MinCollaterals,
                 PmInitialize(admin, openBps, closeBps, maxLeverage, minCollateral)
          PROVE  Kept /\ Resets /\ pmConfig' \in Config /\ PmInitialized'
        <3>1. Kept /\ Resets BY <2>1 DEF PmInitialize
        <3>2. pmConfig' = [pmConfig EXCEPT !.admin = admin, !.openFeeBps = openBps,
                                           !.closeFeeBps = closeBps,
                                           !.maxLeverage = maxLeverage,
                                           !.minCollateral = minCollateral]
            BY <2>1 DEF PmInitialize
        <3>3. /\ openBps \in Nat /\ closeBps \in Nat /\ maxLeverage \in Nat
              /\ minCollateral \in Int
            OBVIOUS
        <3>4. pmConfig' \in Config BY <1>1, <3>2, <3>3
        <3>5. pmConfig'.admin = admin BY <1>1, <3>2
        <3>6. QED BY <1>3, <3>1, <3>4, <3>5 DEF PmInitialized
    <2>2. ASSUME NEW openBps \in FeeRates, NEW closeBps \in FeeRates,
                 SetFeeRates(admin, openBps, closeBps)
          PROVE  Kept /\ openInterest' = openInterest /\ pmConfig' \in Config /\ PmInitialized'
        BY <1>1, <2>2 DEF SetFeeRates, PmConfigOnly, PmInitialized
    <2>3. ASSUME NEW maxLeverage \in MaxLeverages, SetMaxLeverage(admin, maxLeverage)
          PROVE  Kept /\ openInterest' = openInterest /\ pmConfig' \in Config /\ PmInitialized'
        BY <1>1, <2>3 DEF SetMaxLeverage, PmConfigOnly, PmInitialized
    <2>4. ASSUME NEW engine \in LiquidationEngines, SetLiquidationEngine(admin, engine)
          PROVE  Kept /\ openInterest' = openInterest /\ pmConfig' \in Config /\ PmInitialized'
        BY <1>1, <2>4 DEF SetLiquidationEngine, PmConfigOnly, PmInitialized
    <2>5. ASSUME NEW funding \in FundingContracts, SetFundingAddress(admin, funding)
          PROVE  Kept /\ openInterest' = openInterest /\ pmConfig' \in Config /\ PmInitialized'
        BY <1>1, <2>5 DEF SetFundingAddress, PmConfigOnly, PmInitialized
    <2>. HIDE DEF Kept, Resets, Config
    <2>6. QED BY <1>2, <2>1, <2>2, <2>3, <2>4, <2>5
<1>5. Kept BY <1>4
<1>6. openInterest' = openInterest
    <2>1. CASE Resets
        <3>1. DOMAIN positions = {} BY <2>1 DEF PmInv, NoneUntilInitialized
        <3>2. ASSUME NEW d \in Directions PROVE openInterest[d] = 0
            <4>1. OpenIn(d) = {} BY <3>1 DEF OpenIn
            <4>2. DOMAIN [id \in OpenIn(d) |-> positions[id].size] = {} BY <4>1
            <4>3. SumOver([id \in OpenIn(d) |-> positions[id].size]) = 0
                BY <4>2, SumOverEmpty
            <4>4. QED BY <4>3 DEF PmInv, Books, OpenInterestExact
        <3>3. openInterest \in [Directions -> Nat] BY DEF PmInv, PmTypeOK
        <3>4. QED BY <2>1, <3>2, <3>3
    <2>2. QED BY <1>4, <2>1
<1>7. pmConfig' \in Config /\ PmInitialized' BY <1>4
<1>8. PmTypeOK' BY <1>5, <1>6, <1>7 DEF PmInv, PmTypeOK, otherVars
<1>9. VaultInv'
    BY <1>5 DEF PmInv, VaultInv, VaultTypeOK, SharesBacked, EmptyUntilInitialized,
                VaultInitialized, vaultVars, Holders
<1>10. OracleInv' BY <1>5, OracleUntouched DEF PmInv
<1>11. Books'
    <2>1. UNCHANGED <<usdc, totalDeposits, lockedLiquidity, otherLocked, otherHeld>>
        BY <1>5 DEF vaultVars, otherVars
    <2>2. QED BY <1>5, <1>6, <1>8, <1>9, <2>1, BooksKept DEF PmInv
<1>12. QED BY <1>7, <1>8, <1>9, <1>10, <1>11 DEF PmInv, NoneUntilInitialized

\* The vault and the oracle on their own, or with another manager.
LEMMA CalleePreserves ==
    ASSUME PmInv, CalleeStep
    PROVE  PmInv'
<1>1. UNCHANGED pmVars BY DEF CalleeStep
<1>2. NoneUntilInitialized'
    BY <1>1 DEF PmInv, NoneUntilInitialized, PmInitialized, pmVars
<1>3. otherLocked' \in Int /\ otherHeld' \in Int => PmTypeOK'
    BY <1>1 DEF PmInv, PmTypeOK, pmVars
<1>4. otherLocked \in Int /\ otherHeld \in Int BY DEF PmInv, PmTypeOK
<1>5. CASE OracleStep /\ UNCHANGED <<vaultVars, otherVars>>
    <2>1. OracleInv' BY <1>5, OracleStepPreserves DEF PmInv
    <2>2. VaultInv'
        BY <1>5 DEF PmInv, VaultInv, VaultTypeOK, SharesBacked, EmptyUntilInitialized,
                    VaultInitialized, vaultVars, Holders
    <2>3. PmTypeOK' BY <1>3, <1>4, <1>5 DEF otherVars
    <2>4. UNCHANGED <<usdc, totalDeposits, lockedLiquidity, otherLocked, otherHeld>>
        BY <1>5 DEF vaultVars, otherVars
    <2>5. Books' BY <1>1, <2>2, <2>3, <2>4, BooksKept DEF PmInv, pmVars
    <2>6. QED BY <1>2, <2>1, <2>2, <2>3, <2>5 DEF PmInv
<1>6. CASE (VaultAdminStep \/ VaultLpStep) /\ UNCHANGED <<oracleVars, otherVars>>
    <2>1. OracleInv' BY <1>6, OracleUntouched DEF PmInv
    <2>2. /\ VaultInv' /\ UNCHANGED lockedLiquidity
          /\ usdc'[VaultAddr] - totalDeposits' = usdc[VaultAddr] - totalDeposits
        <3>1. CASE VaultAdminStep BY <3>1, VaultAdminPreserves DEF PmInv
        <3>2. CASE VaultLpStep
            <4>1. PICK lp \in Accounts, amount \in LpAmounts :
                      Deposit(lp, amount) \/ Withdraw(lp, amount)
                BY <3>2 DEF VaultLpStep
            <4>2. UNCHANGED lockedLiquidity BY <4>1 DEF Deposit, Withdraw
            <4>3. QED BY <4>1, <4>2, DepositPreserves, WithdrawPreserves DEF PmInv
        <3>3. QED BY <1>6, <3>1, <3>2
    <2>3. UNCHANGED <<otherLocked, otherHeld>> BY <1>6 DEF otherVars
    <2>4. PmTypeOK' BY <1>3, <1>4, <2>3
    <2>5. Books' BY <1>1, <2>2, <2>3, <2>4, BooksKept DEF PmInv, pmVars
    <2>6. QED BY <1>2, <2>1, <2>2, <2>4, <2>5 DEF PmInv
<1>7. CASE OtherManagerStep /\ UNCHANGED oracleVars
    <2>1. OracleInv' BY <1>7, OracleUntouched DEF PmInv
    <2>2. VaultInv' BY <1>7, ManagerPreserves, TraderPreserves DEF OtherManagerStep, PmInv
    <2>3. /\ usdc[VaultAddr] \in Nat /\ totalDeposits \in Nat /\ lockedLiquidity \in Nat
          /\ usdc'[VaultAddr] \in Nat /\ totalDeposits' \in Nat /\ lockedLiquidity' \in Nat
        BY <2>2, VaultAssumption DEF PmInv, VaultInv, VaultTypeOK, Holders
    <2>4. /\ otherLocked' = otherLocked + (lockedLiquidity' - lockedLiquidity)
          /\ otherHeld' = otherHeld + (usdc'[VaultAddr] - usdc[VaultAddr])
                                    - (totalDeposits' - totalDeposits)
        BY <1>7 DEF OtherManagerStep
    <2>5. PmTypeOK' BY <1>3, <1>4, <2>3, <2>4
    <2>6. /\ lockedLiquidity' - otherLocked' = lockedLiquidity - otherLocked
          /\ usdc'[VaultAddr] - totalDeposits' - otherHeld'
                 = usdc[VaultAddr] - totalDeposits - otherHeld
        <3>. DEFINE held   == usdc[VaultAddr]
                    held2  == usdc'[VaultAddr]
                    total2 == totalDeposits'
                    lock2  == lockedLiquidity'
                    other2 == otherHeld'
                    debt2  == otherLocked'
        <3>1. /\ held \in Int /\ totalDeposits \in Int /\ lockedLiquidity \in Int
              /\ held2 \in Int /\ total2 \in Int /\ lock2 \in Int
            BY <2>3
        <3>2. /\ debt2 = otherLocked + (lock2 - lockedLiquidity)
              /\ other2 = otherHeld + (held2 - held) - (total2 - totalDeposits)
            BY <2>4
        <3>. HIDE DEF held, held2, total2, lock2, other2, debt2
        <3>3. lock2 - debt2 = lockedLiquidity - otherLocked BY <1>4, <3>1, <3>2
        <3>4. held2 - total2 - other2 = held - totalDeposits - otherHeld BY <1>4, <3>1, <3>2
        <3>5. QED BY <3>3, <3>4 DEF held, held2, total2, lock2, other2, debt2
    <2>7. Books' BY <1>1, <2>2, <2>5, <2>6, BooksKept DEF PmInv, pmVars
    <2>8. QED BY <1>2, <2>1, <2>2, <2>5, <2>7 DEF PmInv
<1>8. QED BY <1>5, <1>6, <1>7 DEF CalleeStep

-------------------------------------------------------------------------------
\* An opening locks the notional, posts the collateral with the fee, and credits
\* the fee.
LEMMA OpenPreserves ==
    ASSUME PmInv, NEW trader \in Accounts, NEW asset \in Assets,
           NEW direction \in Directions,
           NEW collateral \in Collaterals, NEW leverage \in Leverages,
           OpenPosition(trader, asset, direction, collateral, leverage)
    PROVE  PmInv'
<1>. DEFINE size    == collateral * leverage
            openFee == CalculateFee(size, pmConfig.openFeeBps)
            price   == GetPriceValue(asset)
            opened  == [trader |-> trader, asset |-> asset, direction |-> direction,
                        size |-> size, collateral |-> collateral, entryPrice |-> price]
<1>1. /\ leverage # 0
      /\ Served(asset)
      /\ Transfer(trader, VaultAddr, collateral + openFee)
      /\ RequirePositionManager(PmAddr)
      /\ size > 0
      /\ lockedLiquidity' = lockedLiquidity + size
      /\ totalDeposits' = totalDeposits + openFee
      /\ PmInitialized
    BY DEF OpenPosition, LockLiquidity, CollectFee
<1>2. /\ nextPositionId' = nextPositionId + 1
      /\ positions' = WithPosition(nextPositionId, opened)
      /\ openInterest' = [openInterest EXCEPT ![direction] = @ + size]
      /\ positionCount' = [positionCount EXCEPT ![trader] = @ + 1]
      /\ UNCHANGED <<pmConfig, uncoveredFees, otherVars, vaultConfig, totalShares,
                     shareBalance, oracleVars>>
      /\ UNCHANGED <<otherLocked, otherHeld>>
    BY DEF OpenPosition, otherVars
<1>3. collateral \in Int /\ leverage \in Nat BY PositionManagerAssumption
<1>4. size \in Nat \ {0} /\ collateral \in Nat \ {0}
    <2>1. size \in Int BY <1>3
    <2>2. collateral > 0 BY <1>1, <1>3, SMT
    <2>. HIDE DEF size
    <2>3. QED BY <1>1, <1>3, <2>1, <2>2
<1>5. openFee \in Nat
    <2>. HIDE DEF size
    <2>1. pmConfig.openFeeBps \in Nat BY DEF PmInv, PmTypeOK
    <2>2. QED BY <1>4, <2>1, FeeNat
<1>6. price \in Nat \ {0} BY <1>1, ServedPrice DEF PmInv
<1>. HIDE DEF size, openFee, price
<1>7. /\ opened \in Position
      /\ opened.size = size /\ opened.collateral = collateral
      /\ opened.direction = direction /\ opened.trader = trader
    BY <1>4, <1>6 DEF Position
<1>. HIDE DEF opened
<1>8. nextPositionId \in Nat /\ nextPositionId \notin DOMAIN positions
    BY DEF PmInv, PmTypeOK
<1>9. /\ OpenNotional' = OpenNotional + size
      /\ PostedCollateral' = PostedCollateral + collateral
      /\ \A d \in Directions :
            InterestIn(d)' = InterestIn(d) + (IF d = direction THEN size ELSE 0)
      /\ \A t \in Accounts :
            Cardinality(OpenOf(t)') = Cardinality(OpenOf(t)) + (IF t = trader THEN 1 ELSE 0)
    BY <1>2, <1>7, <1>8, AddedToBooks DEF PmInv
<1>10. /\ usdc' \in [Holders -> Nat]
       /\ usdc'[VaultAddr] = usdc[VaultAddr] + (collateral + openFee)
    BY <1>1, <1>4, <1>5, AmountsTyped, TransferMoves DEF PmInv
<1>11. VaultInv'
    <2>1. totalDeposits' \in Nat /\ lockedLiquidity' \in Nat
        BY <1>1, <1>4, <1>5, AmountsTyped DEF PmInv
    <2>2. VaultTypeOK'
        BY <1>2, <1>10, <2>1 DEF PmInv, VaultInv, VaultTypeOK, Holders
    <2>3. SharesBacked' BY <1>2 DEF PmInv, VaultInv, SharesBacked
    <2>4. EmptyUntilInitialized'
        BY <1>1, <1>2 DEF PmInv, VaultInv, EmptyUntilInitialized, VaultInitialized,
                          RequirePositionManager
    <2>5. QED BY <2>2, <2>3, <2>4 DEF VaultInv
<1>12. PmTypeOK'
    <2>1. openInterest' \in [Directions -> Nat] /\ positionCount' \in [Accounts -> Nat]
        BY <1>2, <1>4 DEF PmInv, PmTypeOK
    <2>2. nextPositionId' \in Nat \ {0} BY <1>2, <1>8
    <2>3. DOMAIN positions' = DOMAIN positions \cup {nextPositionId}
        BY <1>2 DEF WithPosition
    <2>4. DOMAIN positions' \subseteq 1 .. nextPositionId' - 1
        BY <1>2, <2>3 DEF PmInv, PmTypeOK
    <2>5. \A id \in DOMAIN positions' : positions'[id] \in Position
        BY <1>2, <1>7, <2>3 DEF WithPosition, PmInv, PmTypeOK
    <2>6. QED BY <1>2, <2>1, <2>2, <2>4, <2>5 DEF PmInv, PmTypeOK
<1>13. OracleInv' BY <1>2, OracleUntouched DEF PmInv
<1>14. LockedIsOpenNotional'
    <2>1. /\ OpenNotional \in Nat /\ lockedLiquidity \in Nat /\ otherLocked \in Int
          /\ lockedLiquidity = OpenNotional + otherLocked
        BY AmountsTyped, TotalsTyped DEF PmInv, PmTypeOK, Books, LockedIsOpenNotional
    <2>2. lockedLiquidity' = OpenNotional' + otherLocked' BY <1>1, <1>2, <1>4, <1>9, <2>1
    <2>3. QED BY <2>2 DEF LockedIsOpenNotional
<1>15. OpenInterestExact'
    <2>1. ASSUME NEW d \in Directions PROVE openInterest'[d] = InterestIn(d)'
        <3>1. openInterest[d] = InterestIn(d) /\ openInterest[d] \in Nat
            BY DEF PmInv, PmTypeOK, Books, OpenInterestExact, InterestIn
        <3>2. openInterest'[d] = openInterest[d] + (IF d = direction THEN size ELSE 0)
            BY <1>2, <1>4 DEF PmInv, PmTypeOK
        <3>3. QED BY <1>9, <3>1, <3>2
    <2>2. QED BY <2>1 DEF OpenInterestExact, InterestIn
<1>16. PositionCountExact'
    <2>1. ASSUME NEW t \in Accounts PROVE positionCount'[t] = Cardinality(OpenOf(t)')
        <3>1. positionCount[t] = Cardinality(OpenOf(t)) /\ positionCount[t] \in Nat
            BY DEF PmInv, PmTypeOK, Books, PositionCountExact
        <3>2. positionCount'[t] = positionCount[t] + (IF t = trader THEN 1 ELSE 0)
            BY <1>2 DEF PmInv, PmTypeOK
        <3>3. QED BY <1>9, <3>1, <3>2
    <2>2. QED BY <2>1 DEF PositionCountExact
<1>17. Backing'
    <2>1. /\ usdc[VaultAddr] \in Nat /\ totalDeposits \in Nat
          /\ PostedCollateral \in Nat /\ uncoveredFees \in Nat /\ otherHeld \in Int
        BY AmountsTyped, TotalsTyped DEF PmInv, PmTypeOK
    <2>2. usdc[VaultAddr] + uncoveredFees = totalDeposits + PostedCollateral + otherHeld
        BY DEF PmInv, Books, Backing
    <2>3. /\ uncoveredFees' = uncoveredFees /\ totalDeposits' = totalDeposits + openFee
          /\ PostedCollateral' = PostedCollateral + collateral /\ otherHeld' = otherHeld
        BY <1>1, <1>2, <1>9
    <2>4. usdc'[VaultAddr] + uncoveredFees' = totalDeposits' + PostedCollateral' + otherHeld'
        BY <1>4, <1>5, <1>10, <2>1, <2>2, <2>3
    <2>5. QED BY <2>4 DEF Backing
<1>18. NoneUntilInitialized' BY <1>1, <1>2 DEF NoneUntilInitialized, PmInitialized
<1>19. QED BY <1>11, <1>12, <1>13, <1>14, <1>15, <1>16, <1>17, <1>18 DEF PmInv, Books

\* An end releases what the opening locked, and pays what is left of the
\* collateral after the profit or loss and the fee; a fee beyond that is not paid.
LEMMA EndPreserves ==
    ASSUME PmInv, NEW id \in DOMAIN positions, NEW fee \in Nat, EndPosition(id, fee)
    PROVE  PmInv'
<1>. DEFINE p      == positions[id]
            pnl    == SettledPnl(p, p.asset)
            payout == p.collateral + pnl - fee
<1>1. /\ Served(p.asset)
      /\ RequirePositionManager(PmAddr)
      /\ lockedLiquidity - p.size >= 0
      /\ totalDeposits - pnl + fee >= 0
      /\ lockedLiquidity' = lockedLiquidity - p.size
      /\ totalDeposits' = totalDeposits - pnl + fee
      /\ IF payout > 0 THEN Transfer(VaultAddr, p.trader, payout) ELSE UNCHANGED usdc
    BY DEF EndPosition, ClosePositionSettlement
<1>2. /\ positions' = WithoutPosition(id)
      /\ openInterest' = [openInterest EXCEPT ![p.direction] = @ - p.size]
      /\ positionCount' = [positionCount EXCEPT ![p.trader] = IF @ > 0 THEN @ - 1 ELSE @]
      /\ uncoveredFees' = uncoveredFees + (IF payout < 0 THEN -payout ELSE 0)
      /\ UNCHANGED <<pmConfig, nextPositionId, otherVars, vaultConfig, totalShares,
                     shareBalance, oracleVars>>
      /\ UNCHANGED <<otherLocked, otherHeld>>
    BY DEF EndPosition, ReleaseInterest, ReduceCount, otherVars
<1>3. p \in Position BY DEF PmInv, PmTypeOK
<1>4. /\ p.size \in Nat \ {0} /\ p.collateral \in Nat \ {0}
      /\ p.entryPrice \in Nat \ {0}
      /\ p.trader \in Accounts /\ p.asset \in Assets /\ p.direction \in Directions
    BY <1>3 DEF Position
<1>. HIDE DEF p
<1>5. pnl \in Int
    <2>1. GetPriceValue(p.asset) \in Int BY <1>1, <1>4, ServedPrice DEF PmInv
    <2>2. RawPnl(p, p.asset) \in Int BY <1>4, <2>1, PnlInt DEF RawPnl
    <2>3. QED BY <1>4, <2>2, CapLossBounds DEF SettledPnl
<1>. HIDE DEF pnl
<1>6. payout \in Int BY <1>4, <1>5
<1>7. /\ OpenNotional = p.size + OpenNotional'
      /\ PostedCollateral = p.collateral + PostedCollateral'
      /\ \A d \in Directions :
            InterestIn(d) = InterestIn(d)' + (IF d = p.direction THEN p.size ELSE 0)
      /\ \A t \in Accounts :
            Cardinality(OpenOf(t)') = Cardinality(OpenOf(t)) - (IF t = p.trader THEN 1 ELSE 0)
    BY <1>2, RemovedFromBooks DEF PmInv, p
<1>8. /\ DOMAIN positions' = DOMAIN positions \ {id}
      /\ \A i \in DOMAIN positions' : positions'[i] = positions[i]
    BY <1>2 DEF WithoutPosition
<1>9. /\ \A d \in Directions : InterestIn(d) \in Nat /\ InterestIn(d)' \in Nat
      /\ OpenNotional' \in Nat /\ PostedCollateral' \in Nat
    <2>1. \A d \in Directions : InterestIn(d) \in Nat BY TotalsTyped DEF PmInv
    <2>2. IsFiniteSet(DOMAIN positions') BY <1>8, BooksTyped, FS_RemoveElement DEF PmInv
    <2>3. \A i \in DOMAIN positions' : positions'[i].size \in Nat
                                       /\ positions'[i].collateral \in Nat
        BY <1>8 DEF PmInv, PmTypeOK, Position
    <2>4. SizeOf' \in [DOMAIN positions' -> Nat] BY <2>3 DEF SizeOf
    <2>5. CollateralOf' \in [DOMAIN positions' -> Nat] BY <2>3 DEF CollateralOf
    <2>6. OpenNotional' \in Nat BY <2>2, <2>4, SumOverNat DEF OpenNotional
    <2>7. PostedCollateral' \in Nat BY <2>2, <2>5, SumOverNat DEF PostedCollateral
    <2>8. ASSUME NEW d \in Directions PROVE InterestIn(d)' \in Nat
        <3>. DEFINE open  == {i \in DOMAIN positions' : positions'[i].direction = d}
                    sizes == [i \in open |-> positions'[i].size]
        <3>1. IsFiniteSet(open)
            <4>1. open \in SUBSET DOMAIN positions' OBVIOUS
            <4>2. QED BY <2>2, <4>1, FS_Subset
        <3>2. sizes \in [open -> Nat] BY <2>3
        <3>3. InterestIn(d)' = SumOver(sizes) BY DEF InterestIn, OpenIn
        <3>. HIDE DEF open, sizes
        <3>4. QED BY <3>1, <3>2, <3>3, SumOverNat
    <2>9. QED BY <2>1, <2>6, <2>7, <2>8
<1>10. /\ usdc' \in [Holders -> Nat]
       /\ usdc'[VaultAddr] = usdc[VaultAddr] - (IF payout > 0 THEN payout ELSE 0)
    <2>1. /\ usdc \in [Holders -> Nat] /\ usdc[VaultAddr] \in Nat
          /\ VaultAddr \in Holders /\ p.trader \in Holders /\ p.trader # VaultAddr
        BY <1>4, AmountsTyped DEF PmInv
    <2>. HIDE DEF payout
    <2>2. CASE payout > 0
        <3>1. Transfer(VaultAddr, p.trader, payout) BY <1>1, <2>2
        <3>2. QED BY <1>6, <2>1, <2>2, <3>1, TransferMoves
    <2>3. CASE ~(payout > 0)
        <3>1. usdc' = usdc BY <1>1, <2>3
        <3>2. QED BY <2>1, <2>3, <3>1
    <2>4. QED BY <2>2, <2>3
<1>11. VaultInv'
    <2>1. totalDeposits' \in Nat /\ lockedLiquidity' \in Nat
        BY <1>1, <1>4, <1>5, AmountsTyped DEF PmInv
    <2>2. VaultTypeOK'
        BY <1>2, <1>10, <2>1 DEF PmInv, VaultInv, VaultTypeOK, Holders
    <2>3. SharesBacked' BY <1>2 DEF PmInv, VaultInv, SharesBacked
    <2>4. EmptyUntilInitialized'
        BY <1>1, <1>2 DEF PmInv, VaultInv, EmptyUntilInitialized, VaultInitialized,
                          RequirePositionManager
    <2>5. QED BY <2>2, <2>3, <2>4 DEF VaultInv
<1>12. OpenInterestExact'
    <2>1. ASSUME NEW d \in Directions PROVE openInterest'[d] = InterestIn(d)'
        <3>1. openInterest[d] = InterestIn(d) /\ openInterest[d] \in Nat
            BY DEF PmInv, PmTypeOK, Books, OpenInterestExact, InterestIn
        <3>2. openInterest'[d] = openInterest[d] - (IF d = p.direction THEN p.size ELSE 0)
            BY <1>2, <1>4, <3>1 DEF PmInv, PmTypeOK
        <3>3. QED BY <1>4, <1>7, <1>9, <3>1, <3>2
    <2>2. QED BY <2>1 DEF OpenInterestExact, InterestIn
<1>13. PositionCountExact'
    <2>1. ASSUME NEW t \in Accounts PROVE positionCount'[t] = Cardinality(OpenOf(t)')
        <3>1. positionCount[t] = Cardinality(OpenOf(t)) /\ positionCount[t] \in Nat
            BY DEF PmInv, PmTypeOK, Books, PositionCountExact
        <3>2. CASE t = p.trader
            <4>1. id \in OpenOf(t) BY <3>2 DEF OpenOf, p
            <4>2. IsFiniteSet(OpenOf(t)) BY BooksTyped DEF PmInv
            <4>3. Cardinality(OpenOf(t)) > 0
                <5>1. OpenOf(t) # {} BY <4>1
                <5>2. Cardinality(OpenOf(t)) # 0 BY <4>2, <5>1, FS_EmptySet
                <5>3. QED BY <3>1, <5>2
            <4>4. positionCount'[t] = positionCount[t] - 1
                BY <1>2, <3>1, <3>2, <4>3 DEF PmInv, PmTypeOK
            <4>5. QED BY <1>7, <3>1, <3>2, <4>4
        <3>3. CASE t # p.trader
            <4>1. positionCount'[t] = positionCount[t]
                BY <1>2, <3>3 DEF PmInv, PmTypeOK
            <4>2. QED BY <1>7, <3>1, <3>3, <4>1
        <3>4. QED BY <3>2, <3>3
    <2>2. QED BY <2>1 DEF PositionCountExact
<1>14. PmTypeOK'
    <2>1. ASSUME NEW d \in Directions PROVE openInterest'[d] \in Nat
        BY <1>9, <1>12 DEF OpenInterestExact, InterestIn
    <2>2. openInterest' \in [Directions -> Nat]
        BY <1>2, <2>1 DEF PmInv, PmTypeOK
    <2>3. positionCount' \in [Accounts -> Nat]
        BY <1>2, <1>4 DEF PmInv, PmTypeOK
    <2>4. uncoveredFees' \in Nat
        <3>. HIDE DEF payout
        <3>1. QED BY <1>2, <1>6 DEF PmInv, PmTypeOK
    <2>5. /\ DOMAIN positions' \subseteq 1 .. nextPositionId' - 1
          /\ \A i \in DOMAIN positions' : positions'[i] \in Position
        BY <1>2, <1>8 DEF PmInv, PmTypeOK
    <2>6. QED BY <1>2, <2>2, <2>3, <2>4, <2>5 DEF PmInv, PmTypeOK
<1>15. OracleInv' BY <1>2, OracleUntouched DEF PmInv
<1>16. LockedIsOpenNotional'
    <2>1. /\ lockedLiquidity \in Nat /\ otherLocked \in Int
          /\ lockedLiquidity = OpenNotional + otherLocked
        BY AmountsTyped DEF PmInv, PmTypeOK, Books, LockedIsOpenNotional
    <2>2. lockedLiquidity' = OpenNotional' + otherLocked'
        BY <1>1, <1>2, <1>4, <1>7, <1>9, <2>1
    <2>3. QED BY <2>2 DEF LockedIsOpenNotional
<1>17. Backing'
    <2>1. /\ usdc[VaultAddr] \in Nat /\ totalDeposits \in Nat /\ uncoveredFees \in Nat
          /\ otherHeld \in Int
        BY AmountsTyped DEF PmInv, PmTypeOK
    <2>2. usdc[VaultAddr] + uncoveredFees = totalDeposits + PostedCollateral + otherHeld
        BY DEF PmInv, Books, Backing
    <2>3. usdc'[VaultAddr] + uncoveredFees' = totalDeposits' + PostedCollateral' + otherHeld'
        BY <1>1, <1>2, <1>4, <1>5, <1>7, <1>9, <1>10, <2>1, <2>2
    <2>4. QED BY <2>3 DEF Backing
<1>18. NoneUntilInitialized'
    BY <1>2, <1>8 DEF PmInv, NoneUntilInitialized, PmInitialized
<1>19. QED BY <1>11, <1>12, <1>13, <1>14, <1>15, <1>16, <1>17, <1>18 DEF PmInv, Books

-------------------------------------------------------------------------------
\* Every step keeps the invariant.
LEMMA PmNextPreserves ==
    ASSUME PmInv, [PmNext]_allVars
    PROVE  PmInv'
<1>1. CASE PmAdminStep BY <1>1, PmAdminPreserves
<1>2. CASE PmTradeStep
    <2>1. PICK trader \in Accounts, asset \in Assets :
              \/ \E direction \in Directions, collateral \in Collaterals,
                    leverage \in Leverages :
                     OpenPosition(trader, asset, direction, collateral, leverage)
              \/ \E id \in DOMAIN positions : ClosePosition(trader, id, asset)
        BY <1>2 DEF PmTradeStep
    <2>2. ASSUME NEW direction \in Directions, NEW collateral \in Collaterals,
                 NEW leverage \in Leverages,
                 OpenPosition(trader, asset, direction, collateral, leverage)
          PROVE  PmInv'
        BY <2>2, OpenPreserves
    <2>3. ASSUME NEW id \in DOMAIN positions, ClosePosition(trader, id, asset)
          PROVE  PmInv'
        <3>. DEFINE fee == CalculateFee(positions[id].size, pmConfig.closeFeeBps)
        <3>1. EndPosition(id, fee) BY <2>3 DEF ClosePosition
        <3>2. positions[id].size \in Nat /\ pmConfig.closeFeeBps \in Nat
            BY DEF PmInv, PmTypeOK, Position
        <3>3. fee \in Nat BY <3>2, FeeNat
        <3>. HIDE DEF fee
        <3>4. QED BY <3>1, <3>3, EndPreserves
    <2>4. QED BY <2>1, <2>2, <2>3
<1>3. CASE PmLiquidateStep
    <2>1. PICK id \in DOMAIN positions : EndPosition(id, 0)
        BY <1>3 DEF PmLiquidateStep, LiquidatePosition
    <2>2. QED BY <2>1, EndPreserves
<1>4. CASE CalleeStep BY <1>4, CalleePreserves
<1>5. CASE UNCHANGED allVars
    <2>1. UNCHANGED <<vaultVars, oracleVars, pmVars, otherVars>> BY <1>5 DEF allVars
    <2>2. VaultInv'
        BY <2>1 DEF PmInv, VaultInv, VaultTypeOK, SharesBacked, EmptyUntilInitialized,
                    VaultInitialized, vaultVars, Holders
    <2>3. OracleInv' BY <2>1, OracleUntouched DEF PmInv
    <2>4. PmTypeOK' /\ NoneUntilInitialized'
        BY <2>1 DEF PmInv, PmTypeOK, NoneUntilInitialized, PmInitialized, pmVars, otherVars
    <2>5. Books' BY <2>1, <2>2, <2>4, BooksKept DEF PmInv, vaultVars, pmVars, otherVars
    <2>6. QED BY <2>2, <2>3, <2>4, <2>5 DEF PmInv
<1>6. QED BY <1>1, <1>2, <1>3, <1>4, <1>5 DEF PmNext

\* The invariant holds of every behaviour of the position manager, the vault and
\* the oracle: their calls to each other keep the three sets of books in step.
THEOREM PmInvariant == PmSpec => []PmInv
<1>1. PmSpecInit => PmInv BY PmInitInv
<1>2. PmInv /\ [PmNext]_allVars => PmInv' BY PmNextPreserves
<1>3. QED BY <1>1, <1>2, PTL DEF PmSpec

\* The books agree from the deployed state on too: the script leaves nothing that a
\* later call could trip over.
THEOREM DeploymentIsSound ==
    ASSUME DeploymentTyped
    PROVE  DeployedSpec => []LockedIsOpenNotional /\ []OpenInterestExact
                              /\ []PositionCountExact /\ []Backing
<1>1. Deployed => PmInv BY DeployedInv
<1>2. PmInv /\ [PmNext]_allVars => PmInv' BY PmNextPreserves
<1>3. PmInv => LockedIsOpenNotional /\ OpenInterestExact /\ PositionCountExact /\ Backing
    BY DEF PmInv, Books
<1>4. QED BY <1>1, <1>2, <1>3, PTL DEF DeployedSpec

\* Type correctness of the position manager: amounts, counters and interest stay
\* natural, so no subtraction of an end of a position underflows.
THEOREM PmTypeCorrect == PmSpec => []PmTypeOK
<1>1. PmInv => PmTypeOK BY DEF PmInv
<1>2. QED BY <1>1, PmInvariant, PTL

\* What close_position_settlement releases is what open_position locked, for every
\* interleaving of the users' calls with those of other managers that are registered
\* in between: the liquidity locked is this contract's part and theirs.
THEOREM LockedIsNotional == PmSpec => []LockedIsOpenNotional
<1>1. PmInv => LockedIsOpenNotional BY DEF PmInv, Books
<1>2. QED BY <1>1, PmInvariant, PTL

\* add_long_oi, add_short_oi and the matching subtractions keep the open interest
\* at the total size of each direction.
THEOREM InterestIsExact == PmSpec => []OpenInterestExact
<1>1. PmInv => OpenInterestExact BY DEF PmInv, Books
<1>2. QED BY <1>1, PmInvariant, PTL

\* The counter of a trader is the number of the trader's open positions.
THEOREM CountIsExact == PmSpec => []PositionCountExact
<1>1. PmInv => PositionCountExact BY DEF PmInv, Books
<1>2. QED BY <1>1, PmInvariant, PTL

\* The vault's tokens are the pool's equity, the posted collateral and what other
\* managers brought, less the closing fees nobody paid.
THEOREM VaultIsBacked == PmSpec => []Backing
<1>1. PmInv => Backing BY DEF PmInv, Books
<1>2. QED BY <1>1, PmInvariant, PTL

\* A position is no larger than what is locked, and its collateral no larger than
\* what is posted; so an end the equity can pay never lacks tokens or liquidity.
LEMMA InvGivesExit == PmInv => ExitOnlyNeedsEquity
<1>. SUFFICES ASSUME PmInv, uncoveredFees = 0, otherLocked >= 0, otherHeld >= 0,
                     NEW id \in DOMAIN positions
              PROVE
                LET pnl == SettledPnl(positions[id], positions[id].asset)
                    fee == CalculateFee(positions[id].size, pmConfig.closeFeeBps)
                IN  /\ positions[id].size <= lockedLiquidity
                    /\ (Served(positions[id].asset) /\ totalDeposits - pnl + fee >= 0)
                           => positions[id].collateral + pnl - fee <= usdc[VaultAddr]
    BY DEF ExitOnlyNeedsEquity
<1>. DEFINE p   == positions[id]
            pnl == SettledPnl(p, p.asset)
            fee == CalculateFee(p.size, pmConfig.closeFeeBps)
<1>1. /\ p.size \in Nat /\ p.collateral \in Nat /\ p.entryPrice \in Nat \ {0}
      /\ p.asset \in Assets /\ p.direction \in Directions
    BY DEF PmInv, PmTypeOK, Position
<1>2. fee \in Nat
    <2>1. pmConfig.closeFeeBps \in Nat BY DEF PmInv, PmTypeOK
    <2>. HIDE DEF p
    <2>2. QED BY <1>1, <2>1, FeeNat
<1>3. p.size <= lockedLiquidity
    <2>1. SizeOf[id] <= OpenNotional BY BooksTyped, SumOverBounds DEF PmInv, OpenNotional
    <2>2. /\ OpenNotional \in Nat /\ otherLocked \in Int
          /\ lockedLiquidity = OpenNotional + otherLocked
        BY TotalsTyped DEF PmInv, PmTypeOK, Books, LockedIsOpenNotional
    <2>3. p.size <= OpenNotional BY <2>1 DEF SizeOf
    <2>. HIDE DEF p
    <2>4. QED BY <1>1, <2>2, <2>3
<1>4. p.collateral <= PostedCollateral
    <2>1. CollateralOf[id] <= PostedCollateral
        BY BooksTyped, SumOverBounds DEF PmInv, PostedCollateral
    <2>2. QED BY <2>1 DEF CollateralOf
<1>5. usdc[VaultAddr] >= totalDeposits + PostedCollateral
    <2>1. /\ usdc[VaultAddr] \in Nat /\ totalDeposits \in Nat /\ PostedCollateral \in Nat
          /\ otherHeld \in Int
        BY AmountsTyped, TotalsTyped DEF PmInv, PmTypeOK
    <2>2. usdc[VaultAddr] + 0 = totalDeposits + PostedCollateral + otherHeld
        BY DEF PmInv, Books, Backing
    <2>3. QED BY <2>1, <2>2
<1>6. ASSUME Served(p.asset), totalDeposits - pnl + fee >= 0
      PROVE  p.collateral + pnl - fee <= usdc[VaultAddr]
    <2>. HIDE DEF p
    <2>1. pnl \in Int
        <3>1. GetPriceValue(p.asset) \in Int BY <1>1, <1>6, ServedPrice DEF PmInv
        <3>2. RawPnl(p, p.asset) \in Int BY <1>1, <3>1, PnlInt DEF RawPnl
        <3>3. QED BY <1>1, <3>2, CapLossBounds DEF SettledPnl
    <2>2. totalDeposits \in Nat /\ PostedCollateral \in Nat /\ usdc[VaultAddr] \in Nat
        BY AmountsTyped, TotalsTyped DEF PmInv
    <2>. HIDE DEF pnl, fee
    <2>3. QED BY <1>1, <1>2, <1>4, <1>5, <1>6, <2>1, <2>2
<1>7. QED BY <1>3, <1>6

\* Unless a closing fee went unpaid or another manager took more than it brought,
\* only the check of the pool's equity can stop a
\* position with a recent price from ending.
THEOREM ExitsNeedOnlyEquity == PmSpec => []ExitOnlyNeedsEquity
BY InvGivesExit, PmInvariant, PTL
-------------------------------------------------------------------------------
\* The promises of PoolLedger.

Wallet == [a \in Accounts |-> usdc[a]]

\* What the promises take for granted of fees and prices: they were once arguments
\* of the administrators' calls.
ConfiguredValues ==
    /\ PmInitialized => pmConfig.openFeeBps \in FeeRates /\ pmConfig.closeFeeBps \in FeeRates
    /\ \A asset \in Assets : cachedPrice[asset].price \in Prices \cup {0}

LedgerInv == PmInv /\ ConfiguredValues

\* The arithmetic of PoolLedger is that of the contracts.
LEMMA SameArithmetic ==
    /\ \A size, bps : Ledger!CalculateFee(size, bps) = CalculateFee(size, bps)
    /\ \A direction, size, entryPrice, price :
          Ledger!CalculatePnl(direction, size, entryPrice, price)
              = CalculatePnl(direction, size, entryPrice, price)
    /\ \A pnl, collateral : Ledger!CapLoss(pnl, collateral) = CapLoss(pnl, collateral)
    /\ Ledger!Directions = Directions
<1>1. \A n, d : Ledger!Trunc(n, d) = Trunc(n, d) BY DEF Trunc, Ledger!Trunc
<1>2. Ledger!BPS = BPS BY DEF BPS, Ledger!BPS
<1>3. \A size, bps : Ledger!CalculateFee(size, bps) = CalculateFee(size, bps)
    BY <1>1, <1>2 DEF CalculateFee, Ledger!CalculateFee
<1>4. \A direction, size, entryPrice, price :
          Ledger!CalculatePnl(direction, size, entryPrice, price)
              = CalculatePnl(direction, size, entryPrice, price)
    BY <1>1 DEF CalculatePnl, Ledger!CalculatePnl
<1>5. \A pnl, collateral : Ledger!CapLoss(pnl, collateral) = CapLoss(pnl, collateral)
    BY DEF CapLoss, Ledger!CapLoss
<1>6. Ledger!Directions = Directions BY DEF Directions, Ledger!Directions
<1>7. QED BY <1>3, <1>4, <1>5, <1>6

\* A transfer between the vault and an account moves the account's wallet alone.
LEMMA WalletMoves ==
    ASSUME usdc \in [Holders -> Nat], NEW account \in Accounts, NEW amount \in Int
    PROVE  /\ Transfer(account, VaultAddr, amount) =>
                 /\ Wallet' = [Wallet EXCEPT ![account] = @ - amount]
                 /\ amount <= Wallet[account]
           /\ Transfer(VaultAddr, account, amount) =>
                 Wallet' = [Wallet EXCEPT ![account] = @ + amount]
<1>1. /\ account \in Holders /\ VaultAddr \in Holders /\ account # VaultAddr
      /\ \A a \in Accounts : a \in Holders /\ a # VaultAddr
    BY VaultAssumption DEF Holders
<1>2. ASSUME Transfer(account, VaultAddr, amount)
      PROVE  /\ Wallet' = [Wallet EXCEPT ![account] = @ - amount]
             /\ amount <= Wallet[account]
    <2>1. /\ usdc'[account] = usdc[account] - amount
          /\ \A h \in Holders \ {account, VaultAddr} : usdc'[h] = usdc[h]
        BY <1>1, <1>2, TransferMoves
    <2>2. amount <= usdc[account] BY <1>2 DEF Transfer
    <2>3. QED BY <1>1, <2>1, <2>2 DEF Wallet
<1>3. ASSUME Transfer(VaultAddr, account, amount)
      PROVE  Wallet' = [Wallet EXCEPT ![account] = @ + amount]
    <2>1. /\ usdc'[account] = usdc[account] + amount
          /\ \A h \in Holders \ {account, VaultAddr} : usdc'[h] = usdc[h]
        BY <1>1, <1>3, TransferMoves
    <2>2. QED BY <1>1, <2>1 DEF Wallet
<1>4. QED BY <1>2, <1>3

Managed == vaultConfig.positionManager = PmAddr

LEMMA DepositContributes ==
    ASSUME PmInv, UNCHANGED positions,
           NEW lp \in Accounts, NEW amount \in LpAmounts, Deposit(lp, amount)
    PROVE  Ledger!Contribute(lp)
<1>1. /\ amount \in Nat \ {0} /\ Transfer(lp, VaultAddr, amount)
      /\ totalDeposits' = totalDeposits + amount
      /\ Managed' = Managed
    BY VaultAssumption DEF Deposit, Managed
<1>2. /\ Wallet' = [Wallet EXCEPT ![lp] = @ - amount] /\ amount <= Wallet[lp]
    BY <1>1, AmountsTyped, WalletMoves DEF PmInv
<1>3. Wallet[lp] \in Nat BY AmountsTyped DEF PmInv, Wallet
<1>4. amount \in 1 .. Wallet[lp] BY <1>1, <1>2, <1>3
<1>5. QED BY <1>1, <1>2, <1>4 DEF Ledger!Contribute, Wallet, Managed

LEMMA WithdrawRedeems ==
    ASSUME PmInv, UNCHANGED positions,
           NEW lp \in Accounts, NEW shares \in LpAmounts, Withdraw(lp, shares)
    PROVE  Ledger!Redeem(lp)
<1>. DEFINE returned == CalcWithdrawalAmount(shares, totalShares, totalDeposits)
<1>1. /\ shares \in Nat /\ shares <= shareBalance[lp] /\ returned > 0
      /\ Transfer(VaultAddr, lp, returned)
      /\ totalDeposits' = totalDeposits - returned
      /\ Managed' = Managed
    BY VaultAssumption DEF Withdraw, Managed
<1>2. /\ totalShares \in Nat /\ totalDeposits \in Nat /\ shareBalance \in [Accounts -> Nat]
      /\ totalShares = SumOver(shareBalance)
    BY DEF PmInv, VaultInv, VaultTypeOK, SharesBacked
<1>3. shares <= totalShares
    <2>1. shareBalance[lp] <= SumOver(shareBalance)
        BY <1>2, VaultAssumption, SumOverBounds
    <2>2. shareBalance[lp] \in Nat BY <1>2
    <2>3. QED BY <1>1, <1>2, <2>1, <2>2
<1>4. returned \in Nat /\ returned <= totalDeposits
    BY <1>1, <1>2, <1>3, WithdrawalBounds
<1>. HIDE DEF returned
<1>5. Wallet' = [Wallet EXCEPT ![lp] = @ + returned]
    BY <1>1, <1>4, AmountsTyped, WalletMoves DEF PmInv
<1>6. returned \in 1 .. totalDeposits BY <1>1, <1>2, <1>4
<1>7. QED BY <1>1, <1>5, <1>6 DEF Ledger!Redeem, Wallet, Managed

LEMMA OpenOpens ==
    ASSUME LedgerInv, NEW trader \in Accounts, NEW asset \in Assets,
           NEW direction \in Directions, NEW collateral \in Collaterals,
           NEW leverage \in Leverages,
           OpenPosition(trader, asset, direction, collateral, leverage)
    PROVE  Ledger!LedgerNext
<1>. DEFINE size    == collateral * leverage
            openFee == CalculateFee(size, pmConfig.openFeeBps)
            price   == GetPriceValue(asset)
            opened  == [trader |-> trader, asset |-> asset, direction |-> direction,
                        size |-> size, collateral |-> collateral, entryPrice |-> price]
<1>1. /\ PmInitialized /\ Served(asset) /\ size > 0 /\ openFee > 0
      /\ Transfer(trader, VaultAddr, collateral + openFee)
      /\ totalDeposits' = totalDeposits + openFee
      /\ positions' = WithPosition(nextPositionId, opened)
      /\ Managed /\ Managed' = Managed
    BY DEF OpenPosition, LockLiquidity, CollectFee, RequirePositionManager, Managed
<1>2. price \in Nat \ {0} BY <1>1, ServedPrice DEF LedgerInv, PmInv
<1>3. price \in Prices BY <1>2 DEF LedgerInv, ConfiguredValues, GetPriceValue
<1>4. pmConfig.openFeeBps \in FeeRates BY <1>1 DEF LedgerInv, ConfiguredValues
<1>5. collateral \in Int /\ size \in Int BY PositionManagerAssumption
<1>6. openFee \in Nat
    <2>. HIDE DEF size
    <2>1. size \in Nat BY <1>1, <1>5
    <2>2. pmConfig.openFeeBps \in Nat BY DEF LedgerInv, PmInv, PmTypeOK
    <2>3. QED BY <2>1, <2>2, FeeNat
<1>7. openFee = Ledger!CalculateFee(size, pmConfig.openFeeBps) BY SameArithmetic
<1>. HIDE DEF openFee, price
<1>8. /\ Wallet' = [Wallet EXCEPT ![trader] = @ - (collateral + openFee)]
      /\ collateral + openFee <= Wallet[trader]
    BY <1>1, <1>5, <1>6, AmountsTyped, WalletMoves DEF LedgerInv, PmInv
<1>9. nextPositionId \in DOMAIN positions' \ DOMAIN positions
    BY <1>1 DEF WithPosition, LedgerInv, PmInv, PmTypeOK
<1>10. \E id \in DOMAIN positions' \ DOMAIN positions :
           positions' = [i \in DOMAIN positions \cup {id} |->
                             IF i = id THEN opened ELSE positions[i]]
    <2>. HIDE DEF opened
    <2>1. QED BY <1>1, <1>9 DEF WithPosition
<1>11. PICK q \in Prices : q = price BY <1>3
<1>12. PICK bps \in FeeRates : bps = pmConfig.openFeeBps BY <1>4
<1>13. Ledger!Open(trader, asset, direction, collateral, leverage, q, bps)
    BY <1>1, <1>2, <1>7, <1>8, <1>10, <1>11, <1>12 DEF Ledger!Open, Wallet, Managed
<1>14. direction \in Ledger!Directions BY SameArithmetic
<1>15. QED BY <1>13, <1>14 DEF Ledger!LedgerNext

LEMMA EndEnds ==
    ASSUME LedgerInv, NEW id \in DOMAIN positions, NEW bps \in FeeRates \cup {0},
           NEW fee \in Nat, fee = CalculateFee(positions[id].size, bps),
           EndPosition(id, fee)
    PROVE  Ledger!LedgerNext
<1>. DEFINE p      == positions[id]
            price  == GetPriceValue(p.asset)
            pnl    == CapLoss(CalculatePnl(p.direction, p.size, p.entryPrice, price),
                              p.collateral)
            payout == p.collateral + pnl - fee
<1>1. /\ Served(p.asset)
      /\ totalDeposits - pnl + fee >= 0
      /\ totalDeposits' = totalDeposits - pnl + fee
      /\ IF payout > 0 THEN Transfer(VaultAddr, p.trader, payout) ELSE UNCHANGED usdc
      /\ positions' = WithoutPosition(id)
      /\ Managed /\ Managed' = Managed
    BY DEF EndPosition, ClosePositionSettlement, SettledPnl, RawPnl,
           RequirePositionManager, Managed
<1>2. /\ p.size \in Nat \ {0} /\ p.collateral \in Nat \ {0}
      /\ p.entryPrice \in Nat \ {0}
      /\ p.trader \in Accounts /\ p.asset \in Assets /\ p.direction \in Directions
    BY DEF LedgerInv, PmInv, PmTypeOK, Position
<1>. HIDE DEF p
<1>3. price \in Nat \ {0} BY <1>1, <1>2, ServedPrice DEF LedgerInv, PmInv
<1>4. price \in Prices BY <1>2, <1>3 DEF LedgerInv, ConfiguredValues, GetPriceValue
<1>. HIDE DEF price
<1>5. pnl \in Int
    <2>1. price \in Int /\ p.size \in Nat BY <1>2, <1>3
    <2>2. CalculatePnl(p.direction, p.size, p.entryPrice, price) \in Int
        BY <1>2, <2>1, PnlInt
    <2>3. QED BY <1>2, <2>2, CapLossBounds
<1>6. pnl = Ledger!CapLoss(Ledger!CalculatePnl(p.direction, p.size, p.entryPrice, price),
                           p.collateral)
    BY SameArithmetic
<1>7. fee = Ledger!CalculateFee(p.size, bps) BY SameArithmetic DEF p
<1>. HIDE DEF pnl
<1>8. payout \in Int BY <1>2, <1>5
<1>9. Wallet' = IF payout > 0 THEN [Wallet EXCEPT ![p.trader] = @ + payout] ELSE Wallet
    <2>. HIDE DEF payout
    <2>1. CASE payout > 0
        BY <1>1, <1>2, <1>8, <2>1, AmountsTyped, WalletMoves DEF LedgerInv, PmInv
    <2>2. CASE ~(payout > 0) BY <1>1, <2>2 DEF Wallet
    <2>3. QED BY <2>1, <2>2
<1>10. Ledger!End(id, price, bps)
    BY <1>1, <1>6, <1>7, <1>9 DEF Ledger!End, Wallet, WithoutPosition, p, Managed
<1>11. QED BY <1>4, <1>10 DEF Ledger!LedgerNext

LEMMA LedgerInvInit == PmSpecInit => LedgerInv
<1>1. PmSpecInit => PmInv BY PmInitInv
<1>2. PmSpecInit => ~PmInitialized BY DEF PmSpecInit, PmInit, PmInitialized
<1>3. PmSpecInit => \A asset \in Assets : cachedPrice[asset].price = 0
    BY DEF PmSpecInit, OracleInit, NoPrice
<1>4. QED BY <1>1, <1>2, <1>3 DEF LedgerInv, ConfiguredValues

LEMMA LedgerInvPreserved ==
    ASSUME LedgerInv, [PmNext]_allVars
    PROVE  LedgerInv'
<1>1. SUFFICES ConfiguredValues' BY PmNextPreserves DEF LedgerInv
<1>2. \A id, fee : EndPosition(id, fee) => UNCHANGED pmConfig /\ UNCHANGED oracleVars
    BY DEF EndPosition
<1>3. UNCHANGED pmConfig /\ UNCHANGED oracleVars => ConfiguredValues'
    BY DEF LedgerInv, ConfiguredValues, PmInitialized, oracleVars
<1>4. CASE PmAdminStep
    <2>1. pmConfig \in [admin : Admins \cup {NoAddress}, openFeeBps : Nat,
                        closeFeeBps : Nat, maxLeverage : Nat, minCollateral : Int,
                        liquidationEngine : LiquidationEngines \cup {NoAddress},
                        funding : FundingContracts \cup {NoAddress}]
        BY DEF LedgerInv, PmInv, PmTypeOK
    <2>2. ASSUME NEW admin \in Admins, NEW openBps \in FeeRates, NEW closeBps \in FeeRates,
                 NEW leverage \in MaxLeverages, NEW collateral \in MinCollaterals,
                 PmInitialize(admin, openBps, closeBps, leverage, collateral)
          PROVE  ConfiguredValues'
        <3>1. /\ pmConfig'.openFeeBps = openBps /\ pmConfig'.closeFeeBps = closeBps
              /\ UNCHANGED oracleVars
            BY <2>1, <2>2 DEF PmInitialize
        <3>2. QED BY <3>1 DEF LedgerInv, ConfiguredValues, oracleVars
    <2>3. ASSUME NEW admin \in Admins,
                 \/ \E leverage \in MaxLeverages : SetMaxLeverage(admin, leverage)
                 \/ \E engine \in LiquidationEngines : SetLiquidationEngine(admin, engine)
                 \/ \E funding \in FundingContracts : SetFundingAddress(admin, funding)
          PROVE  ConfiguredValues'
        <3>1. /\ PmInitialized
              /\ pmConfig'.openFeeBps = pmConfig.openFeeBps
              /\ pmConfig'.closeFeeBps = pmConfig.closeFeeBps
              /\ UNCHANGED oracleVars
            BY <2>1, <2>3 DEF SetMaxLeverage, SetLiquidationEngine, SetFundingAddress,
                              PmConfigOnly
        <3>2. QED BY <3>1 DEF LedgerInv, ConfiguredValues, oracleVars
    <2>4. ASSUME NEW admin \in Admins, NEW openBps \in FeeRates, NEW closeBps \in FeeRates,
                 SetFeeRates(admin, openBps, closeBps)
          PROVE  ConfiguredValues'
        <3>1. /\ pmConfig'.openFeeBps = openBps /\ pmConfig'.closeFeeBps = closeBps
              /\ UNCHANGED oracleVars
            BY <2>1, <2>4 DEF SetFeeRates, PmConfigOnly
        <3>2. QED BY <3>1 DEF LedgerInv, ConfiguredValues, oracleVars
    <2>5. QED BY <1>4, <2>2, <2>3, <2>4 DEF PmAdminStep
<1>5. CASE PmTradeStep
    <2>1. \A trader, asset, direction, collateral, leverage :
              OpenPosition(trader, asset, direction, collateral, leverage)
                  => UNCHANGED pmConfig /\ UNCHANGED oracleVars
        BY DEF OpenPosition
    <2>2. \A trader, id, asset : ClosePosition(trader, id, asset)
                  => UNCHANGED pmConfig /\ UNCHANGED oracleVars
        BY <1>2 DEF ClosePosition
    <2>3. UNCHANGED pmConfig /\ UNCHANGED oracleVars
        BY <1>5, <2>1, <2>2 DEF PmTradeStep
    <2>4. QED BY <1>3, <2>3
<1>6. CASE PmLiquidateStep
    <2>1. UNCHANGED pmConfig /\ UNCHANGED oracleVars
        BY <1>2, <1>6 DEF PmLiquidateStep, LiquidatePosition
    <2>2. QED BY <1>3, <2>1
<1>7. CASE CalleeStep
    <2>1. UNCHANGED pmConfig BY <1>7 DEF CalleeStep, pmVars
    <2>2. \A asset \in Assets : cachedPrice'[asset].price \in Prices \cup {0}
        <3>1. CASE UNCHANGED oracleVars
            BY <3>1 DEF LedgerInv, ConfiguredValues, oracleVars
        <3>2. CASE UNCHANGED cachedPrice
            BY <3>2 DEF LedgerInv, ConfiguredValues
        <3>3. ASSUME NEW admin \in Admins, NEW asset \in Assets, NEW price \in Prices,
                     SetPrice(admin, asset, price)
              PROVE  \A a \in Assets : cachedPrice'[a].price \in Prices \cup {0}
            <4>1. cachedPrice' = [cachedPrice EXCEPT
                                      ![asset] = [price |-> price, timestamp |-> now]]
                BY <3>3 DEF SetPrice
            <4>2. cachedPrice \in [Assets -> [price : Nat, timestamp : Nat]]
                BY DEF LedgerInv, PmInv, OracleInv, OracleTypeOK
            <4>3. QED BY <4>1, <4>2 DEF LedgerInv, ConfiguredValues
        <3>4. OracleStep => \/ UNCHANGED cachedPrice
                            \/ \E admin \in Admins, asset \in Assets, price \in Prices :
                                  SetPrice(admin, asset, price)
            BY DEF OracleStep, OracleInitialize, SetStalenessThreshold, Tick
        <3>5. QED BY <1>7, <3>1, <3>2, <3>3, <3>4 DEF CalleeStep
    <2>3. QED BY <2>1, <2>2 DEF LedgerInv, ConfiguredValues, PmInitialized
<1>8. CASE UNCHANGED allVars BY <1>3, <1>8 DEF allVars, pmVars
<1>9. QED BY <1>4, <1>5, <1>6, <1>7, <1>8 DEF PmNext

LEMMA StepKeepsPromises ==
    ASSUME LedgerInv, [PmNext]_allVars
    PROVE  [Ledger!LedgerNext]_Ledger!ledgerVars
<1>1. UNCHANGED <<usdc, totalDeposits, positions, vaultConfig>>
          => UNCHANGED Ledger!ledgerVars
    BY DEF Ledger!ledgerVars
<1>2. CASE PmAdminStep
    <2>1. PmConfigOnly => UNCHANGED <<usdc, totalDeposits, positions, vaultConfig>>
        BY DEF PmConfigOnly, vaultVars
    <2>2. \A admin, openBps, closeBps, leverage, collateral :
              PmInitialize(admin, openBps, closeBps, leverage, collateral)
                  => UNCHANGED <<usdc, totalDeposits, positions, vaultConfig>>
        BY DEF PmInitialize, vaultVars
    <2>3. UNCHANGED <<usdc, totalDeposits, positions, vaultConfig>>
        BY <1>2, <2>1, <2>2 DEF PmAdminStep, SetFeeRates, SetMaxLeverage,
                                SetLiquidationEngine, SetFundingAddress
    <2>4. QED BY <1>1, <2>3
<1>3. CASE PmTradeStep
    <2>1. PICK trader \in Accounts, asset \in Assets :
              \/ \E direction \in Directions, collateral \in Collaterals,
                    leverage \in Leverages :
                     OpenPosition(trader, asset, direction, collateral, leverage)
              \/ \E id \in DOMAIN positions : ClosePosition(trader, id, asset)
        BY <1>3 DEF PmTradeStep
    <2>2. ASSUME NEW direction \in Directions, NEW collateral \in Collaterals,
                 NEW leverage \in Leverages,
                 OpenPosition(trader, asset, direction, collateral, leverage)
          PROVE  Ledger!LedgerNext
        BY <2>2, OpenOpens
    <2>3. ASSUME NEW id \in DOMAIN positions, ClosePosition(trader, id, asset)
          PROVE  Ledger!LedgerNext
        <3>. DEFINE fee == CalculateFee(positions[id].size, pmConfig.closeFeeBps)
        <3>1. EndPosition(id, fee) BY <2>3 DEF ClosePosition
        <3>2. positions[id].size \in Nat /\ pmConfig.closeFeeBps \in Nat
            BY DEF LedgerInv, PmInv, PmTypeOK, Position
        <3>3. fee \in Nat BY <3>2, FeeNat
        <3>4. PmInitialized BY DEF LedgerInv, PmInv, NoneUntilInitialized
        <3>5. pmConfig.closeFeeBps \in FeeRates \cup {0}
            BY <3>4 DEF LedgerInv, ConfiguredValues
        <3>. HIDE DEF fee
        <3>6. fee = CalculateFee(positions[id].size, pmConfig.closeFeeBps) BY DEF fee
        <3>7. QED BY <3>1, <3>3, <3>5, <3>6, EndEnds
    <2>4. QED BY <2>1, <2>2, <2>3
<1>4. CASE PmLiquidateStep
    <2>1. PICK id \in DOMAIN positions : EndPosition(id, 0)
        BY <1>4 DEF PmLiquidateStep, LiquidatePosition
    <2>2. 0 = CalculateFee(positions[id].size, 0)
        <3>1. positions[id].size \in Nat BY DEF LedgerInv, PmInv, PmTypeOK, Position
        <3>2. positions[id].size * 0 = 0 BY <3>1
        <3>3. 0 \div 10000 = 0 BY SMT
        <3>4. QED BY <3>2, <3>3 DEF CalculateFee, Trunc, BPS
    <2>3. QED BY <2>1, <2>2, EndEnds
<1>5. CASE CalleeStep
    <2>1. UNCHANGED positions BY <1>5 DEF CalleeStep, pmVars
    <2>2. CASE VaultAdminStep
        <3>1. UNCHANGED <<totalDeposits, usdc>>
            BY <2>2, VaultAdminPreserves DEF LedgerInv, PmInv
        <3>2. Ledger!Rewire BY <2>1, <3>1 DEF Ledger!Rewire
        <3>3. QED BY <3>2 DEF Ledger!LedgerNext
    <2>3. ASSUME NEW lp \in Accounts, NEW amount \in LpAmounts,
                 Deposit(lp, amount) \/ Withdraw(lp, amount)
          PROVE  Ledger!LedgerNext
        <3>1. Ledger!Contribute(lp) \/ Ledger!Redeem(lp)
            BY <2>1, <2>3, DepositContributes, WithdrawRedeems DEF LedgerInv
        <3>2. QED BY <3>1 DEF Ledger!LedgerNext
    <2>4. CASE UNCHANGED vaultVars
        <3>1. UNCHANGED <<usdc, totalDeposits, positions, vaultConfig>> BY <2>1, <2>4 DEF vaultVars
        <3>2. QED BY <1>1, <3>1
    <2>5. CASE OtherManagerStep
        <3>1. VaultInv'
            BY <2>5, ManagerPreserves, TraderPreserves DEF OtherManagerStep, LedgerInv, PmInv
        <3>2. ~Managed BY <2>5 DEF OtherManagerStep, Managed
        <3>3. UNCHANGED vaultConfig
            BY <2>5 DEF OtherManagerStep, ManagerStep, TraderStep, LockStep, UnlockStep,
                        CollectFeeStep, SettlePnlStep, SettlementStep, PostStep
        <3>4. Wallet' \in [Accounts -> Nat] /\ totalDeposits' \in Nat
            BY <3>1, VaultAssumption DEF VaultInv, VaultTypeOK, Holders, Wallet
        <3>5. Ledger!Interfere
            BY <2>1, <3>2, <3>3, <3>4 DEF Ledger!Interfere, Wallet, Managed
        <3>6. QED BY <3>5 DEF Ledger!LedgerNext
    <2>6. QED BY <1>5, <2>2, <2>3, <2>4, <2>5 DEF CalleeStep, VaultLpStep
<1>6. CASE UNCHANGED allVars
    <2>1. UNCHANGED <<usdc, totalDeposits, positions, vaultConfig>>
        BY <1>6 DEF allVars, vaultVars, pmVars
    <2>2. QED BY <1>1, <2>1
<1>7. QED BY <1>2, <1>3, <1>4, <1>5, <1>6 DEF PmNext

\* Whatever users, administrators, the liquidation engine and the market do in
\* whatever order, for every price, fee and amount: the position manager and the
\* vault keep the promises of PoolLedger.
THEOREM LedgerImplemented == PmSpec => ImplementsLedger
<1>1. PmSpecInit => Ledger!LedgerInit
    <2>1. SUFFICES ASSUME PmSpecInit PROVE Ledger!LedgerInit OBVIOUS
    <2>2. VaultInit /\ PmInit BY <2>1 DEF PmSpecInit
    <2>3. \A a \in Accounts : usdc[a] = InitialUsdc[a]
        BY <2>2, VaultAssumption DEF VaultInit, Holders
    <2>4. Wallet = InitialUsdc BY <2>3, VaultAssumption DEF Wallet
    <2>5. totalDeposits = 0 /\ positions = << >> BY <2>2 DEF VaultInit, PmInit
    <2>6. QED BY <2>4, <2>5 DEF Ledger!LedgerInit, Wallet
<1>2. LedgerInv /\ [PmNext]_allVars => LedgerInv' BY LedgerInvPreserved
<1>3. LedgerInv /\ [PmNext]_allVars => [Ledger!LedgerNext]_Ledger!ledgerVars
    BY StepKeepsPromises
<1>4. QED BY <1>1, <1>2, <1>3, LedgerInvInit, PTL
    DEF PmSpec, ImplementsLedger, Ledger!LedgerSpec
-------------------------------------------------------------------------------
\* The pool keeps covering what is locked.

CoverageInv ==
    /\ LedgerInv
    /\ \A id \in DOMAIN positions : positions[id].entryPrice \in Prices

LEMMA CoverageInvInit == PmSpecInit => CoverageInv
<1>1. PmSpecInit => DOMAIN positions = {} BY DEF PmSpecInit, PmInit
<1>2. QED BY <1>1, LedgerInvInit DEF CoverageInv

LEMMA CoverageInvPreserved ==
    ASSUME CoverageInv, [PmNext]_allVars
    PROVE  CoverageInv'
<1>1. SUFFICES \A id \in DOMAIN positions' : positions'[id].entryPrice \in Prices
    BY LedgerInvPreserved DEF CoverageInv
<1>2. UNCHANGED positions => \A id \in DOMAIN positions' : positions'[id].entryPrice \in Prices
    BY DEF CoverageInv
<1>3. \A i, fee : EndPosition(i, fee) =>
          \A id \in DOMAIN positions' : positions'[id].entryPrice \in Prices
    BY DEF EndPosition, WithoutPosition, CoverageInv
<1>4. CASE PmAdminStep
    <2>1. PmConfigOnly => UNCHANGED positions BY DEF PmConfigOnly
    <2>2. \A admin, openBps, closeBps, leverage, collateral :
              PmInitialize(admin, openBps, closeBps, leverage, collateral)
                  => UNCHANGED positions
        BY DEF PmInitialize
    <2>3. UNCHANGED positions
        BY <1>4, <2>1, <2>2 DEF PmAdminStep, SetFeeRates, SetMaxLeverage,
                                SetLiquidationEngine, SetFundingAddress
    <2>4. QED BY <1>2, <2>3
<1>5. CASE PmTradeStep
    <2>1. ASSUME NEW trader \in Accounts, NEW asset \in Assets,
                 NEW direction \in Directions, NEW collateral \in Collaterals,
                 NEW leverage \in Leverages,
                 OpenPosition(trader, asset, direction, collateral, leverage)
          PROVE  \A id \in DOMAIN positions' : positions'[id].entryPrice \in Prices
        <3>1. Served(asset) BY <2>1 DEF OpenPosition
        <3>2. GetPriceValue(asset) \in Nat \ {0}
            BY <3>1, ServedPrice DEF CoverageInv, LedgerInv, PmInv
        <3>3. GetPriceValue(asset) \in Prices
            BY <3>2 DEF CoverageInv, LedgerInv, ConfiguredValues, GetPriceValue
        <3>4. positions' = WithPosition(nextPositionId,
                  [trader |-> trader, asset |-> asset, direction |-> direction,
                   size |-> collateral * leverage, collateral |-> collateral,
                   entryPrice |-> GetPriceValue(asset)])
            BY <2>1 DEF OpenPosition
        <3>5. QED BY <3>3, <3>4 DEF WithPosition, CoverageInv
    <2>2. \A trader, id, asset : ClosePosition(trader, id, asset) => \E fee : EndPosition(id, fee)
        BY DEF ClosePosition
    <2>3. QED BY <1>3, <1>5, <2>1, <2>2 DEF PmTradeStep
<1>6. CASE PmLiquidateStep BY <1>3, <1>6 DEF PmLiquidateStep, LiquidatePosition
<1>7. CASE CalleeStep BY <1>2, <1>7 DEF CalleeStep, pmVars
<1>8. CASE UNCHANGED allVars BY <1>2, <1>8 DEF allVars, pmVars
<1>9. QED BY <1>4, <1>5, <1>6, <1>7, <1>8 DEF PmNext

\* A price that at most doubles earns a position no more than its notional.
LEMMA ProfitWithinNotional ==
    ASSUME NEW direction \in Directions, NEW size \in Nat, NEW entryPrice \in Nat \ {0},
           NEW price \in Nat, price <= 2 * entryPrice
    PROVE  CalculatePnl(direction, size, entryPrice, price) <= size
<1>1. ASSUME NEW move \in Int, move <= entryPrice
      PROVE  Trunc(size * move, entryPrice) <= size
    <2>. DEFINE n == size * move
                t == Trunc(n, entryPrice)
    <2>1. n \in Int OBVIOUS
    <2>2. CASE n >= 0
        <3>1. n <= size * entryPrice
            <4>1. CASE move >= 0 BY <1>1, <4>1, ProductMonotone
            <4>2. CASE move < 0
                <5>1. size = 0 \/ n < 0 BY <4>2, SMT
                <5>2. QED BY <2>2, <5>1, SMT
            <4>3. QED BY <4>1, <4>2
        <3>. HIDE DEF n
        <3>2. t \in Nat /\ entryPrice * t <= n BY <2>1, <2>2, TruncBounds
        <3>. HIDE DEF t
        <3>3. entryPrice * t <= size * entryPrice
            BY <2>1, <3>1, <3>2, SMT
        <3>4. QED
            <4>1. t <= size BY <3>2, <3>3, SMT
            <4>2. QED BY <4>1 DEF t, n
    <2>3. CASE n <= 0
        <3>1. t <= 0 /\ t \in Int
            <4>. HIDE DEF n
            <4>1. QED BY <2>1, <2>3, TruncBounds
        <3>2. QED BY <3>1
    <2>4. QED BY <2>1, <2>2, <2>3
<1>2. price - entryPrice \in Int /\ price - entryPrice <= entryPrice OBVIOUS
<1>3. entryPrice - price \in Int /\ entryPrice - price <= entryPrice OBVIOUS
<1>4. QED BY <1>1, <1>2, <1>3 DEF CalculatePnl

LEMMA EndKeepsCover ==
    ASSUME CoverageInv, Covered, NEW id \in DOMAIN positions, NEW fee \in Nat,
           EndPosition(id, fee), \A p, q \in Prices : p > 0 => q <= 2 * p
    PROVE  Covered'
<1>. DEFINE p   == positions[id]
            raw == CalculatePnl(p.direction, p.size, p.entryPrice, GetPriceValue(p.asset))
            pnl == CapLoss(raw, p.collateral)
<1>1. /\ Served(p.asset)
      /\ lockedLiquidity' = lockedLiquidity - p.size
      /\ totalDeposits' = totalDeposits - pnl + fee
    BY DEF EndPosition, ClosePositionSettlement, SettledPnl, RawPnl
<1>2. /\ p.size \in Nat /\ p.collateral \in Nat /\ p.entryPrice \in Nat \ {0}
      /\ p.asset \in Assets /\ p.direction \in Directions /\ p.entryPrice \in Prices
    BY DEF CoverageInv, LedgerInv, PmInv, PmTypeOK, Position
<1>. HIDE DEF p
<1>3. GetPriceValue(p.asset) \in Nat \ {0}
    BY <1>1, <1>2, ServedPrice DEF CoverageInv, LedgerInv, PmInv
<1>4. GetPriceValue(p.asset) \in Prices
    BY <1>2, <1>3 DEF CoverageInv, LedgerInv, ConfiguredValues, GetPriceValue
<1>5. GetPriceValue(p.asset) <= 2 * p.entryPrice BY <1>2, <1>4
<1>6. raw \in Int /\ raw <= p.size
    <2>. DEFINE price == GetPriceValue(p.asset)
    <2>1. price \in Nat /\ price \in Int /\ price <= 2 * p.entryPrice BY <1>3, <1>5
    <2>. HIDE DEF price
    <2>2. CalculatePnl(p.direction, p.size, p.entryPrice, price) \in Int
        BY <1>2, <2>1, PnlInt
    <2>3. CalculatePnl(p.direction, p.size, p.entryPrice, price) <= p.size
        BY <1>2, <2>1, ProfitWithinNotional
    <2>4. QED BY <2>2, <2>3 DEF price, raw
<1>. HIDE DEF raw
<1>7. pnl \in Int /\ pnl <= p.size BY <1>2, <1>6 DEF CapLoss
<1>. HIDE DEF pnl
<1>8. totalDeposits \in Nat /\ lockedLiquidity \in Nat
    BY AmountsTyped DEF CoverageInv, LedgerInv, PmInv
<1>9. QED BY <1>1, <1>2, <1>7, <1>8 DEF Covered

\* Withdrawals, profits and openings, in any order, leave the pool no poorer than
\* the notional locked, on the conditions CoverageKept names (withdraw,
\* lock_liquidity, close_position_settlement).
THEOREM CoverageIsKept == PmSpec => CoverageKept
<1>. DEFINE Step == (/\ Covered
                     /\ vaultConfig.positionManager = PmAddr
                     /\ ~(totalDeposits = 0 /\ lockedLiquidity' > lockedLiquidity)
                     /\ vaultConfig.maxUtilization < BPS
                     /\ CastsAreExact
                     /\ \A p, q \in Prices : p > 0 => q <= 2 * p
                     => Covered')
<1>1. CoverageInv /\ [PmNext]_allVars => [Step]_allVars
    <2>1. SUFFICES ASSUME CoverageInv, PmNext, Covered,
                          vaultConfig.positionManager = PmAddr,
                          ~(totalDeposits = 0 /\ lockedLiquidity' > lockedLiquidity),
                          vaultConfig.maxUtilization < BPS,
                          CastsAreExact,
                          \A p, q \in Prices : p > 0 => q <= 2 * p
                   PROVE  Covered'
        OBVIOUS
    <2>2. /\ totalDeposits \in Nat /\ lockedLiquidity \in Nat
          /\ vaultConfig.maxUtilization \in Nat
        BY <2>1 DEF CoverageInv, LedgerInv, PmInv, VaultInv, VaultTypeOK
    <2>3. UNCHANGED <<totalDeposits, lockedLiquidity>> => Covered' BY <2>1 DEF Covered
    <2>4. CASE PmAdminStep
        <3>1. PmConfigOnly => UNCHANGED vaultVars BY DEF PmConfigOnly
        <3>2. \A admin, openBps, closeBps, leverage, collateral :
                  PmInitialize(admin, openBps, closeBps, leverage, collateral)
                      => UNCHANGED vaultVars
            BY DEF PmInitialize
        <3>3. UNCHANGED vaultVars
            BY <2>4, <3>1, <3>2 DEF PmAdminStep, SetFeeRates, SetMaxLeverage,
                                    SetLiquidationEngine, SetFundingAddress
        <3>4. QED BY <2>3, <3>3 DEF vaultVars
    <2>5. CASE PmTradeStep
        <3>1. ASSUME NEW trader \in Accounts, NEW asset \in Assets,
                     NEW direction \in Directions, NEW collateral \in Collaterals,
                     NEW leverage \in Leverages,
                     OpenPosition(trader, asset, direction, collateral, leverage)
              PROVE  Covered'
            <4>. DEFINE size == collateral * leverage
                        fee  == CalculateFee(size, pmConfig.openFeeBps)
            <4>1. /\ size > 0 /\ fee > 0
                  /\ CalcUtilizationBps(lockedLiquidity + size, totalDeposits)
                        <= vaultConfig.maxUtilization
                  /\ lockedLiquidity' = lockedLiquidity + size
                  /\ totalDeposits' = totalDeposits + fee
                BY <3>1 DEF OpenPosition, LockLiquidity, CollectFee
            <4>2. size \in Nat
                <5>1. size \in Int BY PositionManagerAssumption
                <5>. HIDE DEF size
                <5>2. QED BY <4>1, <5>1
            <4>3. fee \in Nat
                <5>. HIDE DEF size
                <5>1. pmConfig.openFeeBps \in Nat
                    BY <2>1 DEF CoverageInv, LedgerInv, PmInv, PmTypeOK
                <5>2. QED BY <4>2, <5>1, FeeNat
            <4>. HIDE DEF size, fee
            <4>4. totalDeposits \in Nat \ {0} BY <2>1, <2>2, <4>1, <4>2
            <4>5. lockedLiquidity + size <= totalDeposits
                <5>1. lockedLiquidity + size \in Nat BY <2>2, <4>2
                <5>2. UtilizationFits(lockedLiquidity + size, totalDeposits)
                    <6>1. lockedLiquidity' > lockedLiquidity BY <2>2, <4>1, <4>2
                    <6>2. QED BY <2>1, <4>1, <6>1 DEF CastsAreExact
                <5>3. QED BY <2>1, <2>2, <4>1, <4>4, <5>1, <5>2, UtilizationCovers
            <4>6. QED BY <2>2, <4>1, <4>2, <4>3, <4>5 DEF Covered
        <3>2. ASSUME NEW trader \in Accounts, NEW asset \in Assets,
                     NEW id \in DOMAIN positions, ClosePosition(trader, id, asset)
              PROVE  Covered'
            <4>. DEFINE fee == CalculateFee(positions[id].size, pmConfig.closeFeeBps)
            <4>1. EndPosition(id, fee) BY <3>2 DEF ClosePosition
            <4>2. positions[id].size \in Nat /\ pmConfig.closeFeeBps \in Nat
                BY <2>1 DEF CoverageInv, LedgerInv, PmInv, PmTypeOK, Position
            <4>3. fee \in Nat BY <4>2, FeeNat
            <4>. HIDE DEF fee
            <4>4. QED BY <2>1, <4>1, <4>3, EndKeepsCover
        <3>3. QED BY <2>5, <3>1, <3>2 DEF PmTradeStep
    <2>6. CASE PmLiquidateStep
        <3>1. PICK id \in DOMAIN positions : EndPosition(id, 0)
            BY <2>6 DEF PmLiquidateStep, LiquidatePosition
        <3>2. QED BY <2>1, <3>1, EndKeepsCover
    <2>7. CASE CalleeStep
        <3>1. CASE VaultAdminStep
            <4>1. UNCHANGED <<totalDeposits, lockedLiquidity>>
                BY <2>1, <3>1, VaultAdminPreserves DEF CoverageInv, LedgerInv, PmInv
            <4>2. QED BY <2>3, <4>1
        <3>2. ASSUME NEW lp \in Accounts, NEW amount \in LpAmounts, Deposit(lp, amount)
              PROVE  Covered'
            <4>1. amount \in Nat /\ totalDeposits' = totalDeposits + amount
                  /\ lockedLiquidity' = lockedLiquidity
                BY <3>2, VaultAssumption DEF Deposit
            <4>2. QED BY <2>1, <2>2, <4>1 DEF Covered
        <3>3. ASSUME NEW lp \in Accounts, NEW shares \in LpAmounts, Withdraw(lp, shares)
              PROVE  Covered'
            <4>1. VaultInv /\ VaultInv'
                BY <2>1, <3>3, WithdrawPreserves DEF CoverageInv, LedgerInv, PmInv
            <4>2. totalShares' < totalShares
                <5>1. shares \in Nat \ {0} /\ totalShares' = totalShares - shares
                    BY <3>3, VaultAssumption DEF Withdraw
                <5>2. totalShares \in Nat BY <4>1 DEF VaultInv, VaultTypeOK
                <5>3. QED BY <5>1, <5>2
            <4>3. UtilizationFits(lockedLiquidity', totalDeposits')
                BY <2>1, <4>2 DEF CastsAreExact
            <4>4. QED BY <2>1, <3>3, <4>1, <4>3, WithdrawKeepsCover DEF Covered
        <3>4. CASE UNCHANGED vaultVars BY <2>3, <3>4 DEF vaultVars
        <3>5. ~OtherManagerStep BY <2>1 DEF OtherManagerStep
        <3>6. QED BY <2>7, <3>1, <3>2, <3>3, <3>4, <3>5 DEF CalleeStep, VaultLpStep
    <2>8. QED BY <2>1, <2>4, <2>5, <2>6, <2>7 DEF PmNext
<1>2. CoverageInv /\ [PmNext]_allVars => CoverageInv' BY CoverageInvPreserved
<1>3. QED BY <1>1, <1>2, CoverageInvInit, PTL DEF PmSpec, CoverageKept

-------------------------------------------------------------------------------
\* What the vault and the oracle promise on their own, they keep under the position
\* manager: their promises are about callers of any kind, and these are the real
\* ones, whose steps reach into several contracts at once.

\* Only a provider's own call mints or burns shares.
LEMMA SharesMoveByLpsOnly ==
    ASSUME PmInv, [PmNext]_allVars
    PROVE  VaultLpStep \/ totalShares' = totalShares
<1>1. CASE PmAdminStep
    BY <1>1 DEF PmAdminStep, PmInitialize, SetFeeRates, SetMaxLeverage,
                SetLiquidationEngine, SetFundingAddress, PmConfigOnly, vaultVars
<1>2. \A id, fee : EndPosition(id, fee) => totalShares' = totalShares
    BY DEF EndPosition
<1>3. CASE PmTradeStep
    <2>1. \A trader, asset, direction, collateral, leverage :
              OpenPosition(trader, asset, direction, collateral, leverage)
                  => totalShares' = totalShares
        BY DEF OpenPosition
    <2>2. QED BY <1>2, <1>3, <2>1 DEF PmTradeStep, ClosePosition
<1>4. CASE PmLiquidateStep
    BY <1>2, <1>4 DEF PmLiquidateStep, LiquidatePosition
<1>5. CASE CalleeStep
    BY <1>5, VaultAdminPreserves, ManagerPreserves, TraderPreserves
       DEF PmInv, CalleeStep, OtherManagerStep, vaultVars
<1>6. CASE UNCHANGED allVars BY <1>6 DEF allVars, vaultVars
<1>7. QED BY <1>1, <1>3, <1>4, <1>5, <1>6 DEF PmNext

\* The shares add up, whatever trading does to the equity they stand for.
THEOREM SharesBackedUnderTrading == PmSpec => []SharesBacked
<1>1. PmInv => SharesBacked BY DEF PmInv, VaultInv
<1>2. QED BY <1>1, PmInvariant, PTL

\* No provider's entry or exit lowers the value of the others' shares, with trades,
\* fees and settlements between them.
THEOREM NoDilutionUnderTrading == PmSpec => NoDilution
<1>1. PmInv /\ [PmNext]_allVars =>
        [VaultLpStep /\ totalShares > 0
            => totalDeposits' * totalShares >= totalDeposits * totalShares']_vaultVars
    BY LpPreserves DEF PmInv
<1>2. QED BY <1>1, PmInvariant, PTL DEF PmSpec, NoDilution

\* A withdrawal leaves the open positions covered, the locked liquidity being what
\* the position manager locked and settled.
THEOREM CoverUnderTrading == PmSpec => WithdrawalKeepsCover
<1>1. PmInv => VaultInv /\ totalShares \in Nat BY DEF PmInv, VaultInv, VaultTypeOK
<1>2. PmInv /\ [PmNext]_allVars =>
        [totalShares' < totalShares
           /\ vaultConfig.maxUtilization < BPS
           /\ UtilizationFits(lockedLiquidity', totalDeposits')
           => lockedLiquidity' <= totalDeposits']_vaultVars
    BY <1>1, SharesMoveByLpsOnly, BurnKeepsCover
<1>3. QED BY <1>2, PmInvariant, PTL DEF PmSpec, WithdrawalKeepsCover

\* The prices that openings and closes ask for are still there when they are recent
\* (get_price_value).
THEOREM PricesServedUnderTrading == PmSpec => []RecentPriceIsServed
<1>1. PmInv => RecentPriceIsServed BY InvServes DEF PmInv
<1>2. QED BY <1>1, PmInvariant, PTL
===============================================================================
