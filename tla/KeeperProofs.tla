------------------------------ MODULE KeeperProofs ------------------------------
(***************************************************************************)
(* The keeper's list of positions and the liquidator's pass over a copy of *)
(* it, for any set of positions and traders and lists of any length.       *)
(***************************************************************************)
EXTENDS Keeper, SequenceTheorems, WellFoundedInduction, TLAPS

-------------------------------------------------------------------------------
\* RemovePosition: what it leaves of a list.

\* A set of naturals that is not empty has a least element, and Min is it.
LEMMA MinOfNaturals ==
    ASSUME NEW S, S \subseteq Nat, S # {}
    PROVE  Min(S) \in S /\ \A y \in S : Min(S) <= y
<1>1. \E x \in S : \A y \in S : <<y, x>> \notin OpToRel(<, Nat)
    BY WFMin, NatLessThanWellFounded, Zenon
<1>2. \E x \in S : \A y \in S : x <= y
    <2>1. PICK x \in S : \A y \in S : <<y, x>> \notin OpToRel(<, Nat) BY <1>1
    <2>2. \A y \in S : ~(y < x) BY <2>1, Zenon DEF OpToRel
    <2>3. QED BY <2>2
<1>3. QED BY <1>2, Zenon DEF Min

\* The entry RemovePosition takes out is one with the id it was called for.
LEMMA FirstEntry ==
    ASSUME NEW S, NEW list \in Seq(S), NEW id, Contains(list, id)
    PROVE  \E i \in 1 .. Len(list) :
              list[i] = id /\ Removed(list, id) = RemoveAt(list, i)
<1> DEFINE I == {i \in 1 .. Len(list) : list[i] = id}
<1>1. I \subseteq Nat /\ I # {} BY DEF Contains
<1>2. Min(I) \in I BY <1>1, MinOfNaturals
<1>3. SelectInSeq(list, LAMBDA v : v = id) = Min(I) BY <1>1 DEF SelectInSeq
<1>4. Removed(list, id) = RemoveAt(list, Min(I)) BY <1>1, <1>3 DEF Removed, RemoveFirst
<1>5. QED BY <1>2, <1>4

\* What is left of a list without its i-th entry.
LEMMA RemoveAtEntries ==
    ASSUME NEW S, NEW list \in Seq(S), NEW i \in 1 .. Len(list)
    PROVE  /\ RemoveAt(list, i) \in Seq(S)
           /\ Len(RemoveAt(list, i)) = Len(list) - 1
           /\ \A j \in 1 .. i - 1 : RemoveAt(list, i)[j] = list[j]
           /\ \A j \in i + 1 .. Len(list) : RemoveAt(list, i)[j - 1] = list[j]
<1> DEFINE front == SubSeq(list, 1, i - 1)
           back == SubSeq(list, i + 1, Len(list))
<1>1. /\ front \in Seq(S)
      /\ Len(front) = i - 1
      /\ \A j \in 1 .. i - 1 : front[j] = list[j]
    <2>1. 1 \in Int /\ i - 1 \in Int /\ \A j \in 1 .. i - 1 : list[j] \in S OBVIOUS
    <2>2. QED BY <2>1, SubSeqProperties
<1>2. /\ back \in Seq(S)
      /\ Len(back) = Len(list) - i
      /\ \A j \in 1 .. Len(list) - i : back[j] = list[i + j]
    <2>1. i + 1 \in Int /\ Len(list) \in Int /\ \A j \in i + 1 .. Len(list) : list[j] \in S
        OBVIOUS
    <2>2. /\ back \in Seq(S)
          /\ Len(back) = IF i + 1 <= Len(list) THEN Len(list) - (i + 1) + 1 ELSE 0
          /\ \A j \in 1 .. Len(list) - (i + 1) + 1 : back[j] = list[i + 1 + j - 1]
        BY <2>1, SubSeqProperties
    <2>3. QED BY <2>2
<1> HIDE DEF front, back
<1>3. /\ front \o back \in Seq(S)
      /\ Len(front \o back) = Len(front) + Len(back)
      /\ \A j \in 1 .. Len(front) + Len(back) :
            (front \o back)[j] = IF j <= Len(front) THEN front[j] ELSE back[j - Len(front)]
    BY <1>1, <1>2, ConcatProperties
<1>4. RemoveAt(list, i) = front \o back BY DEF RemoveAt, front, back
<1>5. \A j \in 1 .. i - 1 : (front \o back)[j] = list[j] BY <1>1, <1>2, <1>3
<1>6. \A j \in i + 1 .. Len(list) : (front \o back)[j - 1] = list[j]
    <2>1. SUFFICES ASSUME NEW j \in i + 1 .. Len(list)
                   PROVE  (front \o back)[j - 1] = list[j]
        OBVIOUS
    <2>2. (front \o back)[j - 1] = back[j - i] BY <1>1, <1>2, <1>3
    <2>3. j - i \in 1 .. Len(list) - i /\ i + (j - i) = j OBVIOUS
    <2>4. QED BY <1>2, <2>2, <2>3
<1>7. Len(front \o back) = Len(list) - 1 BY <1>1, <1>2, <1>3
<1>8. QED BY <1>3, <1>4, <1>5, <1>6, <1>7, Zenon

\* The append of positions[:i] and positions[i+1:] gives a list of positions again,
\* one entry shorter at most, that still has every other position of the list.
THEOREM RemovalIsExact ==
    ASSUME NEW S, NEW list \in Seq(S), NEW id
    PROVE  /\ Removed(list, id) \in Seq(S)
           /\ Len(Removed(list, id)) = IF Contains(list, id) THEN Len(list) - 1 ELSE Len(list)
           /\ \A other : other # id /\ Contains(list, other)
                             => Contains(Removed(list, id), other)
<1>1. CASE ~Contains(list, id)
    <2>1. Removed(list, id) = list BY <1>1 DEF Removed, RemoveFirst, Contains
    <2>2. QED BY <1>1, <2>1
<1>2. CASE Contains(list, id)
    <2>1. PICK i \in 1 .. Len(list) : list[i] = id /\ Removed(list, id) = RemoveAt(list, i)
        BY <1>2, FirstEntry
    <2>2. ASSUME NEW other, other # id, Contains(list, other)
          PROVE  Contains(Removed(list, id), other)
        <3>1. PICK j \in 1 .. Len(list) : list[j] = other BY <2>2 DEF Contains
        <3>2. CASE j < i
            <4>1. j \in 1 .. i - 1 /\ j \in 1 .. Len(list) - 1 BY <3>2
            <4>2. Removed(list, id)[j] = other BY <2>1, <3>1, <4>1, RemoveAtEntries
            <4>3. Len(Removed(list, id)) = Len(list) - 1 BY <2>1, RemoveAtEntries
            <4>4. QED BY <4>1, <4>2, <4>3 DEF Contains
        <3>3. CASE j > i
            <4>1. j \in i + 1 .. Len(list) /\ j - 1 \in 1 .. Len(list) - 1 BY <3>3
            <4>2. Removed(list, id)[j - 1] = other BY <2>1, <3>1, <4>1, RemoveAtEntries
            <4>3. Len(Removed(list, id)) = Len(list) - 1 BY <2>1, RemoveAtEntries
            <4>4. QED BY <4>1, <4>2, <4>3 DEF Contains
        <3>4. QED BY <2>1, <2>2, <3>1, <3>2, <3>3
    <2>3. QED BY <1>2, <2>1, <2>2, RemoveAtEntries
<1>3. QED BY <1>1, <1>2

-------------------------------------------------------------------------------
\* The inductive invariant.

\* The traders not begun are not the one at hand, and have entries in the copy.
PassShape == stage # "waiting" => trader \notin rest /\ \A t \in rest : snapshot[t] # << >>

\* An entry with this id lies before the liquidator, the one at hand included as
\* long as it has not been asked for.
Ahead(id) ==
    \/ TraderOf[id] \in rest /\ Contains(snapshot[TraderOf[id]], id)
    \/ /\ TraderOf[id] = trader
       /\ \E i \in index .. Len(snapshot[trader]) :
              snapshot[trader][i] = id /\ (i = index => stage = "checking")

\* What the pass owes is ahead of it, wherever it stands.
OwedIsAhead == \A id \in owed : id \in Positions /\ stage # "waiting" /\ Ahead(id)

KeeperInv ==
    /\ KeeperTypeOK
    /\ PassShape
    /\ OwedIsAhead

LEMMA KeeperInitInv == KeeperAssumption /\ KeeperInit => KeeperInv
BY DEF KeeperInit, KeeperInv, KeeperTypeOK, PassShape, OwedIsAhead, NoPositions, Traders

\* The copy under way, which is all that the invariant says of a pass.
LEMMA PassUntouched ==
    ASSUME KeeperInv, UNCHANGED passVars
    PROVE  PassShape' /\ OwedIsAhead'
BY DEF KeeperInv, passVars, PassShape, OwedIsAhead, Ahead

\* From one entry to the next, whatever was asked of the entry that is left.  The
\* hypothesis on owed is what the three steps that end in Return have in common.
LEMMA ReturnKeeps ==
    ASSUME KeeperInv, stage # "waiting", Return,
           owed' \subseteq owed,
           stage = "checking" => Current \notin owed'
    PROVE  /\ snapshot' \in [Traders -> Seq(Positions)]
           /\ rest' \subseteq Traders
           /\ trader' \in Traders
           /\ stage' \in {"waiting", "checking"}
           /\ stage' # "waiting" => index' \in 1 .. Len(snapshot'[trader'])
           /\ PassShape'
           /\ OwedIsAhead'
<1>1. /\ snapshot \in [Traders -> Seq(Positions)]
      /\ rest \subseteq Traders
      /\ trader \in Traders
      /\ index \in 1 .. Len(snapshot[trader])
      /\ trader \notin rest
      /\ \A t \in rest : snapshot[t] # << >>
    BY DEF KeeperInv, KeeperTypeOK, PassShape
\* What is owed lies beyond the entry that is left.
<1>2. ASSUME NEW id \in owed'
      PROVE  /\ id \in Positions
             /\ \/ TraderOf[id] \in rest /\ Contains(snapshot[TraderOf[id]], id)
                \/ /\ TraderOf[id] = trader
                   /\ \E i \in index + 1 .. Len(snapshot[trader]) : snapshot[trader][i] = id
    <2>1. id \in Positions /\ Ahead(id) BY <1>2 DEF KeeperInv, OwedIsAhead
    <2>2. stage = "checking" => snapshot[trader][index] # id BY <1>2 DEF Current
    <2>3. QED BY <1>1, <2>1, <2>2 DEF Ahead
<1>3. CASE ~LastOfTrader
    <2>1. /\ index' = index + 1
          /\ stage' = "checking"
          /\ UNCHANGED <<snapshot, rest, trader>>
        BY <1>3 DEF Return
    <2>2. index' \in 1 .. Len(snapshot[trader]) BY <1>1, <1>3, <2>1 DEF LastOfTrader
    <2>3. PassShape' BY <1>1, <2>1 DEF PassShape
    <2>4. OwedIsAhead' BY <1>2, <2>1 DEF OwedIsAhead, Ahead
    <2>5. QED BY <1>1, <2>1, <2>2, <2>3, <2>4
<1>4. CASE LastOfTrader
    <2>1. \A id \in owed' : /\ id \in Positions
                            /\ TraderOf[id] \in rest
                            /\ Contains(snapshot[TraderOf[id]], id)
        BY <1>1, <1>2, <1>4 DEF LastOfTrader
    <2>2. ASSUME NEW t \in rest, trader' = t, rest' = rest \ {t}, index' = 1,
                 stage' = "checking", snapshot' = snapshot
          PROVE  /\ index' \in 1 .. Len(snapshot'[trader'])
                 /\ PassShape'
                 /\ OwedIsAhead'
        <3>1. t \in Traders /\ snapshot[t] \in Seq(Positions) /\ Len(snapshot[t]) >= 1
            BY <1>1, <2>2, EmptySeq
        <3>2. PassShape' BY <1>1, <2>2 DEF PassShape
        <3>3. ASSUME NEW id \in owed' PROVE Ahead(id)'
            <4>1. CASE TraderOf[id] = t
                <5>1. PICK i \in 1 .. Len(snapshot[t]) : snapshot[t][i] = id
                    BY <2>1, <3>3, <4>1 DEF Contains
                <5>2. QED BY <2>2, <4>1, <5>1 DEF Ahead
            <4>2. CASE TraderOf[id] # t
                BY <2>1, <2>2, <3>3, <4>2 DEF Ahead
            <4>3. QED BY <4>1, <4>2
        <3>4. OwedIsAhead' BY <2>1, <2>2, <3>3 DEF OwedIsAhead
        <3>5. QED BY <2>2, <3>1, <3>2, <3>4
    <2>3. CASE \E t \in rest : trader' = t /\ rest' = rest \ {t}
        \* The pass does not end while rest has a trader.
        <3>1. CASE stage' = "waiting"
            BY <1>4, <2>3, <3>1 DEF Return
        <3>2. CASE stage' # "waiting"
            <4>1. /\ \E t \in rest : trader' = t /\ rest' = rest \ {t}
                  /\ index' = 1 /\ stage' = "checking" /\ snapshot' = snapshot
                BY <1>4, <3>2 DEF Return
            <4>2. QED BY <1>1, <2>2, <4>1
        <3>3. QED BY <3>1, <3>2
    <2>4. CASE rest = {} /\ stage' = "waiting" /\ snapshot' = NoPositions
               /\ UNCHANGED <<rest, trader>>
        <3>1. snapshot' \in [Traders -> Seq(Positions)] BY <2>4 DEF NoPositions
        <3>2. QED BY <1>1, <2>1, <2>4, <3>1 DEF PassShape, OwedIsAhead
    <2>5. QED BY <1>4, <2>3, <2>4 DEF Return
<1>5. QED BY <1>3, <1>4

\* A pass begins at the first entry of a trader, with everything before it.
LEMMA StartKeeps ==
    ASSUME KeeperInv, StartPass
    PROVE  KeeperInv'
<1>1. /\ openPositions \in [Traders -> Seq(Positions)]
      /\ UNCHANGED <<openPositions, lastLedger, latestLedger, underwater, running>>
      /\ snapshot' = openPositions
      /\ index' = 1
      /\ stage' = "checking"
      /\ owed' = Tracked(openPositions)
    BY DEF StartPass, KeeperInv, KeeperTypeOK, scannerVars, chainVars, processVars
<1>2. PICK t \in Traders :
          /\ openPositions[t] # << >>
          /\ trader' = t
          /\ rest' = {u \in Traders \ {t} : openPositions[u] # << >>}
    BY DEF StartPass
<1>3. Len(openPositions[t]) >= 1 BY <1>1, <1>2, EmptySeq
<1>4. KeeperTypeOK' BY <1>1, <1>2, <1>3 DEF KeeperInv, KeeperTypeOK
<1>5. PassShape' BY <1>1, <1>2 DEF PassShape
<1>6. ASSUME NEW id \in owed' PROVE id \in Positions /\ Ahead(id)'
    <2>1. /\ id \in Positions
          /\ TraderOf[id] \in Traders
          /\ Contains(openPositions[TraderOf[id]], id)
        BY <1>1, <1>6 DEF Tracked, Traders
    <2>2. CASE TraderOf[id] = t
        <3>1. PICK i \in 1 .. Len(openPositions[t]) : openPositions[t][i] = id
            BY <2>1, <2>2 DEF Contains
        <3>2. QED BY <1>1, <1>2, <2>1, <2>2, <3>1 DEF Ahead
    <2>3. CASE TraderOf[id] # t
        <3>1. openPositions[TraderOf[id]] # << >>
            BY <1>1, <2>1 DEF Contains
        <3>2. QED BY <1>1, <1>2, <2>1, <2>3, <3>1 DEF Ahead
    <2>4. QED BY <2>1, <2>2, <2>3
<1>7. OwedIsAhead' BY <1>1, <1>6 DEF OwedIsAhead
<1>8. QED BY <1>4, <1>5, <1>7 DEF KeeperInv

\* Of the liquidator's steps, those that end in Return and the two that do not.
LEMMA LiquidatorKeeps ==
    ASSUME KeeperInv, LiquidatorStep
    PROVE  KeeperInv'
<1>1. CASE StartPass BY <1>1, StartKeeps
<1>2. ASSUME NEW id \in Positions, NotLiquidatable(id) PROVE KeeperInv'
    <2>1. /\ stage = "checking" /\ id = Current /\ owed' = owed \ {id}
          /\ Return
          /\ UNCHANGED <<openPositions, lastLedger, latestLedger, underwater, running>>
        BY <1>2 DEF NotLiquidatable, Asked, scannerVars, chainVars, processVars
    <2>2. QED BY <2>1, ReturnKeeps DEF KeeperInv, KeeperTypeOK
<1>3. ASSUME NEW id \in Positions, Liquidatable(id) PROVE KeeperInv'
    <2>1. /\ stage = "checking" /\ id = Current /\ owed' = owed \ {id}
          /\ stage' = "liquidating"
          /\ UNCHANGED <<snapshot, rest, trader, index>>
          /\ UNCHANGED <<openPositions, lastLedger, latestLedger, underwater, running>>
        BY <1>3 DEF Liquidatable, Asked, scannerVars, chainVars, processVars
    <2>2. KeeperTypeOK' BY <2>1 DEF KeeperInv, KeeperTypeOK
    <2>3. PassShape' BY <2>1 DEF KeeperInv, PassShape
    <2>4. OwedIsAhead' BY <2>1 DEF KeeperInv, KeeperTypeOK, OwedIsAhead, Ahead, Current
    <2>5. QED BY <2>2, <2>3, <2>4 DEF KeeperInv
<1>4. ASSUME NEW id \in Positions, Send(id) PROVE KeeperInv'
    <2>1. /\ stage = "liquidating" /\ stage' = "sent"
          /\ UNCHANGED <<snapshot, rest, trader, index, owed>>
          /\ UNCHANGED <<openPositions, lastLedger, latestLedger, underwater, running>>
        BY <1>4 DEF Send, scannerVars, chainVars, processVars
    <2>2. KeeperTypeOK' BY <2>1 DEF KeeperInv, KeeperTypeOK
    <2>3. PassShape' BY <2>1 DEF KeeperInv, PassShape
    <2>4. OwedIsAhead' BY <2>1 DEF KeeperInv, OwedIsAhead, Ahead
    <2>5. QED BY <2>2, <2>3, <2>4 DEF KeeperInv
<1>5. CASE SendFails
    <2>1. /\ stage = "liquidating" /\ owed' = owed /\ Return
          /\ UNCHANGED <<openPositions, lastLedger, latestLedger, underwater, running>>
        BY <1>5 DEF SendFails, scannerVars, chainVars, processVars
    <2>2. QED BY <2>1, ReturnKeeps DEF KeeperInv, KeeperTypeOK
<1>6. CASE Forget
    <2>1. /\ stage = "sent" /\ owed' = owed /\ Return
          /\ openPositions' = [openPositions EXCEPT ![trader] = Removed(@, Current)]
          /\ UNCHANGED <<lastLedger, latestLedger, underwater, running>>
        BY <1>6 DEF Forget, chainVars, processVars
    <2>2. openPositions' \in [Traders -> Seq(Positions)]
        <3>1. trader \in Traders /\ openPositions \in [Traders -> Seq(Positions)]
            BY DEF KeeperInv, KeeperTypeOK
        <3>2. Removed(openPositions[trader], Current) \in Seq(Positions)
            BY <3>1, RemovalIsExact
        <3>3. QED BY <2>1, <3>1, <3>2
    <2>3. QED BY <2>1, <2>2, ReturnKeeps DEF KeeperInv, KeeperTypeOK
<1>7. QED BY <1>1, <1>2, <1>3, <1>4, <1>5, <1>6 DEF LiquidatorStep

LEMMA KeeperNextKeeps ==
    KeeperAssumption /\ KeeperInv /\ [KeeperNext]_keeperVars => KeeperInv'
<1>1. SUFFICES ASSUME KeeperAssumption, KeeperInv, [KeeperNext]_keeperVars
               PROVE  KeeperInv'
    OBVIOUS
<1>2. ASSUME NEW id \in Positions, AddPosition(id) PROVE KeeperInv'
    <2>1. /\ openPositions' = [openPositions EXCEPT ![TraderOf[id]] = Append(@, id)]
          /\ UNCHANGED <<lastLedger, latestLedger, underwater, running>>
          /\ UNCHANGED passVars
        BY <1>2 DEF AddPosition, chainVars, processVars
    <2>2. TraderOf[id] \in Traders /\ openPositions \in [Traders -> Seq(Positions)]
        BY <1>1 DEF KeeperInv, KeeperTypeOK, Traders
    <2>3. Append(openPositions[TraderOf[id]], id) \in Seq(Positions) BY <2>2
    <2>4. openPositions' \in [Traders -> Seq(Positions)] BY <2>1, <2>2, <2>3
    <2>5. KeeperTypeOK' BY <1>1, <2>1, <2>4 DEF KeeperInv, KeeperTypeOK, passVars
    <2>6. QED BY <1>1, <2>1, <2>5, PassUntouched DEF KeeperInv
<1>3. CASE Scan
    <2>1. UNCHANGED passVars BY <1>3 DEF Scan
    <2>2. KeeperTypeOK'
        BY <1>1, <1>3 DEF KeeperInv, KeeperTypeOK, Scan, passVars, chainVars, processVars
    <2>3. QED BY <1>1, <2>1, <2>2, PassUntouched DEF KeeperInv
<1>4. CASE LiquidatorStep BY <1>1, <1>4, LiquidatorKeeps
<1>5. CASE ChainStep
    <2>1. UNCHANGED passVars BY <1>5 DEF ChainStep, PositionChanges, LedgerCloses
    <2>2. KeeperTypeOK'
        BY <1>1, <1>5 DEF KeeperInv, KeeperTypeOK, KeeperAssumption, ChainStep,
               PositionChanges, LedgerCloses, passVars, scannerVars, processVars
    <2>3. QED BY <1>1, <2>1, <2>2, PassUntouched DEF KeeperInv
<1>6. CASE Signal \/ \E loop \in Loops : Stop(loop)
    <2>1. UNCHANGED <<scannerVars, passVars, chainVars>> /\ running' \subseteq running
        BY <1>6 DEF Signal, Stop
    <2>2. KeeperTypeOK'
        BY <1>1, <2>1 DEF KeeperInv, KeeperTypeOK, passVars, scannerVars, chainVars
    <2>3. QED BY <1>1, <2>1, <2>2, PassUntouched DEF KeeperInv
<1>7. CASE UNCHANGED keeperVars
    <2>1. KeeperTypeOK'
        BY <1>1, <1>7 DEF KeeperInv, KeeperTypeOK, keeperVars, passVars, scannerVars,
               chainVars, processVars
    <2>2. QED BY <1>1, <1>7, <2>1, PassUntouched DEF KeeperInv, keeperVars
<1>8. QED BY <1>1, <1>2, <1>3, <1>4, <1>5, <1>6, <1>7 DEF KeeperNext

\* The invariant of the scanner's list and the pass over its copy.
THEOREM KeeperInvariant == KeeperSpec => []KeeperInv
BY KeeperAssumption, KeeperInitInv, KeeperNextKeeps, PTL DEF KeeperSpec

-------------------------------------------------------------------------------
\* The properties.

\* The list, its copy and the place of the pass in it stay well-formed: no entry is
\* looked up beyond the end of a list (checkAndLiquidate, RemovePosition).
THEOREM KeeperTypeCorrect == KeeperSpec => []KeeperTypeOK
<1>1. KeeperInv => KeeperTypeOK BY DEF KeeperInv
<1>2. QED BY <1>1, KeeperInvariant, PTL

\* A pass of checkAndLiquidate that has ended has asked for every position that was
\* tracked when it began.
THEOREM PassesAreComplete == KeeperSpec => []PassIsComplete
<1>1. KeeperInv => PassIsComplete BY DEF KeeperInv, OwedIsAhead, PassIsComplete
<1>2. QED BY <1>1, KeeperInvariant, PTL

\* Only the removal that follows a liquidation shortens what is tracked, and of
\* what is tracked it takes the liquidated position alone.
LEMMA StepForgetsOnlySent ==
    ASSUME KeeperAssumption, KeeperInv, [KeeperNext]_keeperVars
    PROVE  Tracked(openPositions) \ Tracked(openPositions')
               \subseteq {id \in Positions : Sent(id)}
<1>1. /\ openPositions \in [Traders -> Seq(Positions)]
      /\ trader \in Traders
    BY DEF KeeperInv, KeeperTypeOK
<1>2. CASE openPositions' = openPositions BY <1>2
<1>3. ASSUME NEW id \in Positions, AddPosition(id)
      PROVE  Tracked(openPositions) \subseteq Tracked(openPositions')
    <2>1. openPositions' = [openPositions EXCEPT ![TraderOf[id]] = Append(@, id)]
        BY <1>3 DEF AddPosition
    <2>2. ASSUME NEW other \in Tracked(openPositions)
          PROVE  Contains(openPositions'[TraderOf[other]], other)
        <3>1. /\ TraderOf[other] \in Traders
              /\ Contains(openPositions[TraderOf[other]], other)
            BY <2>2 DEF Tracked, Traders
        <3>2. CASE TraderOf[other] # TraderOf[id] BY <1>1, <2>1, <3>1, <3>2
        <3>3. CASE TraderOf[other] = TraderOf[id]
            <4>1. PICK i \in 1 .. Len(openPositions[TraderOf[id]]) :
                      openPositions[TraderOf[id]][i] = other
                BY <3>1, <3>3 DEF Contains
            <4>2. /\ openPositions[TraderOf[id]] \in Seq(Positions)
                  /\ openPositions'[TraderOf[id]] = Append(openPositions[TraderOf[id]], id)
                BY <1>1, <2>1, <3>1, <3>3
            <4>3. QED BY <3>3, <4>1, <4>2 DEF Contains
        <3>4. QED BY <3>2, <3>3
    <2>3. QED BY <2>2 DEF Tracked
<1>4. ASSUME Forget
      PROVE  \A other \in Tracked(openPositions) : ~Sent(other) => other \in Tracked(openPositions')
    <2>1. /\ stage = "sent"
          /\ openPositions' = [openPositions EXCEPT ![trader] = Removed(@, Current)]
        BY <1>4 DEF Forget
    <2>2. SUFFICES ASSUME NEW other \in Tracked(openPositions), ~Sent(other)
                   PROVE  Contains(openPositions'[TraderOf[other]], other)
        BY DEF Tracked
    <2>3. /\ other # Current
          /\ TraderOf[other] \in Traders
          /\ Contains(openPositions[TraderOf[other]], other)
        BY <2>1, <2>2 DEF Tracked, Traders, Sent
    <2>4. CASE TraderOf[other] # trader BY <1>1, <2>1, <2>3, <2>4
    <2>5. CASE TraderOf[other] = trader
        <3>1. openPositions[trader] \in Seq(Positions) BY <1>1
        <3>2. Contains(Removed(openPositions[trader], Current), other)
            BY <2>3, <2>5, <3>1, RemovalIsExact
        <3>3. openPositions'[trader] = Removed(openPositions[trader], Current)
            BY <1>1, <2>1
        <3>4. QED BY <2>5, <3>2, <3>3
    <2>6. QED BY <2>4, <2>5
<1>5. Forget => Tracked(openPositions) \ Tracked(openPositions')
                    \subseteq {id \in Positions : Sent(id)}
    BY <1>4 DEF Tracked
<1>6. \/ openPositions' = openPositions
      \/ \E id \in Positions : AddPosition(id)
      \/ Forget
    BY DEF KeeperNext, Scan, LiquidatorStep, StartPass, NotLiquidatable, Liquidatable,
           Send, SendFails, Asked, ChainStep, PositionChanges, LedgerCloses, Signal, Stop,
           keeperVars, scannerVars
<1>7. QED BY <1>2, <1>3, <1>5, <1>6

\* A position is not forgotten because a request failed or another one was removed
\* from the list they share (RemovePosition, checkPosition).
THEOREM NothingForgotten == KeeperSpec => NoneForgotten
<1>1. KeeperInv /\ [KeeperNext]_keeperVars
          => [Tracked(openPositions) \ Tracked(openPositions')
                 \subseteq {id \in Positions : Sent(id)}]_keeperVars
    BY KeeperAssumption, StepForgetsOnlySent
<1>2. QED BY <1>1, KeeperInvariant, PTL DEF KeeperSpec, NoneForgotten
===============================================================================
