---------------------------- MODULE PerpsMathProofs ----------------------------
(***************************************************************************)
(* Facts about the arithmetic of the contracts: what the conversions       *)
(* return and which way they round, and how a total over a finite set      *)
(* changes when one value is added, removed or replaced.                   *)
(***************************************************************************)
EXTENDS PerpsMath, Sums, FiniteSetTheorems, TLAPS

\* What \div is, for a dividend that is not negative.
LEMMA DivBounds ==
    ASSUME NEW n \in Nat, NEW d \in Nat \ {0}
    PROVE  /\ n \div d \in Nat
           /\ d * (n \div d) <= n
           /\ n < d * (n \div d) + d
BY SMT

\* A product of natural numbers is one, and a product of positive ones is positive.
LEMMA ProductNat ==
    ASSUME NEW m \in Nat, NEW n \in Nat
    PROVE  /\ m * n \in Nat
           /\ m > 0 /\ n > 0 => m * n > 0
BY SMT

\* Multiplication keeps the order.
LEMMA ProductMonotone ==
    ASSUME NEW m \in Nat, NEW n \in Nat, NEW k \in Nat, m <= n
    PROVE  /\ k * m <= k * n
           /\ m * k <= n * k
BY SMT

\* What Trunc returns lies on the same side of zero as the dividend, and is no
\* farther from zero than the exact quotient.
LEMMA TruncBounds ==
    ASSUME NEW n \in Int, NEW d \in Nat \ {0}
    PROVE  /\ Trunc(n, d) \in Int
           /\ n >= 0 => /\ Trunc(n, d) \in Nat
                        /\ d * Trunc(n, d) <= n
                        /\ n < d * Trunc(n, d) + d
           /\ n <= 0 => /\ Trunc(n, d) <= 0
                        /\ n <= d * Trunc(n, d)
                        /\ d * Trunc(n, d) < n + d
<1>1. CASE n >= 0
    <2>1. Trunc(n, d) = n \div d BY <1>1 DEF Trunc
    <2>2. n \in Nat BY <1>1
    <2>3. n = 0 => n \div d = 0 BY SMT
    <2>4. QED BY <2>1, <2>2, <2>3, DivBounds
<1>2. CASE n < 0
    <2>. DEFINE q == (-n) \div d
    <2>1. Trunc(n, d) = -q BY <1>2 DEF Trunc
    <2>2. -n \in Nat BY <1>2
    <2>3. q \in Nat /\ d * q <= -n /\ -n < d * q + d BY <2>2, DivBounds
    <2>4. d * (-q) = -(d * q) BY <2>3, SMT
    <2>. HIDE DEF q
    <2>5. d * q \in Int BY <2>3
    <2>6. QED BY <2>1, <2>3, <2>4, <2>5, <1>2
<1>3. QED BY <1>1, <1>2

\* Rust's division is odd: the profit of a long is the loss of a short.
LEMMA TruncOdd ==
    ASSUME NEW n \in Int, NEW d \in Nat \ {0}
    PROVE  Trunc(-n, d) = -Trunc(n, d)
<1>1. CASE n = 0
    <2>1. 0 \div d = 0 BY SMT
    <2>2. QED BY <1>1, <2>1 DEF Trunc
<1>2. CASE n > 0 BY <1>2, DivBounds DEF Trunc
<1>3. CASE n < 0
    <2>1. -n \in Nat BY <1>3
    <2>2. QED BY <1>3, <2>1, DivBounds DEF Trunc
<1>4. QED BY <1>1, <1>2, <1>3

-------------------------------------------------------------------------------
\* Shares.

\* A deposit mints no more shares than its part of the pool.
LEMMA MintBounds ==
    ASSUME NEW amount \in Nat, NEW shares \in Nat, NEW deposits \in Nat
    PROVE  /\ CalcSharesToMint(amount, shares, deposits) \in Nat
           /\ shares > 0 =>
                deposits * CalcSharesToMint(amount, shares, deposits) <= amount * shares
<1>1. CASE shares = 0 \/ deposits = 0
    <2>1. CalcSharesToMint(amount, shares, deposits) = amount
        BY <1>1 DEF CalcSharesToMint
    <2>2. deposits = 0 => deposits * amount = 0 BY SMT
    <2>3. amount * shares \in Nat BY ProductNat
    <2>4. QED BY <2>1, <2>2, <2>3, <1>1
<1>2. CASE shares # 0 /\ deposits # 0
    <2>1. CalcSharesToMint(amount, shares, deposits) = (amount * shares) \div deposits
        BY <1>2 DEF CalcSharesToMint
    <2>2. amount * shares \in Nat BY ProductNat
    <2>3. QED BY <2>1, <2>2, <1>2, DivBounds
<1>3. QED BY <1>1, <1>2

\* A withdrawal returns no more than the part of the pool the shares stand for.
LEMMA WithdrawalBounds ==
    ASSUME NEW burnt \in Nat, NEW shares \in Nat, NEW deposits \in Nat, burnt <= shares
    PROVE  /\ CalcWithdrawalAmount(burnt, shares, deposits) \in Nat
           /\ shares * CalcWithdrawalAmount(burnt, shares, deposits) <= burnt * deposits
           /\ CalcWithdrawalAmount(burnt, shares, deposits) <= deposits
<1>1. CASE shares = 0
    <2>1. CalcWithdrawalAmount(burnt, shares, deposits) = 0
        BY <1>1 DEF CalcWithdrawalAmount
    <2>2. shares * 0 = 0 /\ burnt * deposits \in Nat BY ProductNat, SMT
    <2>3. QED BY <2>1, <2>2
<1>2. CASE shares # 0
    <2>. DEFINE q == (burnt * deposits) \div shares
    <2>1. CalcWithdrawalAmount(burnt, shares, deposits) = q
        BY <1>2 DEF CalcWithdrawalAmount
    <2>2. burnt * deposits \in Nat BY ProductNat
    <2>3. q \in Nat /\ shares * q <= burnt * deposits BY <2>2, <1>2, DivBounds
    <2>. HIDE DEF q
    <2>4. burnt * deposits <= shares * deposits BY ProductMonotone
    <2>5. shares * q <= shares * deposits
        <3>1. shares * q \in Nat /\ shares * deposits \in Nat BY <2>3, ProductNat
        <3>2. QED BY <3>1, <2>2, <2>3, <2>4
    <2>6. q <= deposits BY <2>3, <2>5, <1>2, SMT
    <2>7. QED BY <2>1, <2>3, <2>6
<1>3. QED BY <1>1, <1>2

\* Depositing and at once burning the shares minted never returns more than was
\* deposited, whatever both divisions round away, if the pool had shares before.
THEOREM RoundTripNoGain ==
    ASSUME NEW amount \in Nat, NEW shares \in Nat \ {0}, NEW deposits \in Nat
    PROVE  LET minted == CalcSharesToMint(amount, shares, deposits)
           IN  CalcWithdrawalAmount(minted, shares + minted, deposits + amount) <= amount
<1>. DEFINE m == CalcSharesToMint(amount, shares, deposits)
            w == CalcWithdrawalAmount(m, shares + m, deposits + amount)
<1>1. m \in Nat /\ deposits * m <= amount * shares BY MintBounds
<1>. HIDE DEF m
<1>2. w \in Nat /\ (shares + m) * w <= m * (deposits + amount)
    <2>1. shares + m \in Nat /\ deposits + amount \in Nat /\ m <= shares + m BY <1>1
    <2>2. QED BY <1>1, <2>1, WithdrawalBounds
<1>. HIDE DEF w
<1>3. m * (deposits + amount) <= (shares + m) * amount BY <1>1, SMT
<1>4. (shares + m) * w <= (shares + m) * amount
    <2>1. (shares + m) * w \in Nat /\ m * (deposits + amount) \in Nat
          /\ (shares + m) * amount \in Nat BY <1>1, <1>2, ProductNat
    <2>2. QED BY <1>2, <1>3, <2>1
<1>5. w <= amount BY <1>1, <1>2, <1>4, SMT
<1>6. QED BY <1>5 DEF m, w

-------------------------------------------------------------------------------
\* Positions.

\* A long and a short of the same size and entry settle against each other to the
\* last unit: the truncation of Rust's division favours neither side.
THEOREM PnlIsZeroSum ==
    ASSUME NEW size \in Nat, NEW entryPrice \in Nat \ {0}, NEW price \in Int
    PROVE  CalculatePnl("Long", size, entryPrice, price)
               = -CalculatePnl("Short", size, entryPrice, price)
<1>. DEFINE n == size * (entryPrice - price)
<1>1. size * (price - entryPrice) = -n BY SMT
<1>2. n \in Int OBVIOUS
<1>3. Trunc(-n, entryPrice) = -Trunc(n, entryPrice) BY <1>2, TruncOdd
<1>4. Trunc(n, entryPrice) \in Int BY <1>2, TruncBounds
<1>5. QED BY <1>1, <1>3, <1>4 DEF CalculatePnl

\* The profit or loss is an integer.
LEMMA PnlInt ==
    ASSUME NEW direction \in Directions, NEW size \in Nat,
           NEW entryPrice \in Nat \ {0}, NEW price \in Int
    PROVE  CalculatePnl(direction, size, entryPrice, price) \in Int
<1>1. /\ size * (price - entryPrice) \in Int
      /\ size * (entryPrice - price) \in Int
    OBVIOUS
<1>2. QED BY <1>1, TruncBounds DEF CalculatePnl

\* A capped loss is an integer no lower than the collateral.
LEMMA CapLossBounds ==
    ASSUME NEW pnl \in Int, NEW collateral \in Nat
    PROVE  /\ CapLoss(pnl, collateral) \in Int
           /\ CapLoss(pnl, collateral) >= -collateral
BY DEF CapLoss

\* A fee on a notional is a natural number.
LEMMA FeeNat ==
    ASSUME NEW size \in Nat, NEW bps \in Nat
    PROVE  CalculateFee(size, bps) \in Nat
<1>1. size * bps \in Nat BY ProductNat
<1>2. QED BY <1>1, TruncBounds DEF CalculateFee, BPS

-------------------------------------------------------------------------------
\* Totals: SumOver of functions from finite sets into Nat.

\* The units counted by SumOver form a finite set, one block per argument.
LEMMA UnitsFinite ==
    ASSUME NEW A, IsFiniteSet(A), NEW f \in [A -> Nat]
    PROVE  IsFiniteSet(UNION {Units(f, x) : x \in DOMAIN f})
<1>1. \A x \in A : IsFiniteSet(Units(f, x))
    <2>1. TAKE x \in A
    <2>2. IsFiniteSet({x}) BY FS_Singleton
    <2>3. f[x] \in Nat OBVIOUS
    <2>4. IsFiniteSet(1 .. f[x]) BY <2>3, FS_Interval
    <2>. QED BY <2>2, <2>4, FS_Product DEF Units
<1>2. IsFiniteSet({Units(f, x) : x \in A})
    <2>. DEFINE block == [x \in A |-> Units(f, x)]
                blocks == {Units(f, x) : x \in A}
    <2>1. block \in Surjection(A, blocks) BY DEF Surjection
    <2>2. QED BY <2>1, FS_Surjection
<1>3. QED BY <1>1, <1>2, FS_UNION

\* The total is a natural number.
LEMMA SumOverNat ==
    ASSUME NEW A, IsFiniteSet(A), NEW f \in [A -> Nat]
    PROVE  SumOver(f) \in Nat
BY UnitsFinite, FS_CardinalityType DEF SumOver

\* The total over the empty domain is zero.
LEMMA SumOverEmpty == \A f : DOMAIN f = {} => SumOver(f) = 0
<1>1. TAKE f
<1>2. HAVE DOMAIN f = {}
<1>3. UNION {Units(f, x) : x \in DOMAIN f} = {} BY <1>2
<1>4. QED BY <1>3, FS_EmptySet DEF SumOver

\* So is the total of zeroes.
LEMMA SumOverZero ==
    ASSUME NEW A
    PROVE  SumOver([x \in A |-> 0]) = 0
<1>. DEFINE f == [x \in A |-> 0]
<1>1. \A x \in A : Units(f, x) = {} BY DEF Units
<1>2. UNION {Units(f, x) : x \in DOMAIN f} = {} BY <1>1
<1>. HIDE DEF f
<1>3. SumOver(f) = 0 BY <1>2, FS_EmptySet DEF SumOver
<1>4. QED BY <1>3 DEF f

\* One argument contributes its value, the others what they contribute alone.
LEMMA SumOverSplit ==
    ASSUME NEW A, IsFiniteSet(A), NEW f \in [A -> Nat], NEW a \in A
    PROVE  SumOver(f) = f[a] + SumOver([x \in A \ {a} |-> f[x]])
<1>. DEFINE g == [x \in A \ {a} |-> f[x]]
            rest == UNION {Units(g, x) : x \in DOMAIN g}
<1>1. IsFiniteSet(A \ {a}) /\ g \in [A \ {a} -> Nat] BY FS_RemoveElement
<1>2. IsFiniteSet(rest) BY <1>1, UnitsFinite
<1>3. /\ IsFiniteSet(Units(f, a))
      /\ Cardinality(Units(f, a)) = f[a]
    <2>1. IsFiniteSet({a}) /\ Cardinality({a}) = 1 BY FS_Singleton
    <2>2. f[a] \in Nat OBVIOUS
    <2>3. IsFiniteSet(1 .. f[a]) /\ Cardinality(1 .. f[a]) = f[a]
        BY <2>2, FS_Interval
    <2>4. /\ IsFiniteSet({a} \X (1 .. f[a]))
          /\ Cardinality({a} \X (1 .. f[a])) = Cardinality({a}) * Cardinality(1 .. f[a])
        BY <2>1, <2>3, FS_Product
    <2>5. Cardinality({a} \X (1 .. f[a])) = 1 * f[a] BY <2>1, <2>3, <2>4
    <2>6. 1 * f[a] = f[a] BY <2>2
    <2>7. QED BY <2>4, <2>5, <2>6 DEF Units
<1>4. UNION {Units(f, x) : x \in DOMAIN f} = Units(f, a) \cup rest
    <2>1. \A x \in A \ {a} : Units(f, x) = Units(g, x) BY DEF Units
    <2>2. DOMAIN f = A /\ DOMAIN g = A \ {a} OBVIOUS
    <2>3. QED BY <2>1, <2>2
<1>5. Units(f, a) \cap rest = {}
    <2>1. \A u \in Units(f, a) : u[1] = a BY DEF Units
    <2>2. \A u \in rest : u[1] # a BY DEF Units
    <2>3. QED BY <2>1, <2>2
<1>6. Cardinality(Units(f, a) \cap rest) = 0 BY <1>5, FS_EmptySet
<1>7. Cardinality(rest) \in Nat /\ f[a] \in Nat BY <1>2, FS_CardinalityType
<1>8. Cardinality(Units(f, a) \cup rest) = f[a] + Cardinality(rest)
    <2>1. Cardinality(Units(f, a) \cup rest)
              = Cardinality(Units(f, a)) + Cardinality(rest)
                    - Cardinality(Units(f, a) \cap rest)
        BY <1>2, <1>3, FS_Union
    <2>2. f[a] + Cardinality(rest) - 0 = f[a] + Cardinality(rest) BY <1>7
    <2>3. QED BY <2>1, <2>2, <1>3, <1>6
<1>9. QED BY <1>4, <1>8 DEF SumOver

\* No value exceeds the total.
LEMMA SumOverBounds ==
    ASSUME NEW A, IsFiniteSet(A), NEW f \in [A -> Nat], NEW a \in A
    PROVE  f[a] <= SumOver(f)
<1>. DEFINE g == [x \in A \ {a} |-> f[x]]
<1>1. IsFiniteSet(A \ {a}) /\ g \in [A \ {a} -> Nat] BY FS_RemoveElement
<1>2. SumOver(g) \in Nat BY <1>1, SumOverNat
<1>3. SumOver(f) = f[a] + SumOver(g) BY SumOverSplit
<1>4. QED BY <1>2, <1>3

\* Replacing one value changes the total by the difference.
LEMMA SumOverExcept ==
    ASSUME NEW A, IsFiniteSet(A), NEW f \in [A -> Nat], NEW a \in A, NEW v \in Nat
    PROVE  SumOver([f EXCEPT ![a] = v]) = SumOver(f) - f[a] + v
<1>. DEFINE g == [f EXCEPT ![a] = v]
            h == [x \in A \ {a} |-> f[x]]
<1>1. g \in [A -> Nat] /\ g[a] = v OBVIOUS
<1>2. [x \in A \ {a} |-> g[x]] = h OBVIOUS
<1>3. SumOver(g) = v + SumOver(h)
    <2>1. SumOver(g) = g[a] + SumOver([x \in A \ {a} |-> g[x]]) BY <1>1, SumOverSplit
    <2>2. QED BY <2>1, <1>1, <1>2
<1>4. SumOver(f) = f[a] + SumOver(h) BY SumOverSplit
<1>5. SumOver(h) \in Nat
    <2>1. IsFiniteSet(A \ {a}) /\ h \in [A \ {a} -> Nat] BY FS_RemoveElement
    <2>2. QED BY <2>1, SumOverNat
<1>6. QED BY <1>3, <1>4, <1>5

\* A new argument adds its value.
LEMMA SumOverAdd ==
    ASSUME NEW A, IsFiniteSet(A), NEW f \in [A -> Nat], NEW a, a \notin A, NEW v \in Nat
    PROVE  SumOver([x \in A \cup {a} |-> IF x = a THEN v ELSE f[x]]) = SumOver(f) + v
<1>. DEFINE B == A \cup {a}
            g == [x \in B |-> IF x = a THEN v ELSE f[x]]
<1>1. IsFiniteSet(B) BY FS_AddElement
<1>2. g \in [B -> Nat] /\ g[a] = v OBVIOUS
<1>3. [x \in B \ {a} |-> g[x]] = f OBVIOUS
<1>4. SumOver(g) = v + SumOver(f)
    <2>1. SumOver(g) = g[a] + SumOver([x \in B \ {a} |-> g[x]])
        BY <1>1, <1>2, SumOverSplit
    <2>2. QED BY <2>1, <1>2, <1>3
<1>5. SumOver(f) \in Nat BY SumOverNat
<1>6. QED BY <1>4, <1>5
===============================================================================
