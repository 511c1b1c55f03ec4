----------------------------- MODULE OracleAdapter -----------------------------
(***************************************************************************)
(* The oracle adapter (contracts/oracle-adapter): the administrator stores *)
(* a price per asset, and a read serves it while it is recent.             *)
(*                                                                         *)
(* Two clocks end a price's life.  The contract refuses it once it is      *)
(* older, in seconds of the ledger timestamp, than the staleness           *)
(* threshold; the network drops the temporary storage entry that holds it  *)
(* once it has lived its number of ledgers.  The second is set by          *)
(* extend_ttl: an entry that would live for less than TtlThreshold more    *)
(* ledgers lives for TtlExtend from now on, any other keeps its life.      *)
(* Nothing ties the clocks together but the time a ledger takes to close.  *)
(***************************************************************************)
EXTENDS PerpsTypes

CONSTANTS
    Assets,
    Prices,                 \* arguments of set_price
    StalenessThresholds,    \* arguments of initialize and set_staleness_threshold
    TtlThreshold,           \* 100 ledgers
    TtlExtend,              \* 200 ledgers
    LedgerTimes,            \* the seconds it may take a ledger to close
    MaxTime                 \* bound of the model: the timestamp stops here

ASSUME OracleAssumption ==
    /\ Prices \subseteq Int
    /\ StalenessThresholds \subseteq Nat
    /\ TtlThreshold \in Nat /\ TtlExtend \in Nat
    /\ TtlThreshold <= TtlExtend
    /\ LedgerTimes \subseteq Nat \ {0}
    /\ MaxTime \in Nat

VARIABLES
    oracleConfig,   \* instance storage: admin, staleness threshold
    cachedPrice,    \* temporary storage: per asset the price and when it was set
    liveUntil,      \* per asset the last ledger its entry in temporary storage lives in
    sequence,       \* the number of the ledger (external)
    now             \* the timestamp of the ledger (external)

oracleVars == <<oracleConfig, cachedPrice, liveUntil, sequence, now>>

\* No price was ever stored.
NoPrice == [price |-> 0, timestamp |-> 0]

OracleInit ==
    /\ oracleConfig = [admin |-> NoAddress, stalenessThreshold |-> 300]
    /\ cachedPrice = [asset \in Assets |-> NoPrice]
    /\ liveUntil = [asset \in Assets |-> -1]
    /\ sequence = 0
    /\ now = 0

OracleInitialized == oracleConfig.admin # NoAddress

\* Mutant: a threshold of zero is accepted.
OracleInitializeAny(admin, threshold) ==
    /\ ~OracleInitialized
    /\ oracleConfig' = [admin |-> admin, stalenessThreshold |-> threshold]
    /\ UNCHANGED <<cachedPrice, liveUntil, sequence, now>>

OracleInitialize(admin, threshold) ==
    /\ ~OracleInitialized
    /\ threshold # 0
    /\ oracleConfig' = [admin |-> admin, stalenessThreshold |-> threshold]
    /\ UNCHANGED <<cachedPrice, liveUntil, sequence, now>>

SetStalenessThreshold(admin, threshold) ==
    /\ OracleInitialized
    /\ admin = oracleConfig.admin
    /\ threshold # 0
    /\ oracleConfig' = [oracleConfig EXCEPT !.stalenessThreshold = threshold]
    /\ UNCHANGED <<cachedPrice, liveUntil, sequence, now>>

\* Mutant: only a new entry gets a life of its own.
ExtendTtlOfNew(t) == IF t < sequence THEN sequence + TtlExtend ELSE t

\* extend_ttl of an entry that lives until ledger t (one that has expired counts
\* as new).
ExtendTtl(t) == IF t - sequence < TtlThreshold THEN sequence + TtlExtend ELSE t

SetPrice(admin, asset, price) ==
    /\ OracleInitialized
    /\ admin = oracleConfig.admin
    /\ price > 0
    /\ cachedPrice' = [cachedPrice EXCEPT ![asset] = [price |-> price, timestamp |-> now]]
    /\ liveUntil' = [liveUntil EXCEPT ![asset] = ExtendTtl(@)]
    /\ UNCHANGED <<oracleConfig, sequence, now>>

\* Whether get_price succeeds, and the value get_price_value then returns.
Cached(asset) == sequence <= liveUntil[asset]

\* Mutant: a missing entry reads as the default price.
ServedIfMissing(asset) ==
    now - cachedPrice[asset].timestamp <= oracleConfig.stalenessThreshold

Served(asset) ==
    /\ Cached(asset)
    /\ now - cachedPrice[asset].timestamp <= oracleConfig.stalenessThreshold

GetPriceValue(asset) == cachedPrice[asset].price

\* A ledger closes.
Tick ==
    /\ \E seconds \in LedgerTimes :
        /\ now + seconds <= MaxTime
        /\ now' = now + seconds
    /\ sequence' = sequence + 1
    /\ UNCHANGED <<oracleConfig, cachedPrice, liveUntil>>

OracleStep ==
    \/ \E admin \in Admins :
        \/ \E threshold \in StalenessThresholds :
               \/ OracleInitialize(admin, threshold)
               \/ SetStalenessThreshold(admin, threshold)
        \/ \E asset \in Assets, price \in Prices : SetPrice(admin, asset, price)
    \/ Tick

OracleSpec == OracleInit /\ [][OracleStep]_oracleVars

-------------------------------------------------------------------------------
\* Properties.

OracleTypeOK ==
    /\ oracleConfig \in [admin : Admins \cup {NoAddress}, stalenessThreshold : Nat \ {0}]
    /\ cachedPrice \in [Assets -> [price : Nat, timestamp : Nat]]
    /\ liveUntil \in [Assets -> Int]
    /\ sequence \in Nat
    /\ now \in Nat

\* The network never drops a price the contract would still serve, as long as the
\* staleness threshold is no longer than TtlThreshold of the shortest ledgers: the
\* seconds get_price counts and the ledgers set_price pays for agree, however long
\* each ledger takes and however often a price is set again while its entry is
\* still alive (then extend_ttl leaves its life as it is).
RecentPriceIsServed ==
    \A asset \in Assets, shortest \in LedgerTimes :
        /\ \A seconds \in LedgerTimes : shortest <= seconds
        /\ cachedPrice[asset].price > 0
        /\ oracleConfig.stalenessThreshold <= TtlThreshold * shortest
        /\ now - cachedPrice[asset].timestamp <= oracleConfig.stalenessThreshold
        => Served(asset)
===============================================================================
