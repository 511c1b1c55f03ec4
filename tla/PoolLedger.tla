------------------------------ MODULE PoolLedger ------------------------------
(***************************************************************************)
(* What the protocol promises to those who put money into it, and nothing  *)
(* of how it keeps its books: no shares, no locked liquidity, no open      *)
(* interest, no counters, no tokens held by a contract, no configuration.  *)
(*                                                                         *)
(* A user's wallet changes only by what the user contributes to the pool,  *)
(* redeems from it, or posts and gets back with a position; the pool's     *)
(* equity changes only by contributions, redemptions, fees, and the profit *)
(* and loss of positions, each at some price and never beyond the          *)
(* collateral.  Collateral is nobody's until its position ends.  The       *)
(* promise holds while the manager of the positions is in charge; when     *)
(* another is put in its place, positions neither open nor end, and what   *)
(* the other does to pool and wallets is not promised.                     *)
(***************************************************************************)
EXTENDS PerpsMath

CONSTANTS Accounts, Assets, Prices, FeeRates, Collaterals, Leverages, InitialUsdc

VARIABLES
    wallet,     \* the USDC of each account
    pool,       \* the equity of the liquidity providers
    open,       \* the open positions by id
    managed     \* whether the manager of these positions is in charge

ledgerVars == <<wallet, pool, open, managed>>

LedgerInit ==
    /\ wallet = InitialUsdc
    /\ pool = 0
    /\ open = << >>
    /\ managed \in BOOLEAN

Contribute(account) ==
    /\ UNCHANGED <<open, managed>>
    /\ \E amount \in 1 .. wallet[account] :
        /\ pool' = pool + amount
        /\ wallet' = [wallet EXCEPT ![account] = @ - amount]

Redeem(account) ==
    /\ UNCHANGED <<open, managed>>
    /\ \E amount \in 1 .. pool :
        /\ pool' = pool - amount
        /\ wallet' = [wallet EXCEPT ![account] = @ + amount]

\* A new position pays a fee to the pool, never none.
Open(account, asset, direction, collateral, leverage, price, bps) ==
    LET size == collateral * leverage
        fee  == CalculateFee(size, bps)
    IN  /\ managed
        /\ UNCHANGED managed
        /\ size > 0
        /\ price > 0
        /\ fee > 0
        /\ collateral + fee <= wallet[account]
        /\ wallet' = [wallet EXCEPT ![account] = @ - (collateral + fee)]
        /\ pool' = pool + fee
        /\ \E id \in DOMAIN open' \ DOMAIN open :
               open' = [i \in DOMAIN open \cup {id} |->
                            IF i = id THEN [trader |-> account, asset |-> asset,
                                            direction |-> direction, size |-> size,
                                            collateral |-> collateral,
                                            entryPrice |-> price]
                            ELSE open[i]]

\* The trader gets what profit or loss and fee leave of the collateral; when they
\* leave less than nothing the trader owes nothing.
End(id, price, bps) ==
    LET p      == open[id]
        pnl    == CapLoss(CalculatePnl(p.direction, p.size, p.entryPrice, price),
                          p.collateral)
        fee    == CalculateFee(p.size, bps)
        payout == p.collateral + pnl - fee
    IN  /\ managed
        /\ UNCHANGED managed
        /\ open' = [i \in DOMAIN open \ {id} |-> open[i]]
        /\ pool' = pool - pnl + fee
        /\ pool' >= 0
        /\ wallet' = IF payout > 0 THEN [wallet EXCEPT ![p.trader] = @ + payout]
                     ELSE wallet

\* A manager is put in charge, this one or another.
Rewire ==
    /\ managed' \in BOOLEAN
    /\ UNCHANGED <<wallet, pool, open>>

\* Another manager does what it likes.
Interfere ==
    /\ ~managed
    /\ wallet' \in [Accounts -> Nat]
    /\ pool' \in Nat
    /\ UNCHANGED <<open, managed>>

LedgerNext ==
    \/ \E account \in Accounts :
        \/ Contribute(account)
        \/ Redeem(account)
        \/ \E asset \in Assets, direction \in Directions, collateral \in Collaterals,
              leverage \in Leverages, price \in Prices, bps \in FeeRates :
               Open(account, asset, direction, collateral, leverage, price, bps)
    \/ \E id \in DOMAIN open, price \in Prices, bps \in FeeRates \cup {0} :
        End(id, price, bps)
    \/ Rewire
    \/ Interfere

LedgerSpec == LedgerInit /\ [][LedgerNext]_ledgerVars
===============================================================================
