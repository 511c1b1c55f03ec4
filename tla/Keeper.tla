--------------------------------- MODULE Keeper ---------------------------------
(***************************************************************************)
(* The keeper process (keeper/cmd/keeper): three loops, each with a ticker *)
(* of its own, until the process is told to stop.  The scanner owns the    *)
(* list of tracked positions; the liquidator goes through a copy of it,    *)
(* asks for each position whether it can be liquidated, and if so sends    *)
(* the transaction and has the scanner forget the position.                *)
(*                                                                         *)
(* External are the chain and the wrappers that call the contracts (stubs  *)
(* in the repository): a question may fail or be answered by the state of  *)
(* the chain at that moment, a transaction may be refused or sent, and the *)
(* position it is about may end or stay.  External too is the decoder that *)
(* calls AddPosition: processEvent itself only logs.                       *)
(***************************************************************************)
EXTENDS Integers, SequencesExt

CONSTANTS
    Positions,          \* the ids of the positions
    TraderOf,           \* the trader of each position
    Reachable,          \* the positions whose requests get through now and then
    MaxTracked,         \* bound of the model: entries of one trader's list
    MaxLedger           \* bound of the model: ledgers closed

ASSUME KeeperAssumption ==
    /\ IsFiniteSet(Positions)
    /\ DOMAIN TraderOf = Positions
    /\ Reachable \subseteq Positions
    /\ MaxTracked \in Nat
    /\ MaxLedger \in Nat

Traders == {TraderOf[id] : id \in Positions}

Loops == {"scanner", "liquidator", "funder"}

VARIABLES
    openPositions,  \* scanner: per trader the tracked positions, behind a lock
    lastLedger,     \* scanner: the latest ledger an answer has named
    snapshot,       \* liquidator: the copy this pass goes through
    rest,           \* liquidator: the traders of the copy not begun
    trader, index,  \* liquidator: the entry of the copy at hand
    stage,          \* liquidator: where in checkPosition it is
    cancelled,      \* the context: a signal has arrived
    running,        \* the loops that have not returned
    underwater,     \* chain (external): the positions is_liquidatable says yes for
    latestLedger,   \* chain (external)
    owed            \* history: tracked when the pass began and not asked for yet

scannerVars == <<openPositions, lastLedger>>
passVars == <<snapshot, rest, trader, index, stage, owed>>
chainVars == <<underwater, latestLedger>>
processVars == <<cancelled, running>>
keeperVars == <<scannerVars, passVars, chainVars, processVars>>

NoPositions == [t \in Traders |-> << >>]

Tracked(lists) == {id \in Positions : Contains(lists[TraderOf[id]], id)}

KeeperInit ==
    /\ openPositions = NoPositions
    /\ lastLedger = 0
    /\ snapshot = NoPositions
    /\ rest = {}
    /\ trader \in Traders
    /\ index = 1
    /\ stage = "waiting"
    /\ cancelled = FALSE
    /\ running = Loops
    /\ underwater = {}
    /\ latestLedger = 1
    /\ owed = {}

-------------------------------------------------------------------------------
\* The scanner.

\* No entry is looked for: a position added twice is tracked twice.
AddPosition(id) ==
    /\ Len(openPositions[TraderOf[id]]) < MaxTracked
    /\ openPositions' = [openPositions EXCEPT ![TraderOf[id]] = Append(@, id)]
    /\ UNCHANGED <<lastLedger, passVars, chainVars, processVars>>

\* Mutant: the first entry goes, whichever it is.
RemoveHead(list, id) == IF list = << >> THEN list ELSE Tail(list)

\* RemovePosition: the first entry with this id goes.
Removed(list, id) == RemoveFirst(list, id)

\* A failed request changes nothing; an answer names the ledger it was made at,
\* which an RPC node that lags behind may put in the past.  Its events are logged.
Scan ==
    /\ "scanner" \in running
    /\ \E latest \in 1 .. latestLedger :
           lastLedger' = IF latest > lastLedger THEN latest ELSE lastLedger
    /\ UNCHANGED <<openPositions, passVars, chainVars, processVars>>

-------------------------------------------------------------------------------
\* The liquidator.

\* The position checkPosition is called for.
Current == snapshot[trader][index]

\* Mutant: the range goes one entry too far.
LastOfTraderLate == index > Len(snapshot[trader])

\* Mutant: the range ends one entry early.
LastOfTraderEarly == index >= Len(snapshot[trader]) - 1

LastOfTrader == index >= Len(snapshot[trader])

\* checkPosition returns, and the loops go on with the next entry of this trader,
\* the first of another in any order, or end the pass and drop the copy.
Return ==
    \/ /\ ~LastOfTrader
       /\ index' = index + 1
       /\ stage' = "checking"
       /\ UNCHANGED <<snapshot, rest, trader>>
    \/ /\ LastOfTrader
       /\ \E t \in rest : trader' = t /\ rest' = rest \ {t}
       /\ index' = 1
       /\ stage' = "checking"
       /\ UNCHANGED snapshot
    \/ /\ LastOfTrader
       /\ rest = {}
       /\ stage' = "waiting"
       /\ snapshot' = NoPositions
       /\ index' = 1
       /\ UNCHANGED <<rest, trader>>

\* A tick with positions to check.
StartPass ==
    /\ "liquidator" \in running
    /\ stage = "waiting"
    /\ snapshot' = openPositions
    /\ \E t \in Traders :
           /\ openPositions[t] # << >>
           /\ trader' = t
           /\ rest' = {u \in Traders \ {t} : openPositions[u] # << >>}
    /\ index' = 1
    /\ stage' = "checking"
    /\ owed' = Tracked(openPositions)
    /\ UNCHANGED <<scannerVars, chainVars, processVars>>

Asked(id) ==
    /\ stage = "checking"
    /\ id = Current
    /\ owed' = owed \ {id}
    /\ UNCHANGED <<scannerVars, chainVars, processVars>>

\* An error (also for a position that no longer exists), or the answer no.
NotLiquidatable(id) ==
    /\ Asked(id)
    /\ Return

Liquidatable(id) ==
    /\ Asked(id)
    /\ id \in underwater
    /\ stage' = "liquidating"
    /\ UNCHANGED <<snapshot, rest, trader, index>>

\* Liquidate returned an error: the position stays tracked.
SendFails ==
    /\ stage = "liquidating"
    /\ Return
    /\ UNCHANGED <<owed, scannerVars, chainVars, processVars>>

Send(id) ==
    /\ stage = "liquidating"
    /\ id = Current
    /\ stage' = "sent"
    /\ UNCHANGED <<snapshot, rest, trader, index, owed, scannerVars, chainVars, processVars>>

\* Other calls of the scanner may come between the answer and this one.
Forget ==
    /\ stage = "sent"
    /\ openPositions' = [openPositions EXCEPT ![trader] = Removed(@, Current)]
    /\ Return
    /\ UNCHANGED <<lastLedger, owed, chainVars, processVars>>

-------------------------------------------------------------------------------
\* The chain.

\* The price moves, the position ends, or it was never opened.
PositionChanges(id) ==
    /\ underwater' = IF id \in underwater THEN underwater \ {id} ELSE underwater \cup {id}
    /\ UNCHANGED <<latestLedger, scannerVars, passVars, processVars>>

LedgerCloses ==
    /\ latestLedger < MaxLedger
    /\ latestLedger' = latestLedger + 1
    /\ UNCHANGED <<underwater, scannerVars, passVars, processVars>>

-------------------------------------------------------------------------------
\* The process.

Signal ==
    /\ ~cancelled
    /\ cancelled' = TRUE
    /\ UNCHANGED <<running, scannerVars, passVars, chainVars>>

\* Mutant: the liquidator first goes on until nothing is tracked.
StopWhenDone(loop) ==
    /\ cancelled
    /\ loop \in running
    /\ loop = "liquidator" => stage = "waiting" /\ openPositions = NoPositions
    /\ running' = running \ {loop}
    /\ UNCHANGED <<cancelled, scannerVars, passVars, chainVars>>

\* A loop returns from its select, never from the middle of a round.
Stop(loop) ==
    /\ cancelled
    /\ loop \in running
    /\ loop = "liquidator" => stage = "waiting"
    /\ running' = running \ {loop}
    /\ UNCHANGED <<cancelled, scannerVars, passVars, chainVars>>

LiquidatorStep ==
    \/ StartPass
    \/ \E id \in Positions : NotLiquidatable(id) \/ Liquidatable(id) \/ Send(id)
    \/ SendFails
    \/ Forget

ChainStep ==
    \/ \E id \in Positions : PositionChanges(id)
    \/ LedgerCloses

KeeperNext ==
    \/ \E id \in Positions : AddPosition(id)
    \/ Scan
    \/ LiquidatorStep
    \/ ChainStep
    \/ Signal
    \/ \E loop \in Loops : Stop(loop)

\* The ticker goes on and a request ends in time (the client's timeout), so the
\* liquidator's goroutine always makes its next step.  Of the requests for a
\* reachable position, now and then one gets through, and those for the others
\* may all fail.  A select with both a tick and the cancellation ready picks
\* either, so the cancellation is picked some time.
KeeperFairness ==
    /\ WF_keeperVars(LiquidatorStep)
    /\ \A id \in Reachable :
           SF_keeperVars(Liquidatable(id)) /\ SF_keeperVars(Send(id))
    /\ SF_keeperVars(\E loop \in Loops : Stop(loop))

KeeperSpec == KeeperInit /\ [][KeeperNext]_keeperVars /\ KeeperFairness

-------------------------------------------------------------------------------
\* Properties.

KeeperTypeOK ==
    /\ openPositions \in [Traders -> Seq(Positions)]
    /\ latestLedger \in Nat
    /\ lastLedger \in 0 .. latestLedger
    /\ snapshot \in [Traders -> Seq(Positions)]
    /\ rest \subseteq Traders
    /\ trader \in Traders
    /\ stage \in {"waiting", "checking", "liquidating", "sent"}
    /\ stage # "waiting" => index \in 1 .. Len(snapshot[trader])
    /\ running \subseteq Loops
    /\ underwater \subseteq Positions

\* A pass asks for every position that was tracked when it began, although the
\* pass itself and others change the scanner's list meanwhile.
PassIsComplete == stage = "waiting" => owed = {}

\* The liquidator has just sent the liquidation of a position.
Sent(id) == stage = "sent" /\ Current = id

\* A position stops being tracked only when a liquidation was sent for it, not
\* because a request failed or another position was removed from the same list.
NoneForgotten ==
    [][Tracked(openPositions) \ Tracked(openPositions') \subseteq
           {id \in Positions : Sent(id)}]_keeperVars

\* A tracked position that stays under water gets its liquidation sent, unless
\* the process is told to stop, however badly the others fare that share its list.
UnderwaterIsSubmitted ==
    \A id \in Reachable :
        (id \in Tracked(openPositions) /\ id \in underwater)
            ~> (Sent(id) \/ id \notin underwater \/ cancelled)

\* The process ends after the signal: no loop waits for another.
KeeperStops == cancelled ~> (running = {})
===============================================================================
