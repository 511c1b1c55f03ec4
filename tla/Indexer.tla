--------------------------------- MODULE Indexer ---------------------------------
(***************************************************************************)
(* The indexer of the API server (keeper/internal/indexer) and the tables  *)
(* it writes (keeper/internal/store).  Each round reads the cursor, asks   *)
(* for the events from that ledger on, handles them in order and saves the *)
(* ledger of the answer as the new cursor.  The tables and the cursor are  *)
(* in a database; all else is lost in a crash.                             *)
(*                                                                         *)
(* External are the chain, the RPC node and the decoder: processEvent only *)
(* logs an event for now, and names the handlers that are called once      *)
(* events are decoded, one for each kind.                                  *)
(***************************************************************************)
EXTENDS Integers, Sequences, FiniteSets

CONSTANTS
    Positions,      \* the ids of the positions on chain
    PageLimit,      \* the number of events asked for, 1000 in the code
    MaxEvents,      \* bounds of the model: events emitted,
    MaxLedger,      \* ledgers closed,
    MaxCrashes      \* crashes of the process

ASSUME IndexerAssumption ==
    /\ Positions \subseteq Nat
    /\ PageLimit \in Nat \ {0}
    /\ MaxEvents \in Nat
    /\ MaxLedger \in Nat
    /\ MaxCrashes \in Nat

\* A row of positions is inserted by the first event handled and keeps what only
\* later events of its kind overwrite: the status.  A row inserted by a close
\* has no collateral.
NoRow == [status |-> "none", collateral |-> FALSE]

VARIABLES
    log,            \* chain (external): the contracts' events in order
    latestLedger,   \* chain (external): the last ledger closed
    cursor,         \* database: last_ledger
    rows,           \* database: per position its row
    inserted,       \* database: per event the rows inserted for it in trades,
                    \* liquidations or funding_updates (2 stands for 2 and more)
    stage,          \* indexer: what it does next
    page,           \* indexer: the events of the answer still to be handled
    answered,       \* indexer: the latest ledger the answer named
    handled,        \* history: the events handled at least once
    cutOff,         \* history: events an answer left out for its limit
    failed,         \* history: events for which a write failed
    stale,          \* history: since the last round that covered every event handled
                    \* so far, another one was broken off or covered fewer
    crashes         \* history: how often the process crashed

chainVars == <<log, latestLedger>>
tableVars == <<rows, inserted>>
indexerVars == <<chainVars, cursor, tableVars, stage, page, answered, handled, cutOff,
                 failed, stale, crashes>>

Events == 1 .. MaxEvents

Kinds == {"opened", "closed", "liquidated", "funding"}

IndexerInit ==
    /\ log = << >>
    /\ latestLedger = 0
    /\ cursor = 0
    /\ rows = [id \in Positions |-> NoRow]
    /\ inserted = [e \in Events |-> 0]
    /\ stage = "waiting"
    /\ page = {}
    /\ answered = 0
    /\ handled = {}
    /\ cutOff = {}
    /\ failed = {}
    /\ stale = FALSE
    /\ crashes = 0

-------------------------------------------------------------------------------
\* The chain.

Happened(kind, id) == \E e \in DOMAIN log : log[e].kind = kind /\ log[e].position = id

\* The first of a set of numbers.
First(events) == CHOOSE e \in events : \A other \in events : e <= other

\* A position is opened once and then closed or liquidated once; a funding is of
\* no position, and put down to the first.
MayHappen(kind, id) ==
    \/ kind = "funding" /\ id = First(Positions)
    \/ kind = "opened" /\ ~Happened("opened", id)
    \/ /\ kind \in {"closed", "liquidated"}
       /\ Happened("opened", id)
       /\ ~Happened("closed", id) /\ ~Happened("liquidated", id)

\* An event of the ledger that is about to close.
Emit(kind, id) ==
    /\ Len(log) < MaxEvents
    /\ MayHappen(kind, id)
    /\ latestLedger < MaxLedger
    /\ log' = Append(log, [kind |-> kind, position |-> id, ledger |-> latestLedger + 1])
    /\ UNCHANGED <<latestLedger, cursor, tableVars, stage, page, answered, handled,
                   cutOff, failed, stale, crashes>>

CloseLedger ==
    /\ latestLedger < MaxLedger
    /\ latestLedger' = latestLedger + 1
    /\ UNCHANGED <<log, cursor, tableVars, stage, page, answered, handled, cutOff,
                   failed, stale, crashes>>

-------------------------------------------------------------------------------
\* A round: index.

\* The events of the ledgers from the cursor on, up to the latest the node knows.
Due(latest) == {e \in DOMAIN log : cursor <= log[e].ledger /\ log[e].ledger <= latest}

\* getEvents: as many of them as the limit allows, in order.
Page(latest) ==
    {e \in Due(latest) : Cardinality({other \in Due(latest) : other <= e}) <= PageLimit}

\* Mutant: the cursor is saved before the events are handled.
FetchSavesCursor(latest) ==
    /\ stage = "waiting"
    /\ page' = Page(latest)
    /\ answered' = latest
    /\ cutOff' = cutOff \cup (Due(latest) \ Page(latest))
    /\ stage' = "handling"
    /\ cursor' = IF latest > cursor THEN latest ELSE cursor
    /\ UNCHANGED <<chainVars, tableVars, handled, failed, stale, crashes>>

\* GetCursor and GetEvents succeed.  The first round starts at ledger 1, before
\* which there are no events.  When one of them fails nothing changes.
Fetch(latest) ==
    /\ stage = "waiting"
    /\ page' = Page(latest)
    /\ answered' = latest
    /\ cutOff' = cutOff \cup (Due(latest) \ Page(latest))
    /\ stage' = "handling"
    /\ UNCHANGED <<chainVars, cursor, tableVars, handled, failed, stale, crashes>>

\* Mutant: a later event overwrites the collateral too.
UpsertOverwrites(id, status, collateral) ==
    rows' = [rows EXCEPT ![id] = [status |-> status, collateral |-> collateral]]

\* UpsertPosition: a new row as given, of an existing one the status alone.
Upsert(id, status, collateral) ==
    rows' = [rows EXCEPT ![id] =
                 IF @ = NoRow THEN [status |-> status, collateral |-> collateral]
                 ELSE [@ EXCEPT !.status = status]]

\* InsertTrade, InsertLiquidation and InsertFundingUpdate look for no earlier row.
Insert(e) == inserted' = [inserted EXCEPT ![e] = IF @ < 2 THEN @ + 1 ELSE @]

\* The event was handled, in whatever way.
HandledFirst ==
    /\ page' = page \ {First(page)}
    /\ handled' = handled \cup {First(page)}
    /\ stage' = "handling"
    /\ UNCHANGED <<chainVars, cursor, answered, cutOff, stale, crashes>>

AtHand(kinds) == stage = "handling" /\ page # {} /\ log[First(page)].kind \in kinds

ProcessPositionOpened ==
    /\ AtHand({"opened"})
    /\ Upsert(log[First(page)].position, "open", TRUE)
    /\ HandledFirst
    /\ UNCHANGED <<inserted, failed>>

\* ProcessPositionClosed writes two tables, one after the other.
ProcessPositionClosed ==
    /\ AtHand({"closed"})
    /\ Upsert(log[First(page)].position, "closed", FALSE)
    /\ stage' = "inserting"
    /\ UNCHANGED <<chainVars, cursor, inserted, page, answered, handled, cutOff, failed,
                   stale, crashes>>

RecordTrade ==
    /\ stage = "inserting"
    /\ Insert(First(page))
    /\ HandledFirst
    /\ UNCHANGED <<rows, failed>>

\* ProcessLiquidation and ProcessFundingApplied insert one row each; the row of a
\* position that was liquidated stays as it is.
ProcessOther ==
    /\ AtHand({"liquidated", "funding"})
    /\ Insert(First(page))
    /\ HandledFirst
    /\ UNCHANGED <<rows, failed>>

\* A write fails: the handler returns, and the round goes on with the next event.
WriteFails ==
    /\ stage \in {"handling", "inserting"}
    /\ page # {}
    /\ failed' = failed \cup {First(page)}
    /\ HandledFirst
    /\ UNCHANGED tableVars

\* Some event handled before is of a ledger after the one answered.
Uncovered == \E e \in handled : log[e].ledger > answered

\* Mutant: the last event's ledger is taken for the next one to ask for.
SaveCursorPast ==
    /\ stage = "handling"
    /\ page = {}
    /\ cursor' = IF answered > cursor THEN answered + 1 ELSE cursor
    /\ stage' = "waiting"
    /\ answered' = 0
    /\ stale' = Uncovered
    /\ UNCHANGED <<chainVars, tableVars, page, handled, cutOff, failed, crashes>>

\* SetCursor, when the answer is news.
SaveCursor ==
    /\ stage = "handling"
    /\ page = {}
    /\ cursor' = IF answered > cursor THEN answered ELSE cursor
    /\ stage' = "waiting"
    /\ answered' = 0
    /\ stale' = Uncovered
    /\ UNCHANGED <<chainVars, tableVars, page, handled, cutOff, failed, crashes>>

\* SetCursor fails: the error is logged and the round is over.
SaveFails ==
    /\ stage = "handling"
    /\ page = {}
    /\ answered > cursor
    /\ stage' = "waiting"
    /\ answered' = 0
    /\ stale' = Uncovered
    /\ UNCHANGED <<chainVars, cursor, tableVars, page, handled, cutOff, failed, crashes>>

\* The process dies and is started again.
Crash ==
    /\ crashes < MaxCrashes
    /\ crashes' = crashes + 1
    /\ stage' = "waiting"
    /\ page' = {}
    /\ answered' = 0
    /\ stale' = (stale \/ stage # "waiting")
    /\ UNCHANGED <<chainVars, cursor, tableVars, handled, cutOff, failed>>

ChainStep ==
    \/ \E kind \in Kinds, id \in Positions : Emit(kind, id)
    \/ CloseLedger

Handle ==
    \/ ProcessPositionOpened
    \/ ProcessPositionClosed
    \/ RecordTrade
    \/ ProcessOther

IndexerStep ==
    \/ \E latest \in 1 .. latestLedger : Fetch(latest)
    \/ Handle
    \/ WriteFails
    \/ SaveCursor
    \/ SaveFails

IndexerNext == ChainStep \/ IndexerStep \/ Crash

\* The ticker goes on and requests end in time; of the questions some are answered
\* by a node that is up to date.
IndexerFairness ==
    /\ WF_indexerVars(Handle \/ WriteFails \/ SaveCursor \/ SaveFails)
    /\ SF_indexerVars(Fetch(latestLedger))

IndexerSpec == IndexerInit /\ [][IndexerNext]_indexerVars /\ IndexerFairness

-------------------------------------------------------------------------------
\* Properties.

IndexerTypeOK ==
    /\ log \in Seq([kind : Kinds, position : Positions, ledger : 1 .. MaxLedger])
    /\ Len(log) <= MaxEvents
    /\ latestLedger \in 0 .. MaxLedger
    /\ cursor \in 0 .. latestLedger
    /\ rows \in [Positions -> [status : {"none", "open", "closed"}, collateral : BOOLEAN]]
    /\ inserted \in [Events -> 0 .. 2]
    /\ stage \in {"waiting", "handling", "inserting"}
    /\ page \subseteq DOMAIN log
    /\ stage = "waiting" => page = {}
    /\ stage = "inserting" => page # {}
    /\ answered \in 0 .. latestLedger
    /\ handled \subseteq DOMAIN log
    /\ cutOff \subseteq DOMAIN log
    /\ failed \subseteq handled
    /\ stale \in BOOLEAN
    /\ crashes \in 0 .. MaxCrashes

\* No event is passed over by the cursor unless an answer was at its limit: not
\* by a crash between handling and saving, not by events of the ledger the cursor
\* stands at, not by a node that lags behind.
NothingSkipped ==
    \A e \in DOMAIN log : log[e].ledger <= cursor => e \in handled \cup cutOff

\* The openings, the closings and the liquidations of a position among some events.
Openings(events, id) ==
    {e \in events : log[e].kind = "opened" /\ log[e].position = id}
Closings(events, id) ==
    {e \in events : log[e].kind = "closed" /\ log[e].position = id}
Liquidations(events, id) ==
    {e \in events : log[e].kind = "liquidated" /\ log[e].position = id}

\* A round has gone through all that was handled before, and never has a write
\* failed or an answer been cut off at its limit.
UpToDate == stage = "waiting" /\ ~stale /\ failed = {} /\ cutOff = {}

\* After a round that went through, the tables tell of openings and closings,
\* although events are handled again and again and an opening handled again reopens
\* the row of a closed position for a while: a position whose closing was handled is
\* shown closed, one that has not ended on chain is shown open, the collateral is
\* that of the opening, and every close, liquidation and funding has its row.  A
\* crash between the two writes of a close leaves its position shown closed early.
\* The status of a liquidated position is another matter (LiquidationShown).
TablesTell ==
    UpToDate =>
        \A e \in handled :
            LET id == log[e].position
            IN  IF log[e].kind = "opened"
                THEN /\ rows[id].collateral
                     /\ Closings(handled, id) # {} => rows[id].status = "closed"
                     /\ Closings(DOMAIN log, id) \cup Liquidations(DOMAIN log, id) = {}
                            => rows[id].status = "open"
                ELSE inserted[e] > 0

\* models.go on the status of a position: "open", "closed", "liquidated".  A position
\* whose liquidation was handled is shown liquidated.
LiquidationShown ==
    UpToDate =>
        \A e \in handled :
            log[e].kind = "liquidated" => rows[log[e].position].status = "liquidated"

\* Every event of a closed ledger is handled some time, unless left out by an
\* answer at its limit.
EventuallyHandled ==
    \A e \in Events :
        (e \in DOMAIN log /\ log[e].ledger <= latestLedger)
            ~> (e \in handled \cup cutOff)
===============================================================================
