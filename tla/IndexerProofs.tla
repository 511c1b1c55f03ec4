----------------------------- MODULE IndexerProofs -----------------------------
(***************************************************************************)
(* The cursor of the indexer passes no event over, and the tables follow   *)
(* the events, for any number of positions, events, ledgers and crashes.   *)
(***************************************************************************)
EXTENDS Indexer, WellFoundedInduction, TLAPS

-------------------------------------------------------------------------------
\* The cursor.

\* Ledgers: the next event is of a ledger the indexer cannot have been told of.
InOrder ==
    /\ log \in Seq([kind : Kinds, position : Positions, ledger : Nat \ {0}])
    /\ latestLedger \in Nat
    /\ cursor \in 0 .. latestLedger
    /\ answered \in 0 .. latestLedger
    /\ stage = "waiting" => answered = 0

\* What the answer covers is handled, cut off or still to be handled.
AnswerCovers ==
    \A e \in DOMAIN log : log[e].ledger <= answered => e \in handled \cup cutOff \cup page

CursorInvariant == InOrder /\ NothingSkipped /\ AnswerCovers

LEMMA LedgerTyped ==
    ASSUME InOrder, NEW e \in DOMAIN log
    PROVE  log[e].ledger \in Nat \ {0}
<1>. DEFINE T == [kind : Kinds, position : Positions, ledger : Nat \ {0}]
<1>1. log \in Seq(T) BY DEF InOrder
<1>2. log[e] \in T
    <2>. HIDE DEF T
    <2>1. QED BY <1>1
<1>3. QED BY <1>2

LEMMA CursorInvariantInit == IndexerInit => CursorInvariant
BY DEF IndexerInit, CursorInvariant, InOrder, NothingSkipped, AnswerCovers

\* A step that changes neither the chain nor the cursor nor the answer, and after
\* which no event is less done than before.
LEMMA LessToDo ==
    ASSUME CursorInvariant, UNCHANGED <<chainVars, cursor, answered, cutOff>>,
           stage' # "waiting", handled \subseteq handled',
           handled \cup page \subseteq handled' \cup page'
    PROVE  CursorInvariant'
<1>1. UNCHANGED <<log, latestLedger>> BY DEF chainVars
<1>2. InOrder' BY <1>1 DEF CursorInvariant, InOrder
<1>3. NothingSkipped' BY <1>1 DEF CursorInvariant, NothingSkipped
<1>4. AnswerCovers' BY <1>1 DEF CursorInvariant, AnswerCovers
<1>5. QED BY <1>2, <1>3, <1>4 DEF CursorInvariant

LEMMA EmitKeepsCursor ==
    ASSUME CursorInvariant, NEW kind \in Kinds, NEW id \in Positions, Emit(kind, id)
    PROVE  CursorInvariant'
<1>. DEFINE event == [kind |-> kind, position |-> id, ledger |-> latestLedger + 1]
<1>1. latestLedger \in Nat /\ cursor <= latestLedger /\ answered <= latestLedger
    BY DEF CursorInvariant, InOrder
<1>2. event \in [kind : Kinds, position : Positions, ledger : Nat \ {0}] BY <1>1
<1>3. log \in Seq([kind : Kinds, position : Positions, ledger : Nat \ {0}])
    BY DEF CursorInvariant, InOrder
<1>4. log' = Append(log, event) BY DEF Emit
<1>5. UNCHANGED <<latestLedger, cursor, page, answered, handled, cutOff, stage>>
    BY DEF Emit
<1>6. /\ log' \in Seq([kind : Kinds, position : Positions, ledger : Nat \ {0}])
      /\ DOMAIN log' = DOMAIN log \cup {Len(log) + 1}
      /\ \A e \in DOMAIN log : log'[e] = log[e]
      /\ log'[Len(log) + 1] = event
    <2>. HIDE DEF event
    <2>1. QED BY <1>2, <1>3, <1>4
<1>7. log'[Len(log) + 1].ledger = latestLedger + 1 BY <1>6
<1>8. InOrder' BY <1>5, <1>6 DEF CursorInvariant, InOrder
<1>. HIDE DEF event
<1>9. \A e \in DOMAIN log' : \A ledger \in 0 .. latestLedger :
          log'[e].ledger <= ledger => e \in DOMAIN log /\ log'[e] = log[e]
    BY <1>1, <1>6, <1>7
<1>10. NothingSkipped'
    BY <1>5, <1>9 DEF CursorInvariant, InOrder, NothingSkipped
<1>11. AnswerCovers' BY <1>5, <1>9 DEF CursorInvariant, InOrder, AnswerCovers
<1>12. QED BY <1>8, <1>10, <1>11 DEF CursorInvariant

LEMMA FetchKeepsCursor ==
    ASSUME CursorInvariant, NEW latest \in 1 .. latestLedger, Fetch(latest)
    PROVE  CursorInvariant'
<1>1. /\ page' = Page(latest) /\ answered' = latest
      /\ cutOff' = cutOff \cup (Due(latest) \ Page(latest))
      /\ stage' = "handling"
      /\ UNCHANGED <<log, latestLedger, cursor, handled>>
    BY DEF Fetch, chainVars
<1>2. InOrder' BY <1>1 DEF CursorInvariant, InOrder
<1>3. NothingSkipped' BY <1>1 DEF CursorInvariant, NothingSkipped
<1>4. AnswerCovers'
    <2>1. SUFFICES ASSUME NEW e \in DOMAIN log, log[e].ledger <= latest
                   PROVE  e \in handled \cup cutOff' \cup Page(latest)
        BY <1>1 DEF AnswerCovers
    <2>2. CASE cursor <= log[e].ledger
        <3>1. e \in Due(latest) BY <2>1, <2>2 DEF Due
        <3>2. QED BY <1>1, <3>1
    <2>3. CASE log[e].ledger <= cursor
        <3>1. e \in handled \cup cutOff BY <2>3 DEF CursorInvariant, NothingSkipped
        <3>2. QED BY <1>1, <3>1
    <2>4. log[e].ledger \in Nat /\ cursor \in Nat
        BY LedgerTyped DEF CursorInvariant, InOrder
    <2>5. QED BY <2>2, <2>3, <2>4
<1>5. QED BY <1>2, <1>3, <1>4 DEF CursorInvariant

\* The round is over: with the page empty, all up to the answer is done.
LEMMA SaveKeepsCursor ==
    ASSUME CursorInvariant, SaveCursor \/ SaveFails
    PROVE  CursorInvariant'
<1>1. /\ page = {} /\ stage' = "waiting" /\ answered' = 0
      /\ cursor' = cursor \/ cursor' = answered
      /\ UNCHANGED <<log, latestLedger, page, handled, cutOff>>
    BY DEF SaveCursor, SaveFails, chainVars
<1>2. InOrder' BY <1>1 DEF CursorInvariant, InOrder
<1>3. NothingSkipped' BY <1>1 DEF CursorInvariant, NothingSkipped, AnswerCovers
<1>4. \A e \in DOMAIN log : ~(log[e].ledger <= 0) BY LedgerTyped DEF CursorInvariant
<1>5. AnswerCovers' BY <1>1, <1>4 DEF AnswerCovers
<1>6. QED BY <1>2, <1>3, <1>5 DEF CursorInvariant

LEMMA CrashKeepsCursor ==
    ASSUME CursorInvariant, Crash
    PROVE  CursorInvariant'
<1>1. /\ stage' = "waiting" /\ answered' = 0
      /\ UNCHANGED <<log, latestLedger, cursor, handled, cutOff>>
    BY DEF Crash, chainVars
<1>2. InOrder' BY <1>1 DEF CursorInvariant, InOrder
<1>3. NothingSkipped' BY <1>1 DEF CursorInvariant, NothingSkipped
<1>4. \A e \in DOMAIN log : ~(log[e].ledger <= 0) BY LedgerTyped DEF CursorInvariant
<1>5. AnswerCovers' BY <1>1, <1>4 DEF AnswerCovers
<1>6. QED BY <1>2, <1>3, <1>5 DEF CursorInvariant

LEMMA IndexerKeepsCursor == CursorInvariant /\ [IndexerNext]_indexerVars => CursorInvariant'
<1>1. SUFFICES ASSUME CursorInvariant, [IndexerNext]_indexerVars PROVE CursorInvariant'
    OBVIOUS
<1>2. CASE \E kind \in Kinds, id \in Positions : Emit(kind, id)
    BY <1>1, <1>2, EmitKeepsCursor
<1>3. CASE CloseLedger
    <2>1. /\ latestLedger' = latestLedger + 1
          /\ UNCHANGED <<log, cursor, answered, stage, page, handled, cutOff>>
        BY <1>3 DEF CloseLedger
    <2>2. InOrder' BY <1>1, <2>1 DEF CursorInvariant, InOrder
    <2>3. NothingSkipped' BY <1>1, <2>1 DEF CursorInvariant, NothingSkipped
    <2>4. AnswerCovers' BY <1>1, <2>1 DEF CursorInvariant, AnswerCovers
    <2>5. QED BY <2>2, <2>3, <2>4 DEF CursorInvariant
<1>4. CASE \E latest \in 1 .. latestLedger : Fetch(latest)
    BY <1>1, <1>4, FetchKeepsCursor
<1>5. HandledFirst => CursorInvariant'
    <2>1. SUFFICES ASSUME HandledFirst PROVE CursorInvariant' OBVIOUS
    <2>2. /\ UNCHANGED <<chainVars, cursor, answered, cutOff>> /\ stage' # "waiting"
          /\ page' = page \ {First(page)} /\ handled' = handled \cup {First(page)}
        BY <2>1 DEF HandledFirst
    <2>3. QED BY <1>1, <2>2, LessToDo
<1>6. CASE Handle
    <2>1. CASE ProcessPositionClosed
        <3>1. /\ UNCHANGED <<chainVars, cursor, answered, cutOff>> /\ stage' # "waiting"
              /\ page' = page /\ handled' = handled
            BY <2>1 DEF ProcessPositionClosed
        <3>2. QED BY <1>1, <3>1, LessToDo
    <2>2. CASE ProcessPositionOpened BY <1>5, <2>2 DEF ProcessPositionOpened
    <2>3. CASE RecordTrade BY <1>5, <2>3 DEF RecordTrade
    <2>4. CASE ProcessOther BY <1>5, <2>4 DEF ProcessOther
    <2>5. QED BY <1>6, <2>1, <2>2, <2>3, <2>4 DEF Handle
<1>7. CASE WriteFails BY <1>5, <1>7 DEF WriteFails
<1>8. CASE SaveCursor \/ SaveFails BY <1>1, <1>8, SaveKeepsCursor
<1>9. CASE Crash BY <1>1, <1>9, CrashKeepsCursor
<1>10. CASE UNCHANGED indexerVars
    <2>1. UNCHANGED <<log, latestLedger, cursor, answered, stage, page, handled, cutOff>>
        BY <1>10 DEF indexerVars, chainVars
    <2>2. InOrder' BY <1>1, <2>1 DEF CursorInvariant, InOrder
    <2>3. NothingSkipped' BY <1>1, <2>1 DEF CursorInvariant, NothingSkipped
    <2>4. AnswerCovers' BY <1>1, <2>1 DEF CursorInvariant, AnswerCovers
    <2>5. QED BY <2>2, <2>3, <2>4 DEF CursorInvariant
<1>11. QED
    BY <1>1, <1>2, <1>3, <1>4, <1>6, <1>7, <1>8, <1>9, <1>10
    DEF IndexerNext, ChainStep, IndexerStep

\* However many events, ledgers, crashes, failures and lagging answers: an event
\* of a ledger the saved cursor has reached was handled, unless an answer was at
\* its limit (index, SetCursor).
THEOREM CursorSkipsNothing == IndexerSpec => []NothingSkipped
<1>1. CursorInvariant => NothingSkipped BY DEF CursorInvariant
<1>2. QED BY <1>1, CursorInvariantInit, IndexerKeepsCursor, PTL DEF IndexerSpec

-------------------------------------------------------------------------------
\* Types.

\* A set of naturals that is not empty has a first element.
LEMMA FirstIsLeast ==
    ASSUME NEW S, S \subseteq Nat, S # {}
    PROVE  First(S) \in S /\ \A e \in S : First(S) <= e
<1>1. \E x \in S : \A y \in S : <<y, x>> \notin OpToRel(<, Nat)
    BY WFMin, NatLessThanWellFounded, Zenon
<1>2. \E x \in S : \A y \in S : x <= y
    <2>1. PICK x \in S : \A y \in S : <<y, x>> \notin OpToRel(<, Nat) BY <1>1
    <2>2. \A y \in S : ~(y < x) BY <2>1, Zenon DEF OpToRel
    <2>3. QED BY <2>2
<1>3. QED BY <1>2, Zenon DEF First

\* The event at hand is one of the page.
LEMMA FirstOfPage ==
    ASSUME IndexerTypeOK, page # {}
    PROVE  First(page) \in page /\ \A e \in page : First(page) <= e
<1>1. DOMAIN log \subseteq Nat BY DEF IndexerTypeOK
<1>2. page \subseteq Nat BY <1>1 DEF IndexerTypeOK
<1>3. QED BY <1>2, FirstIsLeast

Event == [kind : Kinds, position : Positions, ledger : 1 .. MaxLedger]

\* What a handler writes is of the tables' types.
LEMMA WritesTyped ==
    ASSUME IndexerAssumption, IndexerTypeOK, page # {}
    PROVE  /\ First(page) \in DOMAIN log
           /\ First(page) \in Events
           /\ log[First(page)] \in Event
           /\ \A status \in {"open", "closed"}, collateral \in BOOLEAN :
                 Upsert(log[First(page)].position, status, collateral) =>
                    rows' \in [Positions -> [status : {"none", "open", "closed"},
                                            collateral : BOOLEAN]]
           /\ Insert(First(page)) => inserted' \in [Events -> 0 .. 2]
<1>1. First(page) \in DOMAIN log BY FirstOfPage DEF IndexerTypeOK
<1>2. log \in Seq(Event) /\ Len(log) <= MaxEvents BY DEF IndexerTypeOK, Event
<1>3. First(page) \in Events
    <2>1. DOMAIN log = 1 .. Len(log) /\ Len(log) \in Nat BY <1>2
    <2>2. QED BY <1>1, <1>2, <2>1, IndexerAssumption DEF Events
<1>4. log[First(page)] \in Event BY <1>1, <1>2
<1>5. log[First(page)].position \in Positions BY <1>4 DEF Event
<1>6. rows \in [Positions -> [status : {"none", "open", "closed"}, collateral : BOOLEAN]]
    BY DEF IndexerTypeOK
<1>7. inserted \in [Events -> 0 .. 2] BY DEF IndexerTypeOK
<1>8. ASSUME NEW status \in {"open", "closed"}, NEW collateral \in BOOLEAN,
             Upsert(log[First(page)].position, status, collateral)
      PROVE  rows' \in [Positions -> [status : {"none", "open", "closed"},
                                      collateral : BOOLEAN]]
    BY <1>5, <1>6, <1>8 DEF Upsert
<1>9. Insert(First(page)) => inserted' \in [Events -> 0 .. 2]
    BY <1>3, <1>7 DEF Insert
<1>10. QED BY <1>1, <1>3, <1>4, <1>8, <1>9

LEMMA IndexerTypeInit == IndexerAssumption /\ IndexerInit => IndexerTypeOK
<1>1. SUFFICES ASSUME IndexerAssumption, IndexerInit PROVE IndexerTypeOK OBVIOUS
<1>2. log \in Seq(Event) /\ Len(log) = 0 BY <1>1 DEF IndexerInit
<1>3. rows \in [Positions -> [status : {"none", "open", "closed"}, collateral : BOOLEAN]]
    BY <1>1 DEF IndexerInit, NoRow
<1>4. inserted \in [Events -> 0 .. 2] BY <1>1 DEF IndexerInit
<1>5. Len(log) <= MaxEvents BY <1>1, <1>2 DEF IndexerAssumption
<1>6. /\ latestLedger \in 0 .. MaxLedger /\ cursor \in 0 .. latestLedger
      /\ answered \in 0 .. latestLedger /\ crashes \in 0 .. MaxCrashes
    BY <1>1 DEF IndexerInit, IndexerAssumption
<1>7. /\ stage = "waiting" /\ page = {} /\ handled = {} /\ cutOff = {} /\ failed = {}
      /\ stale = FALSE
    BY <1>1 DEF IndexerInit
<1>8. QED BY <1>2, <1>3, <1>4, <1>5, <1>6, <1>7 DEF IndexerTypeOK, Event

\* The bookkeeping of an event handled, in whatever way.
LEMMA HandledTyped ==
    ASSUME IndexerAssumption, IndexerTypeOK, page # {}, HandledFirst,
           rows' \in [Positions -> [status : {"none", "open", "closed"}, collateral : BOOLEAN]],
           inserted' \in [Events -> 0 .. 2],
           failed' = failed \/ failed' = failed \cup {First(page)}
    PROVE  IndexerTypeOK'
<1>1. First(page) \in DOMAIN log BY WritesTyped
<1>2. /\ page' = page \ {First(page)} /\ handled' = handled \cup {First(page)}
      /\ stage' = "handling"
      /\ UNCHANGED <<log, latestLedger, cursor, answered, cutOff, stale, crashes>>
    BY DEF HandledFirst, chainVars
<1>3. QED BY <1>1, <1>2 DEF IndexerTypeOK

LEMMA IndexerTypeKept ==
    ASSUME IndexerAssumption, IndexerTypeOK, [IndexerNext]_indexerVars
    PROVE  IndexerTypeOK'
<1>1. ASSUME NEW kind \in Kinds, NEW id \in Positions, Emit(kind, id)
      PROVE  IndexerTypeOK'
    <2>. DEFINE event == [kind |-> kind, position |-> id, ledger |-> latestLedger + 1]
    <2>1. event \in Event
        BY <1>1, IndexerAssumption DEF Emit, IndexerTypeOK, Event
    <2>2. log \in Seq(Event) /\ Len(log) < MaxEvents BY <1>1 DEF Emit, IndexerTypeOK, Event
    <2>3. log' = Append(log, event) BY <1>1 DEF Emit
    <2>. HIDE DEF event
    <2>4. log' \in Seq(Event) /\ Len(log') <= MaxEvents /\ DOMAIN log \subseteq DOMAIN log'
        BY <2>1, <2>2, <2>3, IndexerAssumption
    <2>5. UNCHANGED <<latestLedger, cursor, rows, inserted, stage, page, answered, handled,
                      cutOff, failed, stale, crashes>>
        BY <1>1 DEF Emit, tableVars
    <2>6. QED BY <2>4, <2>5 DEF IndexerTypeOK, Event
<1>2. CASE CloseLedger
    <2>1. latestLedger < MaxLedger /\ latestLedger' = latestLedger + 1
          /\ UNCHANGED <<log, cursor, rows, inserted, stage, page, answered, handled,
                         cutOff, failed, stale, crashes>>
        BY <1>2 DEF CloseLedger, tableVars
    <2>2. QED BY <2>1, IndexerAssumption DEF IndexerTypeOK
<1>3. ASSUME NEW latest \in 1 .. latestLedger, Fetch(latest) PROVE IndexerTypeOK'
    <2>1. /\ page' = Page(latest) /\ answered' = latest /\ stage' = "handling"
          /\ cutOff' = cutOff \cup (Due(latest) \ Page(latest))
          /\ UNCHANGED <<log, latestLedger, cursor, rows, inserted, handled, failed, stale,
                         crashes>>
        BY <1>3 DEF Fetch, tableVars, chainVars
    <2>2. Page(latest) \subseteq DOMAIN log /\ Due(latest) \subseteq DOMAIN log
        BY DEF Page, Due
    <2>3. QED BY <2>1, <2>2 DEF IndexerTypeOK
<1>4. CASE ProcessPositionOpened
    <2>1. page # {} BY <1>4 DEF ProcessPositionOpened, AtHand
    <2>2. rows' \in [Positions -> [status : {"none", "open", "closed"}, collateral : BOOLEAN]]
        BY <1>4, <2>1, WritesTyped DEF ProcessPositionOpened
    <2>3. inserted' \in [Events -> 0 .. 2] /\ failed' = failed
        BY <1>4 DEF ProcessPositionOpened, IndexerTypeOK
    <2>4. QED BY <1>4, <2>1, <2>2, <2>3, HandledTyped DEF ProcessPositionOpened
<1>5. CASE ProcessPositionClosed
    <2>1. page # {} BY <1>5 DEF ProcessPositionClosed, AtHand
    <2>2. rows' \in [Positions -> [status : {"none", "open", "closed"}, collateral : BOOLEAN]]
        BY <1>5, <2>1, WritesTyped DEF ProcessPositionClosed
    <2>3. stage' = "inserting"
          /\ UNCHANGED <<log, latestLedger, cursor, inserted, page, answered, handled,
                         cutOff, failed, stale, crashes>>
        BY <1>5 DEF ProcessPositionClosed, chainVars
    <2>4. QED BY <2>1, <2>2, <2>3 DEF IndexerTypeOK
<1>6. CASE RecordTrade
    <2>1. page # {} BY <1>6 DEF RecordTrade, IndexerTypeOK
    <2>2. inserted' \in [Events -> 0 .. 2] BY <1>6, <2>1, WritesTyped DEF RecordTrade
    <2>3. rows' \in [Positions -> [status : {"none", "open", "closed"}, collateral : BOOLEAN]]
          /\ failed' = failed
        BY <1>6 DEF RecordTrade, IndexerTypeOK
    <2>4. QED BY <1>6, <2>1, <2>2, <2>3, HandledTyped DEF RecordTrade
<1>7. CASE ProcessOther
    <2>1. page # {} BY <1>7 DEF ProcessOther, AtHand
    <2>2. inserted' \in [Events -> 0 .. 2] BY <1>7, <2>1, WritesTyped DEF ProcessOther
    <2>3. rows' \in [Positions -> [status : {"none", "open", "closed"}, collateral : BOOLEAN]]
          /\ failed' = failed
        BY <1>7 DEF ProcessOther, IndexerTypeOK
    <2>4. QED BY <1>7, <2>1, <2>2, <2>3, HandledTyped DEF ProcessOther
<1>8. CASE WriteFails
    <2>1. /\ page # {} /\ HandledFirst /\ failed' = failed \cup {First(page)}
          /\ UNCHANGED <<rows, inserted>>
        BY <1>8 DEF WriteFails, tableVars
    <2>2. rows' \in [Positions -> [status : {"none", "open", "closed"}, collateral : BOOLEAN]]
          /\ inserted' \in [Events -> 0 .. 2]
        BY <2>1 DEF IndexerTypeOK
    <2>3. QED BY <2>1, <2>2, HandledTyped
<1>9. CASE SaveCursor \/ SaveFails
    <2>1. /\ page = {} /\ stage' = "waiting" /\ answered' = 0 /\ stale' = Uncovered
          /\ cursor' = cursor \/ cursor' = answered
          /\ UNCHANGED <<log, latestLedger, rows, inserted, page, handled, cutOff, failed,
                         crashes>>
        BY <1>9 DEF SaveCursor, SaveFails, tableVars, chainVars
    <2>2. Uncovered \in BOOLEAN BY DEF Uncovered
    <2>3. QED BY <2>1, <2>2 DEF IndexerTypeOK
<1>10. CASE Crash
    <2>1. /\ crashes < MaxCrashes /\ crashes' = crashes + 1
          /\ stage' = "waiting" /\ page' = {} /\ answered' = 0
          /\ stale' = (stale \/ stage # "waiting")
          /\ UNCHANGED <<log, latestLedger, cursor, rows, inserted, handled, cutOff, failed>>
        BY <1>10 DEF Crash, tableVars, chainVars
    <2>2. stale' \in BOOLEAN BY <2>1
    <2>3. QED BY <2>1, <2>2, IndexerAssumption DEF IndexerTypeOK
<1>11. CASE UNCHANGED indexerVars
    BY <1>11 DEF indexerVars, tableVars, chainVars, IndexerTypeOK
<1>12. QED
    BY <1>1, <1>2, <1>3, <1>4, <1>5, <1>6, <1>7, <1>8, <1>9, <1>10, <1>11
    DEF IndexerNext, ChainStep, IndexerStep, Handle

\* The tables, the cursor and the round stay well-formed: no row of an unknown
\* status, no cursor ahead of the chain, no answer to events that are not there
\* (store.go, index).
THEOREM IndexerTypeCorrect == IndexerSpec => []IndexerTypeOK
BY IndexerAssumption, IndexerTypeInit, IndexerTypeKept, PTL DEF IndexerSpec

-------------------------------------------------------------------------------
\* The tables.

\* The events are in the order of their ledgers, and the next one belongs to the
\* ledger about to close.
LedgersOrdered ==
    /\ \A d, e \in DOMAIN log : d <= e => log[d].ledger <= log[e].ledger
    /\ \A e \in DOMAIN log : log[e].ledger <= latestLedger + 1

\* A position is opened once and before it is closed.
OpenedFirst ==
    /\ \A o, e \in DOMAIN log :
          /\ log[o].kind = "opened"
          /\ log[e].kind \in {"opened", "closed"}
          /\ log[o].position = log[e].position
          => o <= e
    /\ \A c \in DOMAIN log :
          log[c].kind = "closed" => Openings(DOMAIN log, log[c].position) # {}

ChainOrdered == LedgersOrdered /\ OpenedFirst

\* No write has failed and no answer has left events out.
Clean == failed = {} /\ cutOff = {}

\* The events this round has handled.
Done == Due(answered) \ page

\* What was handled is a beginning of the log, the page an end of what is due.
InRound ==
    /\ \A e \in handled, d \in DOMAIN log : d < e => d \in handled
    /\ page \subseteq Due(answered)
    /\ \A e \in page, d \in Due(answered) : d > e => d \in page

\* There is a row once the opening was handled, and that is where it is from.
RowsOfOpenings ==
    \A id \in Positions :
        /\ rows[id] = NoRow <=> Openings(handled, id) = {}
        /\ rows[id] # NoRow => rows[id].collateral

\* Nothing but a close shows a position closed.
OpenUntilClosed ==
    \A id \in Positions :
        Closings(DOMAIN log, id) = {} /\ rows[id] # NoRow => rows[id].status = "open"

\* A closing that was handled shows, unless its opening was handled again after it:
\* it does when the cursor has passed it, when this round has handled it, and when
\* the last round left it so and this one has not come to the opening.
ClosingsShow ==
    \A id \in Positions : \A c \in Closings(handled, id) :
        \/ log[c].ledger < cursor
        \/ c \in Done
        \/ ~stale /\ Openings(Done, id) = {}
        => rows[id].status = "closed"

\* Between the two writes of a close.
HalfClosed ==
    stage = "inserting" =>
        /\ log[First(page)].kind = "closed"
        /\ rows[log[First(page)].position].status = "closed"

\* Every event that inserts a row has inserted one.
RowsInserted == \A e \in handled : log[e].kind # "opened" => inserted[e] > 0

TablesFollow ==
    RowsOfOpenings /\ OpenUntilClosed /\ ClosingsShow /\ HalfClosed /\ RowsInserted

IndexerInv ==
    /\ IndexerTypeOK
    /\ CursorInvariant
    /\ ChainOrdered
    /\ Clean => InRound /\ TablesFollow

LEMMA EventTyped ==
    ASSUME IndexerTypeOK, NEW e \in DOMAIN log
    PROVE  /\ e \in Nat
           /\ log[e].kind \in Kinds
           /\ log[e].position \in Positions
           /\ log[e].ledger \in Nat \ {0}
<1>1. log \in Seq(Event) BY DEF IndexerTypeOK, Event
<1>2. log[e] \in Event /\ e \in Nat BY <1>1
<1>3. MaxLedger \in Nat BY IndexerAssumption
<1>4. QED BY <1>2, <1>3 DEF Event

\* What Emit appends.
LEMMA EmittedEvent ==
    ASSUME IndexerTypeOK, NEW kind \in Kinds, NEW id \in Positions, Emit(kind, id)
    PROVE  /\ DOMAIN log' = DOMAIN log \cup {Len(log) + 1}
           /\ \A e \in DOMAIN log : e < Len(log) + 1 /\ log'[e] = log[e]
           /\ log'[Len(log) + 1] = [kind |-> kind, position |-> id, ledger |-> latestLedger + 1]
<1>. DEFINE event == [kind |-> kind, position |-> id, ledger |-> latestLedger + 1]
<1>1. event \in Event BY IndexerAssumption DEF Emit, IndexerTypeOK, Event
<1>2. log \in Seq(Event) BY DEF IndexerTypeOK, Event
<1>3. log' = Append(log, event) BY DEF Emit
<1>. HIDE DEF event
<1>4. /\ DOMAIN log' = DOMAIN log \cup {Len(log) + 1}
      /\ \A e \in DOMAIN log : e < Len(log) + 1 /\ log'[e] = log[e]
      /\ log'[Len(log) + 1] = event
    BY <1>1, <1>2, <1>3
<1>5. QED BY <1>4 DEF event

LEMMA ChainKept ==
    ASSUME IndexerTypeOK, ChainOrdered, [IndexerNext]_indexerVars
    PROVE  ChainOrdered'
<1>1. ASSUME NEW kind \in Kinds, NEW id \in Positions, Emit(kind, id)
      PROVE  ChainOrdered'
    <2>. DEFINE new == Len(log) + 1
    <2>1. /\ DOMAIN log' = DOMAIN log \cup {new}
          /\ \A e \in DOMAIN log : e < new /\ log'[e] = log[e]
          /\ log'[new].kind = kind /\ log'[new].position = id
          /\ log'[new].ledger = latestLedger + 1
        <3>1. /\ DOMAIN log' = DOMAIN log \cup {new}
              /\ \A e \in DOMAIN log : e < new /\ log'[e] = log[e]
              /\ log'[new] = [kind |-> kind, position |-> id, ledger |-> latestLedger + 1]
            BY <1>1, EmittedEvent
        <3>. HIDE DEF new
        <3>2. QED BY <3>1
    <2>2. latestLedger \in Nat /\ latestLedger' = latestLedger /\ new \in Nat
        BY <1>1, IndexerAssumption DEF Emit, IndexerTypeOK
    <2>3. \A e \in DOMAIN log : e \in Nat /\ log[e].ledger \in Nat
        BY EventTyped
    <2>. HIDE DEF new
    <2>4. LedgersOrdered' BY <2>1, <2>2, <2>3 DEF ChainOrdered, LedgersOrdered
    <2>5. MayHappen(kind, id) BY <1>1 DEF Emit
    <2>6. ASSUME NEW o \in DOMAIN log', NEW e \in DOMAIN log', log'[o].kind = "opened",
                 log'[e].kind \in {"opened", "closed"}, log'[o].position = log'[e].position
          PROVE  o <= e
        <3>1. CASE o \in DOMAIN log /\ e \in DOMAIN log
            BY <2>1, <2>6, <3>1 DEF ChainOrdered, OpenedFirst
        <3>2. CASE o \in DOMAIN log /\ e = new BY <2>1, <2>2, <2>3, <3>2
        <3>3. CASE o = new /\ e \in DOMAIN log
            \* What is opened now was neither opened before nor closed.
            <4>1. kind = "opened" /\ ~Happened("opened", id)
                BY <2>1, <2>5, <2>6, <3>3 DEF MayHappen
            <4>2. log[e].position = id /\ log[e].kind \in {"opened", "closed"}
                BY <2>1, <2>6, <3>3
            <4>3. log[e].kind = "closed" BY <3>3, <4>1, <4>2 DEF Happened
            <4>4. Openings(DOMAIN log, id) # {}
                BY <3>3, <4>2, <4>3 DEF ChainOrdered, OpenedFirst
            <4>5. QED BY <4>1, <4>4 DEF Openings, Happened
        <3>4. CASE o = new /\ e = new BY <2>2, <3>4
        <3>5. QED BY <2>1, <3>1, <3>2, <3>3, <3>4
    <2>7. ASSUME NEW c \in DOMAIN log', log'[c].kind = "closed"
          PROVE  \E o \in DOMAIN log' :
                    log'[o].kind = "opened" /\ log'[o].position = log'[c].position
        <3>1. Openings(DOMAIN log, log'[c].position) # {}
            <4>1. CASE c \in DOMAIN log
                BY <2>1, <2>7, <4>1 DEF ChainOrdered, OpenedFirst
            <4>2. CASE c = new
                <5>1. Happened("opened", id) BY <2>1, <2>5, <2>7, <4>2 DEF MayHappen
                <5>2. QED BY <2>1, <4>2, <5>1 DEF Happened, Openings
            <4>3. QED BY <2>1, <4>1, <4>2
        <3>2. QED BY <2>1, <3>1 DEF Openings
    <2>8. OpenedFirst' BY <2>6, <2>7 DEF OpenedFirst, Openings
    <2>9. QED BY <2>4, <2>8 DEF ChainOrdered
<1>2. CASE CloseLedger
    <2>1. /\ log' = log /\ latestLedger' = latestLedger + 1 /\ latestLedger \in Nat
        BY <1>2, IndexerAssumption DEF CloseLedger, IndexerTypeOK
    <2>2. \A e \in DOMAIN log : log[e].ledger \in Nat BY EventTyped
    <2>3. QED BY <2>1, <2>2 DEF ChainOrdered, LedgersOrdered, OpenedFirst, Openings
<1>3. CASE UNCHANGED chainVars
    BY <1>3 DEF chainVars, ChainOrdered, LedgersOrdered, OpenedFirst, Openings
<1>4. IndexerStep \/ Crash \/ UNCHANGED indexerVars => UNCHANGED chainVars
    BY DEF IndexerStep, Handle, Fetch, ProcessPositionOpened, ProcessPositionClosed,
           RecordTrade, ProcessOther, HandledFirst, WriteFails, SaveCursor, SaveFails,
           Crash, indexerVars
<1>5. QED BY <1>1, <1>2, <1>3, <1>4 DEF IndexerNext, ChainStep

\* The event at hand: all before it was handled, what this round handled is before
\* it, and it is due.
LEMMA AtHandFacts ==
    ASSUME IndexerInv, Clean, page # {}
    PROVE  /\ First(page) \in DOMAIN log /\ First(page) \in Due(answered)
           /\ First(page) \in page /\ \A e \in page : First(page) <= e
           /\ \A d \in DOMAIN log : d < First(page) => d \in handled
           /\ \A d \in Done : d < First(page)
           /\ \A d \in DOMAIN log : First(page) <= d => cursor <= log[d].ledger
<1>. DEFINE f == First(page)
<1>1. f \in page /\ \A e \in page : f <= e BY FirstOfPage DEF IndexerInv
<1>2. f \in Due(answered) /\ f \in DOMAIN log BY <1>1 DEF IndexerInv, InRound, Due
<1>3. \A d \in DOMAIN log : d \in Nat /\ log[d].ledger \in Nat
    BY EventTyped DEF IndexerInv
<1>4. cursor \in Nat /\ answered \in Nat BY DEF IndexerInv, CursorInvariant, InOrder
<1>. HIDE DEF f
<1>5. ASSUME NEW d \in DOMAIN log, d < f PROVE d \in handled
    <2>1. log[d].ledger <= log[f].ledger
        BY <1>2, <1>3, <1>5 DEF IndexerInv, ChainOrdered, LedgersOrdered
    <2>2. log[d].ledger <= answered BY <1>2, <1>3, <1>4, <2>1 DEF Due
    <2>3. d \in handled \cup page
        BY <2>2 DEF IndexerInv, CursorInvariant, AnswerCovers, Clean
    <2>4. d \notin page BY <1>1, <1>2, <1>3, <1>5
    <2>5. QED BY <2>3, <2>4
<1>6. ASSUME NEW d \in Done PROVE d < f
    <2>1. d \in DOMAIN log /\ d \notin page /\ d \in Due(answered) BY DEF Done, Due
    <2>2. ~(d > f) BY <1>1, <2>1 DEF IndexerInv, InRound
    <2>3. QED BY <1>1, <1>2, <1>3, <2>1, <2>2
<1>7. ASSUME NEW d \in DOMAIN log, f <= d PROVE cursor <= log[d].ledger
    <2>1. log[f].ledger <= log[d].ledger
        BY <1>2, <1>7 DEF IndexerInv, ChainOrdered, LedgersOrdered
    <2>2. QED BY <1>2, <1>3, <1>4, <2>1 DEF Due
<1>8. QED BY <1>1, <1>2, <1>5, <1>6, <1>7 DEF f

\* What handling it does to the round.
LEMMA RoundGoesOn ==
    ASSUME IndexerInv, Clean, page # {}, HandledFirst
    PROVE  /\ InRound'
           /\ Done' = Done \cup {First(page)}
           /\ handled' = handled \cup {First(page)}
           /\ stage' = "handling"
           /\ UNCHANGED <<log, cursor, stale>>
<1>1. /\ page' = page \ {First(page)} /\ handled' = handled \cup {First(page)}
      /\ stage' = "handling"
      /\ UNCHANGED <<log, cursor, answered, stale>>
    BY DEF HandledFirst, chainVars
<1>2. Due(answered)' = Due(answered) BY <1>1 DEF Due
<1>3. InRound /\ \A d \in DOMAIN log : d \in Nat
    BY EventTyped DEF IndexerInv
<1>4. page \subseteq Due(answered) /\ Due(answered) \subseteq DOMAIN log
    BY <1>3 DEF InRound, Due
<1>5. \A e \in handled', d \in DOMAIN log' : d < e => d \in handled'
    BY <1>1, <1>3, AtHandFacts DEF InRound
<1>6. page' \subseteq Due(answered)' BY <1>1, <1>2, <1>4
<1>7. \A e \in page', d \in Due(answered)' : d > e => d \in page'
    BY <1>1, <1>2, <1>3, <1>4, AtHandFacts DEF InRound
<1>8. InRound' BY <1>5, <1>6, <1>7 DEF InRound
<1>9. Done' = Done \cup {First(page)} BY <1>1, <1>2, AtHandFacts DEF Done
<1>10. QED BY <1>1, <1>8, <1>9

\* A position whose closing comes next has a row.
LEMMA ClosingHasRow ==
    ASSUME IndexerInv, Clean, page # {}, log[First(page)].kind = "closed"
    PROVE  rows[log[First(page)].position] # NoRow
<1>. DEFINE id == log[First(page)].position
<1>1. First(page) \in DOMAIN log BY AtHandFacts
<1>2. id \in Positions BY <1>1, EventTyped DEF IndexerInv
<1>3. PICK o \in DOMAIN log : log[o].kind = "opened" /\ log[o].position = id
    BY <1>1 DEF IndexerInv, ChainOrdered, OpenedFirst, Openings
<1>4. o <= First(page) BY <1>1, <1>3 DEF IndexerInv, ChainOrdered, OpenedFirst
<1>5. o # First(page) BY <1>3
<1>6. o \in Nat /\ First(page) \in Nat BY <1>1, <1>3, EventTyped DEF IndexerInv
<1>7. o < First(page) BY <1>4, <1>5, <1>6
<1>8. o \in handled BY <1>3, <1>7, AtHandFacts
<1>. HIDE DEF id
<1>9. Openings(handled, id) # {} BY <1>3, <1>8 DEF Openings
<1>10. rows[id] # NoRow BY <1>2, <1>9 DEF IndexerInv, TablesFollow, RowsOfOpenings
<1>11. QED BY <1>10 DEF id

\* An opening: its row shows open, and no closing of it was handled in this round
\* or passed by the cursor, for the closing comes after it.
LEMMA TablesAfterOpened ==
    ASSUME IndexerInv, Clean, ProcessPositionOpened
    PROVE  InRound' /\ TablesFollow'
<1>. DEFINE f == First(page)
           id == log[f].position
<1>1. /\ page # {} /\ HandledFirst /\ log[f].kind = "opened"
      /\ inserted' = inserted
      /\ rows' = [rows EXCEPT ![id] =
                     IF @ = NoRow THEN [status |-> "open", collateral |-> TRUE]
                     ELSE [@ EXCEPT !.status = "open"]]
    BY DEF ProcessPositionOpened, AtHand, Upsert
<1>2. /\ InRound' /\ Done' = Done \cup {f} /\ handled' = handled \cup {f}
      /\ stage' = "handling" /\ UNCHANGED <<log, cursor, stale>>
    BY <1>1, RoundGoesOn
<1>3. f \in DOMAIN log /\ id \in Positions
    BY <1>1, AtHandFacts, EventTyped DEF IndexerInv
<1>4. /\ rows \in [Positions -> [status : {"none", "open", "closed"}, collateral : BOOLEAN]]
      /\ handled \subseteq DOMAIN log
    BY DEF IndexerInv, IndexerTypeOK
<1>5. TablesFollow BY DEF IndexerInv
<1>. HIDE DEF f, id
<1>6. /\ rows'[id].status = "open" /\ rows'[id].collateral /\ rows'[id] # NoRow
      /\ \A other \in Positions \ {id} : rows'[other] = rows[other]
    BY <1>1, <1>3, <1>4, <1>5 DEF NoRow, TablesFollow, RowsOfOpenings
<1>7. RowsOfOpenings'
    <2>1. SUFFICES ASSUME NEW other \in Positions
                   PROVE  /\ rows'[other] = NoRow <=> Openings(handled, other)' = {}
                          /\ rows'[other] # NoRow => rows'[other].collateral
        BY DEF RowsOfOpenings
    <2>2. CASE other = id
        <3>1. Openings(handled, other)' # {}
            BY <1>1, <1>2, <1>3, <2>2 DEF Openings, id
        <3>2. QED BY <1>6, <2>2, <3>1
    <2>3. CASE other # id
        <3>1. Openings(handled, other)' = Openings(handled, other)
            BY <1>2, <2>3 DEF Openings, id
        <3>2. QED BY <1>5, <1>6, <2>3, <3>1 DEF TablesFollow, RowsOfOpenings
    <2>4. QED BY <2>2, <2>3
<1>8. OpenUntilClosed'
    BY <1>2, <1>5, <1>6 DEF TablesFollow, OpenUntilClosed, Closings
<1>9. ClosingsShow'
    <2>1. SUFFICES ASSUME NEW other \in Positions, NEW c \in Closings(handled, other)',
                          \/ log[c].ledger < cursor
                          \/ c \in Done'
                          \/ ~stale /\ Openings(Done, other)' = {}
                   PROVE  rows'[other].status = "closed"
        BY <1>2 DEF ClosingsShow
    <2>2. c \in handled /\ c \in DOMAIN log /\ c \in Closings(handled, other)
          /\ log[c].kind = "closed" /\ log[c].position = other
        BY <1>1, <1>2, <1>4, <2>1 DEF Closings
    <2>3. CASE other = id
        <3>1. f <= c
            BY <1>1, <1>3, <2>2, <2>3 DEF IndexerInv, ChainOrdered, OpenedFirst, id
        <3>2. f \in Nat /\ c \in Nat /\ cursor \in Nat /\ log[c].ledger \in Nat
            BY <1>3, <2>2, EventTyped DEF IndexerInv, CursorInvariant, InOrder
        <3>3. ~(log[c].ledger < cursor)
            BY <1>1, <2>2, <3>1, <3>2, AtHandFacts DEF f
        <3>4. c \notin Done'
            BY <1>1, <1>2, <2>2, <3>1, <3>2, AtHandFacts DEF f
        <3>5. f \in Openings(Done, other)'
            BY <1>1, <1>2, <1>3, <2>3 DEF Openings, id
        <3>6. QED BY <2>1, <3>3, <3>4, <3>5
    <2>4. CASE other # id
        <3>1. Openings(Done, other)' = Openings(Done, other)
            BY <1>2, <2>4 DEF Openings, id
        <3>2. c \in Done' => c \in Done BY <1>1, <1>2, <2>2
        <3>3. QED BY <1>2, <1>5, <1>6, <2>1, <2>2, <2>4, <3>1, <3>2
                  DEF TablesFollow, ClosingsShow
    <2>5. QED BY <2>3, <2>4
<1>10. HalfClosed' BY <1>2 DEF HalfClosed
<1>11. RowsInserted' BY <1>1, <1>2, <1>5 DEF TablesFollow, RowsInserted
<1>12. QED BY <1>2, <1>7, <1>8, <1>9, <1>10, <1>11 DEF TablesFollow

\* The first write of a close: the row shows closed, and the round has not moved.
LEMMA TablesAfterClosed ==
    ASSUME IndexerInv, Clean, ProcessPositionClosed
    PROVE  InRound' /\ TablesFollow'
<1>. DEFINE f == First(page)
           id == log[f].position
<1>1. /\ page # {} /\ log[f].kind = "closed"
      /\ rows' = [rows EXCEPT ![id] =
                     IF @ = NoRow THEN [status |-> "closed", collateral |-> FALSE]
                     ELSE [@ EXCEPT !.status = "closed"]]
      /\ UNCHANGED <<log, cursor, inserted, page, answered, handled, stale>>
    BY DEF ProcessPositionClosed, AtHand, Upsert, chainVars
<1>2. f \in DOMAIN log /\ id \in Positions
    BY <1>1, AtHandFacts, EventTyped DEF IndexerInv
<1>3. rows \in [Positions -> [status : {"none", "open", "closed"}, collateral : BOOLEAN]]
    BY DEF IndexerInv, IndexerTypeOK
<1>4. rows[id] # NoRow /\ rows[id].collateral
    BY <1>1, <1>2, ClosingHasRow DEF IndexerInv, TablesFollow, RowsOfOpenings
<1>5. TablesFollow /\ InRound BY DEF IndexerInv
<1>6. Due(answered)' = Due(answered) /\ Done' = Done BY <1>1 DEF Done, Due
<1>7. \A other \in Positions : /\ Openings(Done, other)' = Openings(Done, other)
                              /\ Closings(handled, other)' = Closings(handled, other)
                              /\ Openings(handled, other)' = Openings(handled, other)
    BY <1>1, <1>6 DEF Openings, Closings
<1>8. f \in Closings(DOMAIN log, id) BY <1>1, <1>2 DEF Closings
<1>9. log'[First(page')] = log[f] BY <1>1
<1>. HIDE DEF f, id
<1>10. /\ rows'[id].status = "closed" /\ rows'[id].collateral /\ rows'[id] # NoRow
       /\ \A other \in Positions \ {id} : rows'[other] = rows[other]
    BY <1>1, <1>2, <1>3, <1>4 DEF NoRow
<1>11. InRound' BY <1>1, <1>5, <1>6 DEF InRound
<1>12. RowsOfOpenings' BY <1>4, <1>5, <1>7, <1>10, <1>2 DEF TablesFollow, RowsOfOpenings
<1>13. OpenUntilClosed'
    BY <1>1, <1>5, <1>8, <1>10 DEF TablesFollow, OpenUntilClosed, Closings
<1>14. ClosingsShow'
    BY <1>1, <1>5, <1>6, <1>7, <1>10 DEF TablesFollow, ClosingsShow
<1>15. HalfClosed' BY <1>1, <1>9, <1>10 DEF HalfClosed, id
<1>16. RowsInserted' BY <1>1, <1>5 DEF TablesFollow, RowsInserted
<1>17. QED BY <1>11, <1>12, <1>13, <1>14, <1>15, <1>16 DEF TablesFollow

\* A row inserted for the event at hand, by the second write of a close or by a
\* liquidation or a funding.
LEMMA TablesAfterInsert ==
    ASSUME IndexerInv, Clean, RecordTrade \/ ProcessOther
    PROVE  InRound' /\ TablesFollow'
<1>. DEFINE f == First(page)
           id == log[f].position
<1>1. /\ page # {} /\ HandledFirst /\ Insert(f) /\ rows' = rows
      /\ log[f].kind # "opened"
      /\ log[f].kind = "closed" => rows[id].status = "closed"
    <2>1. CASE RecordTrade
        BY <2>1 DEF RecordTrade, IndexerInv, IndexerTypeOK, TablesFollow, HalfClosed
    <2>2. CASE ProcessOther
        BY <2>2 DEF ProcessOther, AtHand
    <2>3. QED BY <2>1, <2>2
<1>2. /\ InRound' /\ Done' = Done \cup {f} /\ handled' = handled \cup {f}
      /\ stage' = "handling" /\ UNCHANGED <<log, cursor, stale>>
    BY <1>1, RoundGoesOn
<1>3. f \in Events /\ inserted \in [Events -> 0 .. 2] /\ handled \subseteq Events
    <2>1. f \in Events BY <1>1, WritesTyped, IndexerAssumption DEF IndexerInv
    <2>2. DOMAIN log \subseteq Events
        <3>1. log \in Seq(Event) /\ Len(log) <= MaxEvents
            BY DEF IndexerInv, IndexerTypeOK, Event
        <3>2. DOMAIN log = 1 .. Len(log) /\ Len(log) \in Nat BY <3>1
        <3>3. QED BY <3>1, <3>2, IndexerAssumption DEF Events
    <2>3. QED BY <2>1, <2>2 DEF IndexerInv, IndexerTypeOK
<1>4. TablesFollow BY DEF IndexerInv
<1>. HIDE DEF f
<1>5. inserted'[f] > 0 /\ \A e \in Events \ {f} : inserted'[e] = inserted[e]
    BY <1>1, <1>3 DEF Insert
<1>6. \A other \in Positions : /\ Openings(handled, other)' = Openings(handled, other)
                               /\ Openings(Done, other)' = Openings(Done, other)
    BY <1>1, <1>2 DEF Openings
<1>7. RowsOfOpenings' BY <1>1, <1>4, <1>6 DEF TablesFollow, RowsOfOpenings
<1>8. OpenUntilClosed' BY <1>1, <1>2, <1>4 DEF TablesFollow, OpenUntilClosed, Closings
<1>9. ClosingsShow'
    <2>1. SUFFICES ASSUME NEW other \in Positions, NEW c \in Closings(handled, other)',
                          \/ log[c].ledger < cursor
                          \/ c \in Done'
                          \/ ~stale /\ Openings(Done, other)' = {}
                   PROVE  rows[other].status = "closed"
        BY <1>1, <1>2 DEF ClosingsShow
    <2>2. CASE c = f BY <1>1, <1>2, <2>1, <2>2 DEF Closings
    <2>3. CASE c # f
        <3>1. c \in Closings(handled, other) BY <1>2, <2>1, <2>3 DEF Closings
        <3>2. QED BY <1>2, <1>4, <1>6, <2>1, <2>3, <3>1 DEF TablesFollow, ClosingsShow
    <2>4. QED BY <2>2, <2>3
<1>10. HalfClosed' BY <1>2 DEF HalfClosed
<1>11. RowsInserted' BY <1>2, <1>3, <1>4, <1>5 DEF TablesFollow, RowsInserted
<1>12. QED BY <1>2, <1>7, <1>8, <1>9, <1>10, <1>11 DEF TablesFollow

\* A step that leaves the round and the tables alone; the log may grow by an event
\* that no answer has covered yet.
LEMMA TablesUntouched ==
    ASSUME IndexerInv, Clean,
           UNCHANGED <<cursor, rows, inserted, stage, page, answered, handled, stale>>,
           DOMAIN log \subseteq DOMAIN log',
           \A e \in DOMAIN log : log'[e] = log[e],
           \A e \in DOMAIN log' \ DOMAIN log :
               /\ \A d \in DOMAIN log : d < e
               /\ ~(log'[e].ledger <= answered)
    PROVE  InRound' /\ TablesFollow'
<1>1. /\ handled \subseteq DOMAIN log /\ page \subseteq DOMAIN log
      /\ stage = "inserting" => page # {}
    BY DEF IndexerInv, IndexerTypeOK
<1>2. InRound /\ TablesFollow BY DEF IndexerInv
<1>3. Due(answered)' = Due(answered) BY DEF Due
<1>4. Done' = Done /\ Done \subseteq DOMAIN log BY <1>3 DEF Done, Due
<1>5. \A other \in Positions : /\ Openings(Done, other)' = Openings(Done, other)
                               /\ Closings(handled, other)' = Closings(handled, other)
                               /\ Openings(handled, other)' = Openings(handled, other)
                               /\ Closings(DOMAIN log, other)
                                      \subseteq Closings(DOMAIN log, other)'
    BY <1>1, <1>4 DEF Openings, Closings
<1>6. InRound'
    <2>1. ASSUME NEW e \in handled, NEW d \in DOMAIN log', d < e PROVE d \in handled
        <3>1. e \in DOMAIN log BY <1>1, <2>1
        <3>2. d \in DOMAIN log
            <4>1. SUFFICES ASSUME d \notin DOMAIN log PROVE FALSE OBVIOUS
            <4>2. e < d BY <3>1, <4>1
            <4>3. e \in Nat BY <3>1, EventTyped DEF IndexerInv
            <4>4. d \in Nat BY DEF IndexerInv, CursorInvariant, InOrder
            <4>5. QED BY <2>1, <4>2, <4>3, <4>4
        <3>3. QED BY <1>2, <2>1, <3>2 DEF InRound
    <2>2. QED BY <1>2, <1>3, <2>1 DEF InRound
<1>7. RowsOfOpenings' BY <1>2, <1>5 DEF TablesFollow, RowsOfOpenings
<1>8. OpenUntilClosed' BY <1>2, <1>5 DEF TablesFollow, OpenUntilClosed
<1>9. ClosingsShow'
    <2>1. \A other \in Positions : Closings(handled, other) \subseteq DOMAIN log
        BY <1>1 DEF Closings
    <2>2. QED BY <1>2, <1>4, <1>5, <2>1 DEF TablesFollow, ClosingsShow
<1>10. HalfClosed'
    <2>1. SUFFICES ASSUME stage = "inserting"
                   PROVE  /\ log'[First(page)].kind = "closed"
                          /\ rows[log'[First(page)].position].status = "closed"
        BY DEF HalfClosed
    <2>2. First(page) \in DOMAIN log BY <1>1, <2>1, AtHandFacts
    <2>3. QED BY <1>2, <2>1, <2>2 DEF TablesFollow, HalfClosed
<1>11. RowsInserted' BY <1>1, <1>2 DEF TablesFollow, RowsInserted
<1>12. QED BY <1>6, <1>7, <1>8, <1>9, <1>10, <1>11 DEF TablesFollow

\* A round begins with all that is due, as none of it was left out.
LEMMA TablesAfterFetch ==
    ASSUME IndexerInv, Clean, Clean', NEW latest \in 1 .. latestLedger, Fetch(latest)
    PROVE  InRound' /\ TablesFollow'
<1>1. /\ stage = "waiting" /\ stage' = "handling" /\ page' = Page(latest)
      /\ answered' = latest /\ cutOff' = cutOff \cup (Due(latest) \ Page(latest))
      /\ UNCHANGED <<log, cursor, rows, inserted, handled, stale>>
    BY DEF Fetch, chainVars, tableVars
<1>2. Page(latest) = Due(latest)
    <2>1. Page(latest) \subseteq Due(latest) BY DEF Page
    <2>2. Due(latest) \subseteq Page(latest) BY <1>1 DEF Clean
    <2>3. QED BY <2>1, <2>2
<1>3. Due(answered)' = page'
    <2>1. Due(answered)' = Due(latest) BY <1>1 DEF Due
    <2>2. QED BY <1>1, <1>2, <2>1
<1>4. InRound /\ TablesFollow BY DEF IndexerInv
<1>5. InRound' BY <1>1, <1>3, <1>4 DEF InRound
<1>6. Done' = {} BY <1>3 DEF Done
<1>7. \A other \in Positions : Openings(Done, other) = {}
    <2>1. answered = 0 /\ \A e \in DOMAIN log : log[e].ledger \in Nat \ {0}
        BY <1>1, EventTyped DEF IndexerInv, CursorInvariant, InOrder
    <2>2. Due(answered) = {} BY <2>1 DEF Due
    <2>3. QED BY <2>2 DEF Done, Openings
<1>8. \A other \in Positions : /\ Closings(handled, other)' = Closings(handled, other)
                               /\ Openings(handled, other)' = Openings(handled, other)
                               /\ Closings(DOMAIN log, other)' = Closings(DOMAIN log, other)
    BY <1>1 DEF Openings, Closings
<1>9. RowsOfOpenings' BY <1>1, <1>4, <1>8 DEF TablesFollow, RowsOfOpenings
<1>10. OpenUntilClosed' BY <1>1, <1>4, <1>8 DEF TablesFollow, OpenUntilClosed
<1>11. ClosingsShow'
    BY <1>1, <1>4, <1>6, <1>7, <1>8 DEF TablesFollow, ClosingsShow
<1>12. HalfClosed' BY <1>1 DEF HalfClosed
<1>13. RowsInserted' BY <1>1, <1>4 DEF TablesFollow, RowsInserted
<1>14. QED BY <1>5, <1>9, <1>10, <1>11, <1>12, <1>13 DEF TablesFollow

\* The end of a round, saved or not, and a crash: what shows a closing afterwards
\* showed it before.
LEMMA TablesAfterRound ==
    ASSUME IndexerInv, Clean, SaveCursor \/ SaveFails \/ Crash
    PROVE  InRound' /\ TablesFollow'
<1>1. /\ stage' = "waiting" /\ page' = {} /\ answered' = 0
      /\ UNCHANGED <<log, rows, inserted, handled>>
    BY DEF SaveCursor, SaveFails, Crash, chainVars, tableVars
<1>2. InRound /\ TablesFollow BY DEF IndexerInv
<1>3. \A e \in DOMAIN log : log[e].ledger \in Nat \ {0}
    BY EventTyped DEF IndexerInv
<1>4. /\ cursor \in Nat /\ answered \in Nat /\ handled \subseteq DOMAIN log
      /\ stage = "waiting" => answered = 0
    BY DEF IndexerInv, IndexerTypeOK, CursorInvariant, InOrder
<1>5. Due(answered)' = {} BY <1>1, <1>3 DEF Due
<1>6. Done' = {} BY <1>5 DEF Done
<1>7. InRound' BY <1>1, <1>2, <1>5 DEF InRound
<1>8. \A other \in Positions : /\ Closings(handled, other)' = Closings(handled, other)
                               /\ Openings(handled, other)' = Openings(handled, other)
                               /\ Closings(DOMAIN log, other)' = Closings(DOMAIN log, other)
    BY <1>1 DEF Openings, Closings
<1>9. RowsOfOpenings' BY <1>1, <1>2, <1>8 DEF TablesFollow, RowsOfOpenings
<1>10. OpenUntilClosed' BY <1>1, <1>2, <1>8 DEF TablesFollow, OpenUntilClosed
<1>11. ClosingsShow'
    <2>1. SUFFICES ASSUME NEW other \in Positions, NEW c \in Closings(handled, other),
                          log[c].ledger < cursor' \/ ~stale'
                   PROVE  rows[other].status = "closed"
        BY <1>1, <1>6, <1>8 DEF ClosingsShow
    <2>2. c \in handled /\ c \in DOMAIN log BY <1>4, <2>1 DEF Closings
    <2>3. CASE Crash
        <3>1. cursor' = cursor /\ stale' = (stale \/ stage # "waiting") BY <2>3 DEF Crash
        <3>2. CASE stage = "waiting"
            <4>1. Due(answered) = {} BY <1>3, <1>4, <3>2 DEF Due
            <4>2. Openings(Done, other) = {} BY <4>1 DEF Done, Openings
            <4>3. log[c].ledger < cursor \/ ~stale BY <2>1, <3>1, <3>2
            <4>4. QED BY <1>2, <2>1, <4>2, <4>3 DEF TablesFollow, ClosingsShow
        <3>3. CASE stage # "waiting"
            <4>1. log[c].ledger < cursor BY <2>1, <3>1, <3>3
            <4>2. QED BY <1>2, <2>1, <4>1 DEF TablesFollow, ClosingsShow
        <3>4. QED BY <3>2, <3>3
    <2>4. CASE SaveCursor \/ SaveFails
        <3>1. /\ page = {} /\ stale' = Uncovered
              /\ cursor' = cursor \/ cursor' = answered
            BY <2>4 DEF SaveCursor, SaveFails
        <3>2. log[c].ledger < cursor \/ log[c].ledger <= answered
            BY <1>3, <1>4, <2>1, <2>2, <3>1 DEF Uncovered
        <3>3. CASE log[c].ledger < cursor
            BY <1>2, <2>1, <3>3 DEF TablesFollow, ClosingsShow
        <3>4. CASE cursor <= log[c].ledger /\ log[c].ledger <= answered
            <4>1. c \in Done BY <2>2, <3>1, <3>4 DEF Done, Due
            <4>2. QED BY <1>2, <2>1, <4>1 DEF TablesFollow, ClosingsShow
        <3>5. QED BY <1>3, <1>4, <2>2, <3>2, <3>3, <3>4
    <2>5. QED BY <2>3, <2>4
<1>12. HalfClosed' BY <1>1 DEF HalfClosed
<1>13. RowsInserted' BY <1>1, <1>2 DEF TablesFollow, RowsInserted
<1>14. QED BY <1>7, <1>9, <1>10, <1>11, <1>12, <1>13 DEF TablesFollow

LEMMA IndexerInvInit == IndexerInit => IndexerInv
<1>1. SUFFICES ASSUME IndexerInit PROVE IndexerInv OBVIOUS
<1>2. IndexerTypeOK /\ CursorInvariant
    BY <1>1, IndexerAssumption, IndexerTypeInit, CursorInvariantInit
<1>3. /\ DOMAIN log = {} /\ handled = {} /\ page = {} /\ stage = "waiting"
      /\ rows = [id \in Positions |-> NoRow]
    BY <1>1 DEF IndexerInit
<1>4. ChainOrdered BY <1>3 DEF ChainOrdered, LedgersOrdered, OpenedFirst
<1>5. InRound BY <1>3 DEF InRound
<1>6. TablesFollow
    BY <1>3 DEF TablesFollow, RowsOfOpenings, OpenUntilClosed, ClosingsShow, HalfClosed,
                RowsInserted, Openings, Closings
<1>7. QED BY <1>2, <1>4, <1>5, <1>6 DEF IndexerInv

LEMMA IndexerInvKept == IndexerInv /\ [IndexerNext]_indexerVars => IndexerInv'
<1>1. SUFFICES ASSUME IndexerInv, [IndexerNext]_indexerVars PROVE IndexerInv' OBVIOUS
<1>2. IndexerTypeOK' /\ CursorInvariant' /\ ChainOrdered'
    BY <1>1, IndexerAssumption, IndexerTypeKept, IndexerKeepsCursor, ChainKept DEF IndexerInv
\* Nothing takes back a failure or a cut.
<1>3. SUFFICES ASSUME Clean' PROVE InRound' /\ TablesFollow'
    BY <1>2 DEF IndexerInv
<1>4. ASSUME NEW kind \in Kinds, NEW id \in Positions, Emit(kind, id)
      PROVE  InRound' /\ TablesFollow'
    <2>1. /\ DOMAIN log' = DOMAIN log \cup {Len(log) + 1}
          /\ \A e \in DOMAIN log : e < Len(log) + 1 /\ log'[e] = log[e]
          /\ log'[Len(log) + 1] = [kind |-> kind, position |-> id, ledger |-> latestLedger + 1]
        BY <1>1, <1>4, EmittedEvent DEF IndexerInv
    <2>2. Clean /\ UNCHANGED <<cursor, rows, inserted, stage, page, answered, handled, stale>>
        BY <1>3, <1>4 DEF Emit, tableVars, Clean
    <2>3. log'[Len(log) + 1].ledger = latestLedger + 1 BY <2>1
    <2>4. ~(latestLedger + 1 <= answered)
        BY <1>1 DEF IndexerInv, CursorInvariant, InOrder
    <2>5. \A e \in DOMAIN log' \ DOMAIN log :
              (\A d \in DOMAIN log : d < e) /\ ~(log'[e].ledger <= answered)
        BY <2>1, <2>3, <2>4
    <2>6. QED BY <1>1, <2>1, <2>2, <2>5, TablesUntouched
<1>5. ASSUME UNCHANGED <<log, cursor, rows, inserted, stage, page, answered, handled, cutOff,
                         failed, stale>>
      PROVE  InRound' /\ TablesFollow'
    <2>1. Clean BY <1>3, <1>5 DEF Clean
    <2>2. QED BY <1>1, <1>5, <2>1, TablesUntouched
<1>6. CASE CloseLedger \/ UNCHANGED indexerVars
    <2>1. UNCHANGED <<log, cursor, rows, inserted, stage, page, answered, handled, cutOff,
                      failed, stale>>
        BY <1>6 DEF CloseLedger, indexerVars, chainVars, tableVars
    <2>2. QED BY <1>5, <2>1
<1>7. ASSUME NEW latest \in 1 .. latestLedger, Fetch(latest)
      PROVE  InRound' /\ TablesFollow'
    <2>1. Clean BY <1>3, <1>7 DEF Fetch, Clean
    <2>2. QED BY <1>1, <1>3, <1>7, <2>1, TablesAfterFetch
<1>8. CASE ProcessPositionOpened
    <2>1. Clean BY <1>3, <1>8 DEF ProcessPositionOpened, HandledFirst, Clean
    <2>2. QED BY <1>1, <1>8, <2>1, TablesAfterOpened
<1>9. CASE ProcessPositionClosed
    <2>1. Clean BY <1>3, <1>9 DEF ProcessPositionClosed, Clean
    <2>2. QED BY <1>1, <1>9, <2>1, TablesAfterClosed
<1>10. CASE RecordTrade \/ ProcessOther
    <2>1. Clean BY <1>3, <1>10 DEF RecordTrade, ProcessOther, HandledFirst, Clean
    <2>2. QED BY <1>1, <1>10, <2>1, TablesAfterInsert
<1>11. CASE WriteFails BY <1>3, <1>11 DEF WriteFails, Clean
<1>12. CASE SaveCursor \/ SaveFails \/ Crash
    <2>1. Clean BY <1>3, <1>12 DEF SaveCursor, SaveFails, Crash, Clean
    <2>2. QED BY <1>1, <1>12, <2>1, TablesAfterRound
<1>13. QED
    BY <1>1, <1>4, <1>6, <1>7, <1>8, <1>9, <1>10, <1>11, <1>12
    DEF IndexerNext, ChainStep, IndexerStep, Handle

LEMMA IndexerInvariant == IndexerSpec => []IndexerInv
BY IndexerInvInit, IndexerInvKept, PTL DEF IndexerSpec

\* The handlers are not idempotent, and an opening handled again reopens a row; yet
\* whenever a round has gone through all that was handled before, the tables tell of
\* openings and closings as they happened, after any number of crashes, repetitions
\* and lagging answers, as long as no write failed and no answer was cut off
\* (ProcessPositionOpened, ProcessPositionClosed, UpsertPosition).
THEOREM TablesTellTheTruth == IndexerSpec => []TablesTell
<1>1. ASSUME IndexerInv, UpToDate, NEW e \in handled
      PROVE  LET id == log[e].position
             IN  IF log[e].kind = "opened"
                 THEN /\ rows[id].collateral
                      /\ Closings(handled, id) # {} => rows[id].status = "closed"
                      /\ Closings(DOMAIN log, id) \cup Liquidations(DOMAIN log, id) = {}
                            => rows[id].status = "open"
                 ELSE inserted[e] > 0
    <2>. DEFINE id == log[e].position
    <2>1. InRound /\ TablesFollow BY <1>1 DEF IndexerInv, Clean, UpToDate
    <2>2. e \in DOMAIN log /\ id \in Positions
        BY <1>1, EventTyped DEF IndexerInv, IndexerTypeOK
    <2>3. Openings(Done, id) = {}
        <3>1. answered = 0 /\ \A d \in DOMAIN log : log[d].ledger \in Nat \ {0}
            BY <1>1, EventTyped DEF IndexerInv, CursorInvariant, InOrder, UpToDate
        <3>2. Due(answered) = {} BY <3>1 DEF Due
        <3>3. QED BY <3>2 DEF Done, Openings
    <2>4. log[e].kind = "opened" => rows[id] # NoRow
        BY <2>1, <2>2 DEF TablesFollow, RowsOfOpenings, Openings
    <2>5. Closings(handled, id) # {} => rows[id].status = "closed"
        BY <1>1, <2>1, <2>2, <2>3 DEF TablesFollow, ClosingsShow, UpToDate
    <2>. HIDE DEF id
    <2>6. CASE log[e].kind = "opened"
        <3>1. rows[id].collateral BY <2>1, <2>2, <2>4, <2>6 DEF TablesFollow, RowsOfOpenings
        <3>2. Closings(DOMAIN log, id) \cup Liquidations(DOMAIN log, id) = {}
                  => rows[id].status = "open"
            BY <2>1, <2>2, <2>4, <2>6 DEF TablesFollow, OpenUntilClosed
        <3>3. QED BY <2>5, <2>6, <3>1, <3>2 DEF id
    <2>7. CASE log[e].kind # "opened"
        BY <1>1, <2>1, <2>7 DEF TablesFollow, RowsInserted
    <2>8. QED BY <2>6, <2>7
<1>2. IndexerInv => TablesTell BY <1>1 DEF TablesTell
<1>3. QED BY <1>2, IndexerInvariant, PTL
===============================================================================
