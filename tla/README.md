# SoroPerps in TLA+

A model of the SoroPerps perpetual-futures protocol (`contracts/` in Rust for Soroban,
`keeper/` in Go), its TLC runs and the theorems proved about it with TLAPS.

## The system

| Component | State it keeps | Operations that change state | What makes it correct |
|---|---|---|---|
| vault (`contracts/vault`) | admin, utilization cap, registered position manager, total shares, total deposits (the pool's equity), locked liquidity, shares per account; USDC in the token contract | `initialize`, `set_position_manager`, `set_max_utilization`, `deposit`, `withdraw`; for the position manager only: `lock_liquidity`, `unlock_liquidity`, `settle_pnl`, `close_position_settlement`, `collect_fee` | shares add up, nobody is diluted, the equity covers what is locked, the tokens held are the equity and the collateral |
| oracle adapter (`contracts/oracle-adapter`) | admin, staleness threshold, one price per asset in temporary storage | `initialize`, `set_staleness_threshold`, `set_price`; the ledger drops an entry at the end of its life | a recent price is served, an old one is not |
| position manager (`contracts/position-manager`) | admin, fees, limits, wired addresses; positions by trader and id, next id, open interest per direction, count per trader | `initialize`, four setters, `open_position`, `close_position`, `liquidate_position` | its books agree with the vault's; every position can end |
| liquidation engine (`contracts/liquidation-engine`) | admin and three rates | `initialize`, three setters, `liquidate` | only unhealthy positions are closed by force, and settle exactly their collateral |
| funding rate (`contracts/funding-rate`) | admin, interval, maximal rate, spread; a cumulative index per direction, the time of the last funding | `initialize`, two setters, `apply_funding` | one funding per interval; receivers get no more than payers give |
| arithmetic (`shares.rs`, `math.rs`), types (`perps-types`) | none | none | rounding never favours the caller |
| deployment (`scripts/deploy.sh`) | none | initializes and wires the contracts | |
| keeper: scanner, liquidator, funder (`keeper/internal/{scanner,liquidator,funder}`) | tracked positions and last ledger, in memory; the pass under way; counters | scan and add or remove positions; check and liquidate each tracked position; trigger funding; one ticker loop each | a tracked position under water gets its liquidation sent; none is forgotten for another reason; funding does not lag |
| indexer and store (`keeper/internal/{indexer,store}`) | the cursor and the tables of an SQLite database | fetch events from the cursor on, handle each, save the cursor | no event is passed over and the tables tell what happened, across crashes |
| API server and hub (`keeper/internal/api`) | the set of WebSocket clients behind a lock, a write lock per connection; how far the process is in its end | register, remove, broadcast; start and shut down | a broadcast reaches the connected clients and ends; the hub keeps and loses none wrongly; an orderly end |
| process mains (`keeper/cmd/{keeper,api}`) | the context, the wait group | start the loops, wait for them, close the database | the process ends, and what is under way is finished first |
| API handlers, RPC client, configuration, setup script | none that matters | I/O | |

How they interact: the position manager calls the oracle (a query) and the vault
(`lock_liquidity`, `collect_fee`, `close_position_settlement`); the liquidation engine
queries the position manager and the oracle and calls `liquidate_position`; the funding
contract queries the open interest. All of a call and the calls it makes is one
transaction: an error anywhere rolls everything back. The keeper's processes reach the
contracts through JSON-RPC only, and learn of them by events.

What is hard here is, inside the contracts, not interleaving but (a) books kept twice, by
two contracts or in two storage entries, and never compared; (b) rounding over long
sequences of calls; (c) calls by several users in any order, with prices moving and the
administrator reconfiguring in between; (d) two clocks, ledgers and seconds, ending a price's life. In the
keeper's processes it is (e) copies of shared lists acted on while the lists change,
(f) requests that fail, nodes that lag behind, lost transactions and answers at their
limit, (g) crashes between the steps of a round whose effects are partly in the
database, (h) a lock held over I/O to a peer that need not answer, and (i) the order in
which a process's parts end. `PROJECT.json` lists each
hazard at its line, with the properties that cover it or the reason why none does.

## Modules

| Module | What it is |
|---|---|
| `PerpsTypes`, `PerpsMath`, `Sums` | shared constants; the contracts' arithmetic, with Rust's truncating division (`Trunc`) and the `u32` cast (`AsU32`); the total of a function into the naturals |
| `Vault` | the vault: one action per entry point. The operations reserved to the position manager constrain only what they write, so that a caller conjoins them |
| `VaultEnv` | the vault under an *arbitrary* position manager: any restricted entry point, any order, any amounts; and traders who transfer collateral to it, which it does not see (`TraderStep`) |
| `OracleAdapter` | prices, their staleness in seconds and the life of their cache entry in ledgers; the ledger's number and timestamp |
| `PositionManager` | extends `Vault` and `OracleAdapter`: `open_position` is one action that conjoins `Transfer`, `LockLiquidity` and `CollectFee` with its own writes, and so for the closes. While another contract is registered with the vault, `OtherManagerStep` is any step `VaultEnv` lets a manager take |
| `LiquidationEngine` | extends `PositionManager`: `liquidate` with the queries it makes |
| `FundingRate` | the funding contract; the open interest and the clock belong to the environment |
| `Perps` | all five contracts; the environment of `FundingRate` is replaced by the real one |
| `PoolLedger` | the abstract specification: wallets, the pool's equity, the open positions |
| `Deployment` | the states of `scripts/deploy.sh` before the position manager's `initialize`, where `position_manager` starts, and at its end, where `fee_inflation` starts |
| `Funder` | extends `FundingRate`: the keeper's funder, the transaction it has under way, and the other callers beside it |
| `Keeper` | the scanner's list, the liquidator's pass over its copy, the three loops and their end, against a chain that changes under them |
| `Indexer` | a round of the indexer, step by step, with the tables and the cursor of the store, the chain's event log and the crashes |
| `ApiServer` | the process of the API: the server's start and shutdown, the indexer's loop beside it, the hub, its clients and the broadcasts under way |
| `MC*` with `*.cfg` | instances for TLC |
| `PerpsMathProofs`, `VaultProofs`, `PositionManagerProofs`, `PerpsProofs`, `FundingProofs`, `KeeperProofs`, `IndexerProofs`, `ApiProofs` | lemmas and theorems |

Correspondence of the contracts. A contract's instance storage is one record variable for
its configuration (`vaultConfig`, `oracleConfig`, `pmConfig`, `leConfig`, `frConfig`) and a
variable for each quantity that moves; a persistent or temporary entry keyed by
an address or an asset is a function. A record's `admin` is `NoAddress` until
`initialize`; reads of absent keys give the defaults of the storage getters. The guard of
an action is the conjunction of the entry point's error checks and of those of its
callees; a call that fails leaves no trace and is no step. `require_auth` of a user is the
choice of the user in the next-state relation; `require_auth` of the administrator is the
guard `admin = config.admin`. Two things are external and modelled from their use: the
USDC token (`usdc`, `Transfer`: traps on a negative amount and on an amount above the
balance) and the ledger (`sequence`, `now`,
`Tick`): a ledger takes some number of seconds out of `LedgerTimes`, so that `extend_ttl`
counts ledgers and the staleness of a price counts seconds, as in the code. The code's
numbers are 100 and 200 ledgers and, by default, 300 seconds: a price is sure to be served
until it is stale if ledgers take 3 seconds or more, which `RecentPriceIsServed` has as its
hypothesis (the threshold is at most `TtlThreshold` times the least of `LedgerTimes`).

The vault's administrator may register another position manager, with positions open, and
register this one again. What the other does is any restricted entry point in any order
(`OtherManagerStep`), and transfers of its traders to the vault; two history variables,
`otherLocked` and `otherHeld`, keep what it locked less what it released, and what it
brought less what it paid out or credited. Transfers to the vault while this manager is
registered, gifts in effect, are left out.

Correspondence of the Go code. A goroutine's program counter is a variable (`stage`,
`server`, `main`, `handler`), and a step ends where another goroutine, the database or the
network can be seen in between: at a lock, a request, a write. In `Keeper`, `openPositions`
is `Scanner.positions` behind its lock, `snapshot` the deep copy `GetOpenPositions` returns,
and `trader`, `rest`, `index` the place in the two nested loops over it; the traders come in
any order because the range is over a map. `checkPosition` is three steps: the question
(`NotLiquidatable`, `Liquidatable`), the transaction (`SendFails`, `Send`) and the removal
(`Forget`), since the scanner may be called between any two of them. In `Indexer`, a round is
`Fetch` (cursor and events), one step per event (two for a close, which writes two tables) and
`SaveCursor`; only `cursor`, `rows` and `inserted` survive `Crash`. In `ApiServer`, `Broadcast`
copies the set in one step; then, for each client of the copy, `BeginWrite` takes the
connection's write lock and `Written` or `WriteFails` gives it back, for as many broadcasts
at the same time as there are `Broadcasts`. `removeClient` is two steps with the hub's lock
held between them: `RemoveClient` takes the lock and removes, `CloseClient` waits for the
write lock, sends the close frame, closes and gives the hub's lock back. A peer may stop
reading (`Stall`), and neither a write nor a close to it need ever return; meanwhile
the hub is closed to everybody. That the write lock is taken and the frame sent in one step loses
nothing, since all that others see of it is that the hub's lock is held. A handshake accepted
before `Shutdown` may reach the hub after it. Pings, and their answers under the
write lock, are left out: a read fails or it does not.
In `Funder`, a tick is due at `nextTick` on a clock that started with the process, not with
the contract.

The decoder of events and the contract wrappers are stubs in the repository
(`processEvent` logs; the wrappers return an error until transactions are encoded). The modules
treat them as external parts: `AddPosition` may be called at any time, the indexer's
`processEvent` calls the handler its comments name (`AtHand`), a wrapper fails or does what its
name says.

Fault model. A request fails, or is answered by a node that lags behind (`latest` below
`latestLedger`), or its answer ends at the limit (`PageLimit`). A transaction is refused, or
sent and executed, or sent and dropped. A write to the database fails. The process of the
indexer crashes between any two steps. A connection ends, its peer stops reading, or a write to it fails, at any
moment. A signal arrives at any moment.

Abstractions: a position is identified by its id alone (ids are never reused) and its
trader is a field; its `leverage`, `funding_index` and `opened_at` are never read and are
left out; events of the contracts appear only in `Indexer`; the lives of instance and
persistent entries (30 and 60 days, and extended by each use) are taken to be endless; the
overflow of `i128` is out of reach of any amount of USDC and left out. A row of the store is
reduced to its status and to whether it has a collateral, and a count of
inserted rows ends at 2, which stands for "again". `Keeper` reduces the contracts to the answer
of `is_liquidatable` for each position, which changes at any time; whether that answer is
justified is a matter of `LiquidationEngine`. The events a scan of the keeper
receives are left out, since they are only logged.

History variables: `uncoveredFees` (what closing fees were credited without being paid),
`owed` (positions a pass still has to ask for), `lostRequests`, `handled`, `cutOff`,
`failed`, `stale`, `crashes`, `due` (clients a broadcast has to write to), `otherLocked` and
`otherHeld`. No guard of the code's actions reads
them; the bound on crashes is one on the environment.

## Runs

| Run | Instance | What it shows |
|---|---|---|
| `vault` | 2 providers with 3 and 2 units, amounts 0..3, caps 0 (refused), 50% and 80%, any manager with amounts 0..2 and profits -1, 2 | `SharesBacked`, `NoDilution`, `WithdrawalKeepsCover` |
| `position_manager` | from the position manager's `initialize` on, vault and oracle being initialized, wired in any order: a provider who also trades and a trader, 2 positions, leverage 2, fees of 10%, prices 3 and 5; another manager may be registered and then lock, release, collect and settle amounts of 20 | `LockedIsOpenNotional`, `OpenInterestExact`, `PositionCountExact`, `Backing`, `ExitOnlyNeedsEquity`, `CoverageKept`; `ImplementsLedger`: `HalfDeployedSpec` implements `PoolLedger` |
| `perps` | all five contracts from before the first `initialize`; a user and a keeper, 2 assets, prices 2 and 3, margin 30% (60% refused), thresholds 0 (refused) and 1, guaranteed life of 1 ledger, extension of 2, ledgers of 1 and 2 seconds, time to 3 | `RecentPriceIsServed`, `OnlyUnhealthyLiquidated`, `LiquidationSettlesCollateral`; `FundingSpec`: the real position manager and clock are an environment `FundingRate` allows |
| `funding` | open interests 0, 1, 1000, 1001, intervals 0 (refused), 2 and 3, caps 3 and 10, spreads 0 and 5; the funder with period 2 and a delay up to 1; time to 8 | `FundingPace`, `FundingIsFunded`, `FundingLag` |
| `keeper` | 2 positions of one trader and 1 of another, lists of up to 2 entries, 2 ledgers; only one position, behind another in its list, is sure to have its requests answered | `PassIsComplete`, `NoneForgotten`, `UnderwaterIsSubmitted`, `KeeperStops` |
| `indexer` | 3 events of a position in 3 ledgers, pages of 2, one crash | `NothingSkipped`, `TablesTell`, `EventuallyHandled` |
| `api` | 1 request, 2 clients, 2 broadcasts | `ClientsAreRead`, `BroadcastReaches`, `EndedClientLeaves`, `BroadcastEnds`, `ApiExits` |

Each run also checks the type invariants of its modules (`VaultTypeOK`, `OracleTypeOK`,
`PmTypeOK`, `LeTypeOK`, `FrTypeOK`, `KeeperTypeOK`, `IndexerTypeOK`, `ApiTypeOK`). The properties:

- `NoDilution`: D'/S' >= D/S, cross-multiplied, over every deposit and withdrawal.
- `WithdrawalKeepsCover` and `CoverageKept`: the notional locked stays within the equity.
  Both are about utilizations (`locked * 10000 / deposits`, as `shares.rs` computes it) below
  2^32 before the cast to `u32`, i.e. any notional up to 429,496 times the equity. The second needs
  also that no price more than doubles between opening and close (the equity may then pay
  out more than the position's notional), a cap below 100% and this manager registered, and
  leaves an opening on an empty pool out, where the code checks nothing.
- `LockedIsOpenNotional`, `Backing`: what is locked is the notional of the open positions;
  tokens held + uncovered fees = equity + posted collateral. Both up to what another
  manager did (`otherLocked`, `otherHeld`), to the last unit.
- `ExitOnlyNeedsEquity`: with no uncovered fee, and nothing taken by another manager, the
  only check of the vault's that can stop an end is the one on the equity.
- `ImplementsLedger`: the refinement mapping takes the users' balances to `wallet`, the total
  deposits to `pool`, the positions to `open` and whether this manager is registered to
  `managed`; shares, lock, open interest,
  counters, oracle life and configuration are hidden.
- `RecentPriceIsServed`: a price that is not stale has not expired either, although its
  entry's life was extended at another time and is counted in ledgers.
- `LiquidationSettlesCollateral`: what a forced close moves is the collateral, all of it,
  between pool and trader. Nothing is left for the keeper; see `keeper_reward` below.
- `FundingPace`: the two indices together gain twice the spread per funding, and at most
  one funding per shortest interval; `FundingIsFunded`: rate times open interest, summed
  over the sides, is never negative.
- `FundingLag`: funding is never overdue by more than one tick of the funder, the delay of its
  transaction, and one tick for each request lost since the last funding. Its tick may
  come just before the interval is over, which costs a period, but only once.
- `PassIsComplete`: a pass asks for every position tracked when it began, although it
  removes entries of the scanner's list while it goes on; `NoneForgotten`: nothing but a
  liquidation sent takes a position off the list.
- `UnderwaterIsSubmitted`: a tracked position that stays under water has its liquidation
  sent, although the requests for every other position may fail for ever.
- `NothingSkipped`: what lies before the cursor was handled, or was cut off by an answer at its
  limit (which the code does lose; the two properties name that exception).
- `TablesTell`: after a round that covered everything handled so far, the tables say what
  happened: a position whose closing was handled is shown closed, one neither closed nor
  liquidated on chain is shown open, and every other event has its row. It is about runs in
  which no write failed and no answer was cut off, since both lose rows for good; and it
  says nothing of the status of a liquidated position (see `liquidated` below). In between rounds they need not: a lagging node delivers an opening
  again without the close that followed, and the row of a closed position is open until the
  next round; `stale` says when that can be. Between "handled" and "on chain" the property
  leaves room, and it must: a close writes two tables, and a crash after the first leaves
  the position closed although its closing is not handled yet, with the cursor already past
  its opening; a round on a lagging node's answer then ends with the row as it is.
- `ClientsAreRead`: every client of the hub has a handler that will remove it;
  `BroadcastReaches`: a broadcast that returns has written to every client of its copy that is
  still in the hub, whatever other broadcasts remove meanwhile.
- `EndedClientLeaves`, `BroadcastEnds`: a client whose connection ended leaves the hub, and a
  broadcast returns, unless some peer has stopped reading: the hub's lock and the
  connections' locks, each taken with the other held, never wait in a circle. The
  exception is the code's, since one such peer may keep the hub's lock taken for ever.
- `ApiExits`, `KeeperStops`: the processes end, whatever peers do.

Bounds. Two accounts and two positions give every pair of roles and directions; amounts are
chosen so that quotients are not whole (3 units against 2, 1001 against 1000) and so that a
loss reaches the cap at the collateral and a closing fee exceeds what is left. The fees
are large (10%) so that they are whole at small sizes. `position_manager` keeps the time
at 0: prices change and are always served; expiry and staleness under positions are in
`perps`. The bounds on counters are `MaxShares`, `MaxDeposits`, `MaxLocked`,
`MaxPositionId`, `MaxTime`, `MaxTracked`, `MaxLedger`, `MaxEvents` and `MaxCrashes`; each is a
guard of the enumerating step or of the environment, never of the code's operation. (`MaxTracked`
is one of `AddPosition`, which is called from outside.) A list of two entries is enough
for a removal to shift the entry that follows, and holds the same position twice; in
`indexer` three ledgers, for a cursor past an opening, the closing after it, and a lagging
answer in between (with two, the half-written close above cannot happen), and three
events, for an opening, its close and one beyond the page; the handlers touch one
position each, so that one is enough there, and `IndexerProofs` is for any number; two clients
for one that fails before one that does not, and two broadcasts for one that finds a
client removed, its connection closed or its lock taken by the other. Clients and broadcasts
are numbered in the order they come, which is no restriction: they are alike.

Fairness. The contracts only react to calls and nothing in them promises that anyone
calls, so their specifications assume none; `FundingLag` is a safety property over a clock
that waits for the tick. The Go processes:

- `KeeperFairness`: weak fairness of the liquidator's step (the ticker goes on and the
  client's timeout ends every request); strong fairness of the answer and of the
  transaction for the positions in `Reachable` (one request now and then gets through)
  and none for the others; strong fairness of a loop's return (a `select` with tick and cancellation
  both ready picks either).
- `IndexerFairness`: weak fairness of the steps of a round, strong fairness of a fetch
  answered by an up-to-date node.
- `ProcessFairness` and `HubFairness`: weak fairness of the goroutines that can go on. A lock
  is obtained by whoever waits for it while it stays free (Go's mutex promises more); a
  write or a close ends unless the peer has stopped reading; nothing is assumed of
  requests and peers.

Deadlock is checked in the contracts' runs, where the clock's end is no stop because
calls go on; `keeper`, `indexer` and `api` do end, and the check is off there.

Five runs end in a violation, each of one sentence of the repository's docs, comments or
tests: `fee_inflation` (equity above the tokens held after a close whose fee is not
covered), `funding_settlement` (no funding at close), `keeper_reward` (a liquidation pays
the keeper nothing, although the doc of `liquidate` says "Pay keeper reward"), `liquidated` (a
liquidated position is shown open, although the model names the status "liquidated") and
`shutdown` (a request cut off by the end of the process although the time granted to it has
not expired). `PROJECT.json` quotes the sentences under `findings`. One more divergence has no
run of its own: while the skew is below the spread `get_current_rate` makes both sides pay,
although its doc says that the dominated side receives (`funding-rate/src/lib.rs:201` against
`:233`); `FundingIsFunded` holds all the same.

## Proofs

TLAPS proves the following for every value of the constants: any finite set of users,
any assets, prices, amounts, leverages, fees, caps, periods and limits, with no bound on the
number of positions or events other than that it is a number. The assumptions are the named
`ASSUME`s of the modules: addresses differ (the vault's is no user's, `NoAddress` is
nobody's), users are finitely many, amounts are integers, rates natural numbers, `U32Range` a
positive number, a ledger takes at least a second, a transaction's delay below the
funder's period, clients and broadcasts are numbers that differ. TLC evaluates each of
them on the instances.

| Module | Results |
|---|---|
| `PerpsMathProofs` | bounds of `Trunc` on either side of zero; what minting and withdrawing return at most; what `SumOver` does when an argument is added, removed or replaced; `RoundTripNoGain` (a deposit withdrawn at once returns no more); `PnlIsZeroSum` (a long's profit is a short's loss) |
| `VaultProofs` | what a transfer, a deposit, a withdrawal or an administrator's call preserves, whoever else calls the vault; over `VaultSpec`: `VaultTypeCorrect`, `SharesAlwaysBacked`, `LpStepsNeverDilute`, `WithdrawalsKeepCover` |
| `PositionManagerProofs` | over `OracleSpec`: `OracleTypeCorrect`, `RecentPricesAreServed`; over `PmSpec`: `PmTypeCorrect`, `LockedIsNotional`, `InterestIsExact`, `CountIsExact`, `VaultIsBacked`, `ExitsNeedOnlyEquity`, `CoverageIsKept`, the refinement `LedgerImplemented`, and the promises of vault and oracle with the real manager as their caller (`SharesBackedUnderTrading`, `NoDilutionUnderTrading`, `CoverUnderTrading`, `PricesServedUnderTrading`); over `DeployedSpec`: `DeploymentIsSound` |
| `PerpsProofs` | over `LeSpec`: `LeTypeCorrect`, `LiquidationsAreJustified`, `LiquidationsSplitCollateral`; `EngineImplementsManager` (`LeSpec => PmSpec`: the engine's calls are calls the manager's specification allows), and by it for the five contracts together `BooksAgreeInPerps` and `PromisesKeptInPerps`; `FundingRefined` (they implement the funding contract's specification) and by it `FundingKeptInPerps` |
| `FundingProofs` | over `FrSpec`: `FrTypeCorrect`, `PaceIsKept`, `FundingAlwaysFunded`; over `FunderSpec`: `FundingNeverLagsBehind` |
| `KeeperProofs` | `RemovalIsExact` (what `RemovePosition` does to a list); over `KeeperSpec`: `KeeperTypeCorrect`, `PassesAreComplete`, `NothingForgotten` |
| `IndexerProofs` | over `IndexerSpec`: `CursorSkipsNothing`, `IndexerTypeCorrect`, `TablesTellTheTruth` |
| `ApiProofs` | over `ApiSpec`: `ApiTypeCorrect`, `HubHasNoOrphans`, `BroadcastsReachAll` |

(The constants of `VaultEnv` are in `PmSpec` the amounts other managers may name; the theorems
hold for all of them.)

*The vault.* The inductive invariant is `VaultInv`, the conjunction of the type
invariant, `SharesBacked` and `EmptyUntilInitialized`. The type alone is not inductive: a
withdrawal burns shares of an account and subtracts them from the total, which stays
natural only because an account holds no more than the total, i.e. by `SharesBacked`.
`initialize` writes zeroes; they change nothing only because no share exists before it,
which is `EmptyUntilInitialized`. `NoDilution` is an action property: it follows from
the bounds of the truncated quotients (`MintBounds`, `WithdrawalBounds`) by
cross-multiplication. `WithdrawalKeepsCover` needs `UtilizationCovers`: a ratio truncated
to basis points below 100% still means the notional is at most the equity, if the `u32`
does not wrap.

*The oracle.* `RecentPriceIsServed` says that a price within a threshold the ledgers guarantee is
still alive. The inductive invariant is `OracleInv`. `LivesLongEnough` is the strengthening: as
many ledgers as the entry's remaining life is short of `TtlThreshold` have closed since
the price was set, and each took its seconds, so the price has aged by that much. It is
kept by `set_price`, in whatever state the entry was, because `extend_ttl` acts exactly
when less than `TtlThreshold` is left, and by a ledger's close because both clocks move.

*The position manager.* The inductive invariant is `PmInv`: `VaultInv`, the oracle's
invariant (an entry that is alive holds a positive price, so `entryPrice` is never zero
and the profit is defined), the type invariant, the four equations between the
books (`LockedIsOpenNotional`, `OpenInterestExact`, `PositionCountExact`, `Backing`), and
that no position exists before `initialize`. No equation is inductive alone: that the
open interest stays natural at a close comes from its being the total of its direction,
and the guarded decrement of the counter is exact because the closing position is among
the trader's. `initialize` resets the open interest, which is sound because there is no
position yet. The lemmas `AddedToBooks` and `RemovedFromBooks` say what an
opening and an end do to every total at once; `OpenPreserves` and `EndPreserves` take one
step per equation; `CalleePreserves` shows that providers' calls move equity and tokens
alike, and that what another manager moves is what `otherLocked` and `otherHeld` record. `ExitOnlyNeedsEquity` follows from `PmInv` without a further induction: one
position's size is at most the total locked and its collateral at most the total
posted.

*The vault under the real manager.* `PmInv` contains `VaultInv`, so `SharesBacked` holds of `PmSpec`
as well. That no step dilutes or withdraws cover follows from the vault's lemmas on the
providers' calls (`LpPreserves`, `BurnKeepsCover`), which do not mention who makes the other
calls, and from `SharesMoveByLpsOnly`: no call of a manager's moves a share. The same
invariant holds of the state `scripts/deploy.sh` leaves (`DeployedInv`: with `EmptyVault` and
`EmptyBooks`, the empty contracts are sound whatever their configuration), so the run
`fee_inflation` starts where everything else holds.

*The refinement of `PoolLedger`* needs more than `PmInv`: the abstract actions choose
the fee and the price from sets, so the values stored must be of these sets
(`ConfiguredValues`). `LedgerInv` is the two together. Then one lemma per abstract action
(`DepositContributes`, `WithdrawRedeems`, `OpenOpens`, `EndEnds`) shows that the concrete
step maps to it, and `StepKeepsPromises` that every other step stutters, or is one of
the abstract `Rewire` and `Interfere` when the registration changes or another manager acts; that the wallets
move as the ledger says is `WalletMoves`.

*Cover.* `CoverageInv` adds that every entry price is one that was served. A profit is then at
most the position's notional (`ProfitWithinNotional`, where the price at most doubles),
so an end frees as much lock as it can cost equity (`EndKeepsCover`); an opening's cap
below 100% covers what it locks by `UtilizationCovers`, and the fee only adds.

*The engine.* `LeInv` is `PmInv` with the engine's types. `LeStepIsPmStep` makes every engine's
call a call of `liquidate_position`, so `PmInv` carries over without another induction, and
the whole specification with it (`EngineImplementsManager`). That
a liquidation is justified at the position's *own* asset follows from the callee's check, which the
proof uses and the engine does not make.

*Funding.* `FrInvariant` adds to the types that the interval is one of those configured and
that the indices are zero before `initialize`; `RatesSum` gives the pace and `RatesAreFunded`
(by the signs of the clamped skew) the cover. For the funder, `TickInTime` bounds the
distance from the last funding to the next tick, with one period more while a transaction
that may still fund is under way; `InTimeBoundsLag` turns it into the lag.

*The funding contract in the composition.* `FundingRefined` is stated for an environment
that may produce every natural open interest (`OpenInterests = Nat`, as `perps` gives it);
then a step of the others is a step of that environment, because `PmInv` keeps the open
interest natural, and because only a ledger's close moves the clock, and nothing else at
the same time (`ClockStep`). The theorems of `FundingProofs` are then those of an instance (`FP`) in which
the funder is idle: `SameFunding` shows that it is the same contract, `FundingAssumptions` that its
constants are as assumed, and `FundingKeptInPerps` carries pace and cover over.

*The indexer.* `CursorInvariant` adds to `NothingSkipped` that the answer at hand is accounted for
(`AnswerCovers`: handled, cut off or still on the page) and that events come with ledgers
not yet closed (`InOrder`), so that none appears behind the cursor. After a crash `answered` is
zero, and nothing is claimed of the answer that was lost: the cursor has not moved.

*The tables.* `TablesTell` needs four things more. `ChainOrdered`: events come in the order of their
ledgers, and an opening before the closing of its position. `InRound`: what was handled is a
beginning of the log, and the page an end of what the answer covers, so that events
are handled again in the order they happened in. `RowsOfOpenings` and `OpenUntilClosed`:
a row is there once the opening was handled, carries its collateral, and is open as long as
nothing on chain closed the position. `ClosingsShow` is the heart: a
closing that was handled is seen in the row if the cursor has passed it (no opening before it will be
asked for again), or this round has handled it, or the last round left no doubt and
this one has not come to the opening again. Without the third the invariant does not survive
the start of a round, and without the first not its end at a lagging answer. All but the
order is claimed only while no write failed and no page was cut off (`Clean`), which once
false stays false. The proof is what showed that an earlier form of `TablesTell`, which
held on two ledgers, is violated on three; see the run `indexer`.

*The keeper.* `PassIsComplete` says that nothing is owed when a pass is over. `OwedIsAhead` makes it
inductive: what is owed lies ahead, in the lists of the traders not begun or in the
rest of the list at hand, the entry at hand included until it was asked for. `PassShape` says
that the traders still to come have entries. `Return` is common to the three ways an entry
is left, and `ReturnKeeps` proves it once. The pass goes through its copy, so nothing that happens
to the scanner's list disturbs the invariant (`PassUntouched`). For the list itself
`RemovalIsExact` says what the removal of the first entry keeps: by it `NoneForgotten` holds although
entries shift. That a first entry exists needs the least element of a set of indices,
which `WellFoundedInduction` provides as a fact about the natural numbers.

*The API.* `ClientsAreRead` is kept because a handler returns only when it has closed its
client with the hub's lock held, and `GoneWhenClosing` says that whoever does so has
removed it and nobody has added it again. `NobodyPassedOver` is `BroadcastReaches` for a
broadcast under way: what is due is still among the targets, or being written to or
removed by this broadcast. Both hold for any number of broadcasts at the same time.

Only model-checked: the liveness properties (`UnderwaterIsSubmitted`, `KeeperStops`,
`EventuallyHandled`, `EndedClientLeaves`,
`BroadcastEnds`, `ApiExits`), which need fairness and `ENABLED`, where the prover
stops; and the five violations, which are counterexamples. Every invariant and every action
property of the runs is stated by a theorem. No module has a recursive
operator (sums are cardinalities of finite sets).

## Not modelled

- The API's handlers and middleware: read-only queries rendered to JSON. In `ApiServer` a request
  is under way, over or cut off.
- The RPC client: one POST per call. Its outcomes are choices of the modules that call it; the
  request counter it increments without a lock is sent along and read by nobody.
- The decoder of events and the encoding of transactions: not written yet. What would change
  with them: positions would be added by scans, so that what a restart of the keeper
  loses (the list is in memory only) and what a failed liquidation leaves untracked could
  be stated; and a scan's page at its limit would lose positions.
- The configuration, the start of the two processes (flags, opening the database, the health
  check: they succeed or end the process) and the setup script for a test network.
- The archival of instance and persistent entries; the overflow of `i128`; the
  accumulated values of `calculate_funding_payment` and `calc_share_price`, the first never
  called, the second a view for display.
- Rows a re-delivered event inserts again: certain by design (the cursor's own ledger is
  fetched twice); the model counts them, no doc of the repository says they must not be.
