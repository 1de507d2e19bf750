# The PoN relay in TLA+

This directory specifies and verifies the relay of the Proof of Neutrality
network (`src/`, Go): a server that takes blocks from builders, auctions the
slot among them, hands the header of the best one to the slot's proposer, and
trades the proposer's signature for the builder's payload.

Contents: the system and its parts, what is modelled where, the runs of TLC,
the proofs, what is left out, and the plan.

## 1. The system

| Part | Source | State | Operations |
|---|---|---|---|
| Auction board | `bids/bids.go`, `bids/types.go` | five Redis keys per slot (bids, times, values, utilities, highest bid) and the hash of delivered slots | `SaveBuilderBid`, `SavePayloadUtils`, `AuctionBid`, `WinningBid`, `PayloadUtils`, `BuilderBlockLast`, `Get/PutPayloadDelivered`; the bounty operations |
| Redis wrapper | `redisPackage/redis.go` | the connection | `HSetObj` (HSET, then EXPIRE), `GetObj`, flush on start |
| Submission handler | `relay/relay.go:476-689` | locals of a goroutine per request | checks, save, auction, answer, deferred insert |
| Header handler | `relay/relay.go:691-759` | locals | read the highest bid, insert, announce, answer |
| Routes for tests | `relay/relay_test_api.go` | locals | variants of the header and payload handlers over the same board, tables and channels |
| Payload handler | `relay/relay.go:761-923` | locals | verify, read utilities, insert, ask the builder, answer, announce, three deferred functions |
| Bounty handler | `relay/relay.go:191-474` | per-slot locks in Redis | not routed (`relay.go:118` is commented out) |
| Bulletin board | `bulletinboard/` | three unbuffered channels, one MQTT client | one publisher goroutine per channel |
| Database | `database/database.go` | PostgreSQL tables | inserts by the handlers, upserts by the registry, queries by the reporter server |
| Registry | `utils/relayUtils.go`, `ponPool/` | Redis hashes of statuses, last status seen, validator indexes | three loops, one round per epoch: fetch the list, HSET what changed, upsert all rows, ask for indexes; `BuilderStatus`, `ValidatorIndexToPubkey`, `SendDiscord` |
| Head tracking | `beaconinterface/multiclientSub.go`, `data/` | `BeaconData`: the head, and maps by slot of proposers, randaos, payload attributes | head and payload attributes events, the fetches they start, pruning |
| Beacon client pool | `beaconinterface/` | ranked slice of clients | sync status and ranking, fetches with failover, `PublishBlock` |
| Beacon node client | `beaconinterface/client/` | none | HTTP and SSE |
| Reporter server | `reporter/` | none | read-only queries |
| Cryptography | `rpbs/`, `bls/`, `signing/` | none | verification and signing |

How they interact. Every request runs in a goroutine of its own and they share
the board through Redis, the head slot through `BeaconData` (under a mutex) and
the publishers through unbuffered channels. There is no transaction and no
lock around a handler: `BidBoard.bidMutex` is declared and never locked. Each
Redis or database round trip is therefore a point where any other handler may
run, where the call may fail, and where the relay may die.

What is hard, and what makes each part correct:

* *Interleaved auctions.* Each submission runs the whole auction. The values
  are read, the winner's bid is read, the highest bid is written: three round
  trips. The winner must be a bid whose block was checked and that was not turned
  away, must be redeemable, and should be the best one (it is not always: section 4).
* *Order of writes.* Utilities, then bid, then time, then value, then highest:
  each must be there before the next one can be seen.
* *Failing calls.* Every call may fail and the handlers answer an error and
  stop, in the middle of a sequence of writes; two places answer an error and
  go on.
* *Time-outs.* A hash expires as a whole, and is refreshed as a whole by
  whoever writes it next; the keys of one bid expire at different times.
* *Restarts.* Redis is flushed, PostgreSQL is not, in-flight handlers and their
  deferred functions are gone.
* *Late requests.* A slot is closed by the delivered mark and by the head.
* *Channels.* A publisher that stops stops the handlers behind it.
* *Evidence.* Reporters live off the rows the handlers insert: each must be
  there before what it is evidence of. The routes for tests write to the same tables
  rows that say less.
* *The end of an answer.* `RespondOK` and `RespondError` write, and nothing flushes:
  what net/http sends before the handler returns is at most a part, so the deferred
  functions, the call to Discord among them, come before the end of the answer.
* *Copies of the pool.* The registry keeps the pool's members in three stores,
  each written at its own time, one of them only on a change: a write that fails
  must not leave it wrong for good (it may: section 3).
* *Late events and late answers.* Events come from several nodes in any order;
  what they start reads the head when it runs and stores its answer later still.

`PROJECT.json` lists every hazard at its line, with the properties about it.

## 2. The modules

| Module | Models |
|---|---|
| `BidBoard` | the keys of one slot, the clock and expiry |
| `Auction` | `handleSubmitBlock` by any number of handlers, the publisher of highest bids, head events, restarts |
| `WinningBid` | the abstract auction that `Auction` implements |
| `Delivery` | `handleProposerHeader` and `handleProposerPayload`, their variants for tests, their publishers, the rows they insert |
| `Trade` | the abstract trade with the proposers that `Relay` implements |
| `Relay` | both over the one board, and restarts of the whole |
| `ClientPool` | the pool of beacon nodes: `Start`, `SyncStatus`, the ranking, and the sort every fetch leaves behind |
| `Registry` | a loop of the registry: the pool's subgraph, Redis, the database, validator indexes, restarts |
| `HeadTracker` | head and payload attributes events, what they fetch and what they prune |
| `MCAuction`, `MCRelay`, `MCClientPool` | instances TLC checks; `Registry` and `HeadTracker` are checked as they are |
| `AuctionProofs` | types, and late requests |
| `WinnerProofs` | the winner of the auction, and the refinement of `WinningBid` |
| `BookkeepingProofs` | rows and times to live, and the whole inductive invariant |
| `SerialProofs` | the winner is a maximum, and the one shown, and no bid replaces a later one, when handlers take turns |
| `RelayProofs` | the relay implements the auction, its abstraction and `Trade`; what is offered, asked for and marked |
| `PoolProofs` | the client pool |
| `RegistryProofs` | the safety of the registry |
| `HeadProofs` | what is known around the head |

**One slot.** Every key of `bids/bids.go` carries the slot, so slots do not
interact and one slot is modelled (`AuctionSlot`); `delivered` is the field of
that slot in the one hash all slots share. A submission is a record: builder,
value, block hash, proposer. What the checks on the block alone decide
(sanity, RPBS proof, ECDSA signature) is the constant set `Forged`.
The registry's verdict on a builder is open, and so is the check of the block's
timestamp: `RefuseBuilder` may turn any submission away. What the registry's verdict
can be is the business of `Registry` (`BuilderStatus`), which shares no other state with the auction.

**State.** `bids`, `times`, `values`, `utils`, `highest`, `delivered` are the
Redis keys; `deadline` the second each one expires; `now` the clock. `pc[h]`
says which round trip a handler makes next, and `sub`, `received`, `top`,
`picked` are its locals: the submission, `blockTimestamp`, `topBidBuilderPubkey`
with `topBidValue`, and `bidStr`. In `Delivery`, `gpc` and `ppc` are the same for
the proposers' handlers, and `written` says whether `RespondOK` was called: the
proposer counts as `served` when the handler returns (`FinishPayload`). `publisher`
is what `HighestBidPublish` holds; a send on the unbuffered channel is possible when it holds nothing. `recorded`,
`headerRows`, `returnedRows`, `payloadRows` are tables.

**History variables**, which no code reads and no handler's guard uses: `lapsed`, `late`,
`admitted`, `offers`, `asked`, `served`. A submission is admitted when the check of
its builder's last bid lets it through, or fails to be made: what is on its block
was checked by then, its age may not have been. `failures` and `faults` count the
failing calls, to bound them.

**Actions.** One per round trip. The submission handler goes through
`Receive`, `RefuseBuilder`/`CheckDelivered`, `CheckBlock`, `CheckLastBid`,
`SetUtils`, `ExpireUtils`, `SetBid`, `ExpireBids`, `SetTime`, `ExpireTimes`,
`SetValue`, `ExpireValues`, `ReadValues`, `ReadTopBid`, `SetHighest`, `Publish`,
`Record`. A failing write may or may not have reached Redis, and sends the
handler to its deferred insert. `CheckLastBid` keeps what the code does when the
read fails: it answers 500 and goes on; a message that does not give its bid or its
version (`relay.go:623-635`) ends it. `ReadWinningBid` keeps the 400 without a
return; the bid appended to that 400 is no offer. The payload handler's deferred
functions run in Go's order, last registered first: `SendDiscord`, `MarkDelivered`,
`PutDeliveredPayload`; then the handler returns.
`ReadValues` takes any of the builders that tie for the greatest value: Go
iterates a map in arbitrary order and the loop keeps the first.

**The routes for tests** are served by the goroutines in `Testers`, which take the
same labels with what their code does otherwise. `TESThandleProposerHeader` stores a
row without a block (`HeaderRow`) and answers the bid all the same.
`handleProposerTestPayload` (`GetTestPayload`) looks neither at a signature nor at
the block it is sent: slot, hash and proposer are written in the code (`TestBlock`,
`None` when its slot is not that of the board, and `TestProposer`), and so is what it
puts on record (`OnRecord`). It calls the builder with no time-out, announces before it
answers, and defers the mark alone. What it sent is `None` in `asked`: nobody looked.

**Composition.** `Auction` alone takes the payload handlers for a part of its
surroundings that may mark the slot delivered at any time, naming a builder whose
submission was admitted (`PutPayloadDelivered`). `Relay` replaces that by the
handlers themselves, and `ImplementsAuction` (`RelaySpec => Spec`) checks that
they stay within what `Auction` allows. What is shown or proved of `Auction` thus
holds of the relay.

**Refinement.** `WinningBid` is the auction without handlers, keys or clock:
submissions enter, are stored, one of them that is stored wins, a builder that
took part is served, and what is stored may be lost, all at once. `KeepsPromise`
(`Spec => Sealed!Promise`) maps the candidates to `admitted`, the winner to
`highest`, what is stored to the blocks with utilities, and the builder served to
`delivered`. Every round trip of a handler is a step of it or a stutter, failing
writes included. So `RelaySpec => Spec => Sealed!Promise`: all three levels are
checked and both steps are proved.

`Trade` is the same for the proposers' side: candidates, what is on record, what
was offered, asked and answered, and the builder marked, without handlers, channels,
failures or a board. Its steps say in which order these come (a header on record
before it is offered, and offered only to the proposer its bid is for; a signed block
on record before a builder sees it; an answer, a mark or a row of a payload only for
a block a builder was shown), and none takes back what another did, but for the mark, which a
restart forgets. `TradesFairly` (`RelaySpec => Traded!Promise`) maps them to `admitted`,
the three tables, the three histories and `delivered`.

**The client pool** touches the auction only through the head slot, so
`ClientPool` stands alone. `clients` is the slice all goroutines share; `held[c]` the
copies that the goroutines of one `SyncStatus` hold while they wait for their
node, by the index each was read from; `next[c]` the index its loop has come to.
`boot` is how far `Start` has come, and `process` becomes `"crashed"` when a sort
dereferences a sync status that is nil. The loop of `SyncStatus` copies one client
per step (`CopyClient`), each goroutine stores its copy back under the mutex
(`NodeAnswers`), and the sort is one step, as it holds the mutex; the code lets the
loop read in the middle of a sort, which only adds to the losses that
`EveryNodeListed` finds. A client is its node and what is known of its sync status.
The other four criteria of the ranking decide between clients of equal status and
are left open: `Sort` takes any order that is `Ranked`. A fetch writes what it learns
to a copy of the client, so nothing is left of it but the sort.

**The registry.** The three loops of `relayUtils.go` have one shape and share no
state, so one is modelled and `kind` says which. A round is `FetchList`
(and, for builders, `FetchStake`: the stake required is a second request, and the
pool may change in between), then per member `SkipStatus` or `SetStatus`, then
`AskIndexes`, then per member `PutRow`. `last` is `BuilderLast` and its like,
`status` the hash in Redis, `rows` the table, `indexed` the two index maps,
`asking` the goroutines that ask for a group's indexes. A failing HSET may have
reached Redis, is logged, and counts as seen; a failing upsert ends the round. A
validator that a loop has no entry for has no status and a builder or reporter is
`false`, as Go's maps answer (`Default`). Stakes and what is required are small
naturals; a validator's status is one of two. `unwritten`, `missed`, `peak` and
`lowest` are history variables.

**The head tracker.** The three maps of `BeaconData` share the head and nothing
else, so one is modelled and `kept` says which. `HeadEvent` is one iteration of the
loop, which runs in one goroutine; what it starts runs later. `duty[n][b]` is the
goroutine of `UpdateValidatorMap` for node `n`, started by head `b`: it reads the
head, whatever it is by then, and asks for the proposers of that epoch and of the
next. `asking[b]` are the three of `UpdateRandaoMap`, which look into the map first
and write back what they find, even if it was pruned in between. The nodes in
`Reliable` answer what is asked about the head's past, its epoch and the next; the
others may fail every request. Any slot may be next, so events are skipped,
late and repeated. A walk over the clients while the list is being sorted may pass
some over: they are in `skipped`, a history variable like `newest` and `lastEdge`.

**Definitions called mutants** are variants of an action with a plausible bug in
it; no specification uses them. Each property was seen to fail with one of them in
the action's place, so that none holds by the shape of the model.

## 3. The runs that pass

| Run | Bounds | Shows |
|---|---|---|
| `auction_concurrent` | 2 handlers, 2 requests out of 4 submissions (one forged, one block submitted by both builders), 1 failure or restart, 1 second, head up to the slot after | `WinnerAdmitted`, `WinnerServable`, `AuctionFindsBid`, `LateNeverAdmitted`, `FewEndlessKeys`, `FewRowsLost`, that `Inductive` (types included), on which the proofs rest, is an invariant, and the refinement `KeepsPromise` |
| `auction_live` | 2 handlers, 2 requests out of 3 submissions, two of them of one builder, 1 failure or restart, fairness | `EveryHandlerReturns`, `AdmittedIsAuctioned`; `TurnsPickMax` and `TurnsShowHighest`: of handlers that take turns in a section and overlap outside it, the auction is right |
| `relay` | 1 handler of submissions, 1 of getHeader, 2 of getPayload of which one serves the route for tests, 2 requests out of 3 submissions, 1 getHeader and 1 getPayload over either route, 2 proposers, 1 fault | `OfferRedeemable`, `DeliveredWasAdmitted`, `AskedWasReturned`, `MarkNamesAskedBuilder`, the invariant `RelayInductive` behind them (`OfferedWasRecorded` of the proposers' route is a conjunct), `ImplementsAuction` and `TradesFairly` |
| `relay_live` | 1 handler of each kind, that of getHeader on the route for tests, 1 submission, 2 getHeader, 2 getPayload, 1 failure or restart, 1 fault, fairness | `OfferedWasRecorded`, `HeaderAnswered`, `PayloadAnswered` |
| `client_pool` | 3 nodes, 1 goroutine started by head events, 1 background sort at a time, 1 failing sync check, fairness | `PoolInductive`, `ListedWhileStarting`, `NoCrashOnceSubscribed`, `SubscribesWhenAllSynced`, `AllSyncedIsEnough` |
| `registry` | 2 members, stakes 0 and 1, groups of 2, 2 changes of the pool or of the stake required, 1 failing call or restart, fairness | `RedisIsWhatWasSeen`, `ActiveWasPaidFor`, `RoundApplied`, `NoneForgotten`, `RegistryInductive`; `RowsFollowPool`, `StatusFollowsPool`, `KeysFollowPool` |
| `heads` | 2 nodes, one reliable, epochs of 3 slots, horizon of 2 epochs, slots 1 to 8, 2 heads, fairness | `DutiesKnown`, `RandaoKnown`, `HeadInductive`; `KeepsRecent`, `DutiesArrive` |

What `registry` does not show is as telling as what it shows. `StatusFollowsPool`
leaves out a member whose HSET failed (`relayUtils.go:192`): its old status stays in
Redis until the pool changes its mind about it. `KeysFollowPool` leaves out a
validator that was asked for in vain (`relayUtils.go:149`): it is asked for once after
each change of its status; `NoneForgotten` says that this is the only way out: before,
it is waiting for the next request or in one. `RowsFollowPool` needs no such exception, as every round
upserts every row.

Why the bounds are enough to be interesting. Two handlers are what a race takes,
and every invariant of `auction_concurrent` is proved for any number of them. Two
requests let one builder follow itself or another, and in `relay` raise its bid, or
lower it to that of the other (the head stays before the slot there: moved to the slot,
it would turn nothing away). One second
with `BidTimeout = 1` lets each key expire, and some before others, as they are
set at different steps. One failure can hit any call. The two handlers of
`auction_live` may be two submissions of one builder or of two, of equal value or not;
the behaviours `TurnsPickMax` and `TurnsShowHighest` speak of are those that do not
overlap in the section, and most of what the two do lies outside it. In `relay_live` the
second request of each kind finds the publisher busy with the notice of the first; the
getHeader of its run is that for tests, which waits for the same things as the other and
differs in the row alone. In `relay` time stands still and the relay does not restart:
that an offer stays redeemable when keys time out one by one is the theorem's to say.
Three nodes let a sort move a client past another that keeps its place; nodes
change their status without a bound. In `registry`, two members make a full group,
and one of them a group that is not; two changes let a member join and
leave again, or the requirement move while stakes do. In `heads`, slots 1 to 8 are
the tail of epoch 0 and two whole epochs: two heads may be at both ends
of one, at ends that face each other, or skip an edge, and event 8 is more than a
horizon past slot 1; the goroutines of the first head run before, during and after
the second. `MaxSlot`, `MaxTime`, `MaxRequests`, `MaxFailures`, `MaxGets`,
`MaxFaults`, `MaxSorts`, `MaxStake`, `MaxChanges` and `MaxHeads` are bounds; the code
has none. `auction_concurrent` uses symmetry of the handlers,
which no definition tells apart, and checks no liveness.

**Deadlock** is checked. When no request is left, `Waiting` is a step: a server
with nothing to do. It is not checked in the runs of `ClientPool`, where a crash ends
the process, nor in `heads`, where no event has to come.

**Fairness.** `Fairness` assumes weak fairness of each handler's next step and of
the publisher, because Go schedules every runnable goroutine, and the Redis and
MQTT clients return an answer or an error in bounded time (their own read
time-outs; `mqtt.go:82` waits a millisecond at most). Nothing is assumed of
requests, of the head, of the clock or of restarts. `RelayFairness` assumes the
same of the proposers' handlers, whose builder call times out after a second
(`relay.go:99`), *except* of two calls that have no time-out (`Unbounded`): that to
Discord (`relayUtils.go:70`) and that of the route for tests to a builder
(`relay_test_api.go:79`). `PayloadAnswered` says that a proposer gets all of its answer
unless its own handler waits there for ever. It does not say that this cannot happen:
the call to Discord is deferred, so the end of an answer that is already written waits
for it, and so do the delivered mark and the row of the payload. `PoolFairness` assumes that
the goroutine of `Start` goes on and that each call it waits for returns, and nothing
of fetches, head events or nodes. For a node that accepts a connection and never
answers that is not so, as `http.DefaultClient` has no time-out
(`client/utils.go:26`): `AllSyncedIsEnough` is about nodes that answer or fail. `RegistryFairness` assumes
that a loop goes on after each sleep and that its calls return, and the same
of the goroutines that ask for indexes; `HeadFairness` that the goroutines of a
head are run and their requests return. Both are the scheduler's fairness and,
again, that of a server that answers or closes the connection. Nothing is
assumed of the pool, of the chain, or of events.

## 4. The runs that find a violation

Each states what a comment, a document or a message of the code says.

* `auction_race` (`HighestIsMax`). The ReadMe promises "the most profitable
  block". Handler 1 reads the values with its own bid of 1 in them; handler 2
  saves a bid of 2, auctions and sets the highest bid; handler 1 sets it back
  to 1. It stays so until another submission comes.
* `auction_overtaken` (`LatestBidKept`). The times are kept "to make sure that
  when builder sends a new block, we use the latest one only", but they are
  checked before, and written after, the four writes of utilities and bid: a
  submission of an earlier second overwrites a later one.
* `relay_header_mismatch` (`HeaderRowsMatchBid`). A getHeader by a proposer the
  bid is not for is answered with an error, recorded as delivered, announced,
  and the bid is appended to the answer.
* `client_pool_race` (`EveryNodeListed`). The mutex is there "to ensure that the
  clients are not updated concurrently". A refresh copies client 1 out, a fetch
  ends and its sort moves that client to index 2, and the answer of its node is
  written back at index 1: the client is in the list twice and the one that was
  moved there is gone for good, as the loop goes on with what it now finds at 2.
* `client_pool_start` (`OneSyncedIsEnough`). `Start` says it is "waiting for at least
  one client to be synced". Syncing clients are sorted first, and `waitSynced` looks
  at the first: it waits for all of them.

## 5. The proofs

The theorems hold for every set of builders, blocks, proposers, submissions,
handlers, nodes and members, every time-out and all bounds. Those of the auction
and the relay assume `SubmissionsAssumption` (what a submission is),
`NoneAssumption` (`None` is no value of the program), `TimeAssumption` (a time-out of
at least a second), `AuctionAssumption` and `DeliveryAssumption` (the types of the
bounds; finitely many handlers of submissions; `None` is no handler, no notice, no block
and no proposer; what serves the routes for tests is one of the handlers, and the
proposer written there one of the proposers).

| Theorem | Says |
|---|---|
| `TypeCorrect` | `Spec => []TypeOK` |
| `LateSafe` | `Spec => []LateNeverAdmitted` |
| `WinnerIsAdmitted` | `Spec => []WinnerAdmitted` |
| `WinnerIsServable` | `Spec => []WinnerServable` |
| `TopBidIsThere` | `Spec => []AuctionFindsBid` |
| `AdmittedGetRow` | `Spec => []FewRowsLost` |
| `FewKeysAreEndless` | `Spec => []FewEndlessKeys` |
| `InductiveInvariant` | `Spec => []Inductive` |
| `AuctionKeepsPromise` | `Spec => KeepsPromise` |
| `PromiseIsEnough` | `KeepsPromise => []` (the winner was let in, is not forged, can be served; the builder marked took part) |
| `MutexPicksMax` | `Spec => TurnsPickMax`, that is, `[]OneAtATime(Auctioning) => []HighestIsMax` |
| `MutexShowsHighest` | `Spec => TurnsShowHighest`, that is, `[]OneAtATime(Announcing) => []ShownIsHighest` |
| `MutexKeepsLatest` | `Spec /\ []OneAtATime(Checked) /\ [](failures = 0) => LatestBidKept` |
| `SerialHighestIsMax` | with one handler, `Spec => []HighestIsMax` |
| `SerialShownIsHighest` | with one handler, `Spec => []ShownIsHighest` |
| `RelayIsInductive` | `RelaySpec => []RelayInductive` |
| `RelayTypeCorrect` | `RelaySpec => []RelayTypeOK` |
| `RelayImplementsAuction` | `RelaySpec => ImplementsAuction` |
| `RelayKeepsPromise` | `RelaySpec => KeepsPromise` |
| `RelayTradesFairly` | `RelaySpec => TradesFairly` |
| `TradeIsEnough` | `TradesFairly => []` (the six properties of the proposers' side, from `Trade` alone) |
| `RelayTakesTurns` | the three `Mutex...` theorems, with `RelaySpec` for `Spec` |
| `SerialRelay` | with one handler of submissions, `RelaySpec => [](HighestIsMax /\ ShownIsHighest)` |
| `OffersAreRedeemable` | `RelaySpec => []OfferRedeemable` |
| `DeliveriesWereAdmitted` | `RelaySpec => []DeliveredWasAdmitted` |
| `EvidenceComesFirst` | `RelaySpec => []AskedWasReturned` |
| `ServedWereAsked` | `RelaySpec => []ServedWasAsked` |
| `OffersAreRecorded` | `RelaySpec => []OfferedWasRecorded` |
| `MarksAreOfAsked` | `RelaySpec => []MarkNamesAskedBuilder` |
| `PoolIsInductive` | `PoolSpec => []PoolInductive` |
| `NoneLostWhileStarting` | `PoolSpec => []ListedWhileStarting` |
| `SubscribedIsSafe` | `PoolSpec => []NoCrashOnceSubscribed` |
| `WaitsForAll` | `PoolSpec => SubscribesWhenAllSynced` |
| `NodesStayListed` | `PoolSpec /\ SortsApart => []EveryNodeListed` |
| `RegistryIsInductive` | `RegistrySpec => []RegistryInductive` |
| `RedisFollowsTheLoop` | `RegistrySpec => []RedisIsWhatWasSeen` |
| `ActiveHavePaid` | `RegistrySpec => []ActiveWasPaidFor` |
| `RoundIsApplied` | `RegistrySpec => []RoundApplied` |
| `NoValidatorForgotten` | `RegistrySpec => []NoneForgotten` |
| `HeadIsInductive` | `HeadSpec => []HeadInductive` |
| `ProposersAreKnown` | `HeadSpec => []DutiesKnown` |
| `RandaosAreKnown` | `HeadSpec => []RandaoKnown` |
| `EventsKeepRecent` | `HeadSpec => KeepsRecent` |

**The auction.** `Inductive` strengthens the invariants, one conjunct per argument;
most are not inductive alone:

* `Carried`: a handler holds what its label needs (a submission unless it is
  idle, a top bid when it is about to use one). `TypeOK` alone allows `None`
  there, and the next step would not be well typed.
* `CopiesAdmitted`: every copy of a bid is of one admitted: in a handler past
  the checks, in one that has picked it, on the board, as the highest. The winner
  is only the last of these copies.
* `CopiesServable`: the same, with "its utilities are saved, or have timed out".
  It is inductive because `SavePayloadUtils` comes first and HSET never removes a
  field (`WriteKeeps`).
* `ValuesBacked`: a value on the board has a bid next to it.
* `LateStopped`: a late request is before the check that stops it, and what
  closed the slot is still there. Past the first check it can only be the head.
* `FewEndlessKeys` and `FewRowsLost` count what failures cost, and no step adds to
  `Endless` or `Unrecorded` without adding to `failures`. A step that adds to `Endless`
  is an EXPIRE that fails, or a write that reached Redis and failed, which adds one
  key; a restart empties it. A step that adds to `Unrecorded` is an insert that
  fails, which adds one submission, or a restart, which adds at most one for each
  handler: the submissions added are an image of the handlers. Both are
  arguments about cardinalities (`FiniteSetTheorems`), and need the handlers to be
  finitely many (`IsFiniteSet(Handlers)` in `AuctionAssumption`).

Each is shown to hold at first and to be kept by every step, one step of the
proof per action, with frame lemmas (`GotoTyped`, `CommittedFrame`,
`HandsKept`) for what several actions share. `AuctionKeepsPromise` maps each action
to a step of `WinningBid` from the same invariant: `CopiesAdmitted` and
`CopiesServable` are what `Choose` asks of `SetHighest`, and all other round trips
but those that write utilities, time out or mark the slot are stutters (`Unseen`).

**Handlers that take turns.** `BidBoard.bidMutex` is declared and never locked, and
`auction_race` and `auction_overtaken` show what that costs. `SerialProofs` shows what
locking it would be worth, for any number of handlers, and how long it would have to be
held. `OneAtATime(section)` says that no two handlers are at a label of the section; it
restricts which behaviours of `Spec` a theorem is about, and nothing else: handlers
outside the section, the publisher, time-outs, failures and restarts go on in between.

* `Auctioning`, the three round trips of `AuctionBid`, is enough for `HighestIsMax`,
  though others write bids and values meanwhile: an auction that has missed a bid is not
  the last one. `MaxInv` says that what the handlers have read is what is on the board
  unless one that wrote a bid has yet to read (`Unread`), and that the highest bid is a
  top one when no handler is between its write and the end of its auction (`Settled`).
* `Announcing` is from the write of the bid to the send on the channel: for
  `ShownIsHighest` the auction alone is too short. Released before the send, two
  results are announced in the wrong order; taken after the bid is written, the bid
  announced is not the one whose value won. TLC finds both with two handlers.
  `ShownInv` follows value and bid of one submission from the board through the handler
  and the publisher to what is shown: they fit together at every label.
* `Checked` is from the save of the utilities to the write of the time, with the check
  of the last bid as the step that enters it. No call may fail, since a failed check is
  passed (`relay.go:614`). A section that starts at the bid is too short, as TLC finds.
  `LatestInv` says that a handler in the section arrived no earlier than the time it will
  overwrite.

`auction_live` checks the first two with two handlers. One handler is always alone
(`SerialHighestIsMax`, `SerialShownIsHighest`), so none of the hypotheses is empty.

**The relay.** `RelayImplementsAuction` is the step simulation: a step of a
submission handler is that step of `Auction`, `MarkDelivered` is
`PutPayloadDelivered`, and any other step of the proposers' handlers leaves the board
alone. The second case needs the builder marked to be one whose submission was
admitted, and `RelayInductive` gives it: the utilities on the board are of admitted
submissions of their block (`UtilsAdmitted`), and so are those a payload handler
holds, together with the rows that are stored by the time it reaches each label
(`PayersHold`, `GettersHold`). What the handlers have read stays true while the
auction goes on (`NextUtils`): who took part is not forgotten, and utilities are
replaced by others of the same block or time out together.

`RelayTradesFairly` maps each round trip of the proposers' handlers to the step of `Trade`
that it is (`HeaderTrades`, `PayloadTrades`), an admission to `Enter` (`AuctionTrades`), a
restart to `Forget`, and everything else to a stutter; the guards of `Trade` are what
`GettersHold` and `PayersHold` say of the label. `PromiseIsEnough` and `TradeIsEnough` are
the other direction: the invariants follow from the two abstract specifications alone, so
these are not abstract to the point of saying nothing.

**The client pool**, for every number of nodes, every listing of them,
any number of concurrent refreshes and all bounds, under `PoolAssumption` (the types
of the constants; at least one node). `PoolInductive` strengthens the two
invariants by

* `OnlyStart`: while `Start` runs, no other goroutine holds a copy or sorts, and none
  holds one between rounds;
* `InPlace`: the copies of a round of `Start` are of the clients at their index, so
  that writing one back loses nobody (the sort permutes, `SortKeeps`);
* `RankedByStart`: after a sort that survived, the list is ranked and every client in
  it has a status; with the first client synced, all are, which is `WaitsForAll`;
* `KnownOnceSubscribed`: from then on no client without a status is in the list, or
  in a copy on its way back to it, whatever the races do. A failed check keeps the
  old status.

`EveryNodeListed` is violated (`client_pool_race`), and `NodesStayListed` says by what: in
the behaviours where no step sorts while a round holds copies (`SortsApart`), any number of
rounds at once lose nobody, as each writes its copies back where the same node still is
(`Copied`, kept by `NextCopied`). The sort a round ends with is no exception, as others may
hold copies then.

**The registry**, under `RegistryAssumption` (the types of the bounds, a group of at
least one, `None` is no stake and no status). `ActiveWasPaidFor` alone is not
inductive: an "active" reaches Redis and the database through the list of stakes, the
verdicts of the round and the status seen last, and `RegistryInductive` says of each
that it was paid for. `RedisIsWhatWasSeen` is kept because both sides of it are written
together, skipped together, and lost together in a restart. `RoundApplied` relates the
verdict of a round to both stores once the statuses are done, though a status that has not
changed is not written: `SeenOnceDone` says that then it is the one seen last, and
`RedisIsWhatWasSeen` that Redis has it. `NoneForgotten` follows a validator from its
status to its index: `fresh`, then in a group on its way (`Chunks` leaves no one out),
then indexed or missed.

**The head tracker**, under `HeadAssumption` (the types of the bounds, an epoch of at
least one slot, a horizon of at least one epoch). The proof of `DutiesKnown` rests on
`DutyDone`: a goroutine of the last edge asks for an epoch between the edge's and the
head's; when it is done, two epochs in a row from there are `Home`, but for slots the
horizon has passed. A new edge only forgets about older goroutines, a new head prunes
only behind the horizon (`HomePruned`), and the epoch of the head is never behind it
(`EpochIsRecent`): this is where the horizon has to be an epoch long. `RandaoKnown`
follows from "the head's goroutine for that slot is still running, or the slot is in
the map", and `KeepsRecent` from the definition of `Prune` once `newest` is known to be
the head.

Only model-checked, as they speak of fairness, which is out of the prover's reach:
`EveryHandlerReturns`, `AdmittedIsAuctioned`, `HeaderAnswered`, `PayloadAnswered`,
`AllSyncedIsEnough`, `RowsFollowPool`, `StatusFollowsPool`, `KeysFollowPool`,
`DutiesArrive`. Every other property of the passing runs is a theorem. Of the violated
ones, `HighestIsMax`, `LatestBidKept` and `EveryNodeListed` are theorems under the
hypotheses above.

## 6. What is not modelled

* Cryptography, encodings, HTTP and JSON: a request that fails to decode or to
  verify touches nothing, and is not a step.
* `bid-timeout` below a second (Redis would delete the key at once), and two
  slots at once (they share no key).
* `RespondOK` failing to write the answer: the relay cannot tell.
* `testBuilderCall`, which `TESThandleProposerHeader` starts: it looks for the
  utilities of the hash of zeros, that of no block; found, it would post an empty block
  that nobody signed, without a row, and drop the answer. It changes nothing.
* Two error paths that no stored bid can take: the second 400 without a return
  (`relay.go:726`), for a header that does not convert, as the same conversion was done
  before the bid was stored (`relay.go:492`); and the return without an error when a value
  does not parse (`bids.go:146-149`), as the relay writes values as decimals.
* The bounty handler (not routed), the reporter's queries (they change nothing), flags
  and wiring.
* `UpdateForkVersion`: nothing in the relay reads the fork version.
* `PublishBlock`, `UpdateKnownValidators`, `GetSlotProposer` and
  `GetPayloadAttributesForSlot`: nothing in the relay calls them.
* What the maps hold for a slot: two nodes may answer with different proposers for an
  epoch that is still open, and the last answer stays. `HeadTracker` knows which
  slots have an entry.
* The page size of the subgraph's queries (`ponPool/subgraph.go:6`, the first 1000
  members): pools are smaller than that in `Registry`.
* The hard-wired validators of the custom testnet (`relayUtils.go:260`).
* 64-bit truncation of the bid value in a delivered header (`relay.go:736`): the
  column is read by reporters only.

## 7. The plan

Done: the auction, its abstraction and the proofs of both; the handlers of the
proposers over it, those for tests among them, their abstraction and their proofs;
what the missing mutex would be worth; the client pool; the registry; the head tracker.

What could follow, in this order:

1. Abstract specifications of the other components, as `WinningBid` and `Trade` are of
   the slot: what a builder's status promises `handleSubmitBlock`, what a list of nodes
   promises a fetch, and refinements from `Registry` and `ClientPool`.
2. `Registry` and `Auction` composed for one builder: a submission that is refused or
   admitted on a status that is one epoch old.
3. The walk of a fetch over a list that is being sorted, inside `ClientPool`, where
   `HeadTracker` now takes its outcome to be any set of nodes.
4. The bounty handler, should its route come back: its locks are per slot and per
   builder, in Redis, with a time to live.
