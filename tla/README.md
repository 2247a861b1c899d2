# Specification of pvzService

pvzService runs a pick-up point: it takes orders from couriers, hands them to
clients, takes returns, and sends orders back. Every change is stored together
with a history line and an event; the events travel from an outbox table
through Kafka to a notifier. This directory holds TLA+ models of that program,
TLC configurations that check them, and proofs checked by TLAPS. Every
definition is a translation of code under `src/`; `PROJECT.json` ("map") names
the lines each one stands for.

    tlc -workers 2 -config MCOrderServiceRace.cfg MCOrderService
    tlc -workers 2 -config MCOrdersServer.cfg MCOrdersServer
    tlapm OrderServiceProofs.tla

## 1. Inventory

| Part | State | Operations | Talks to |
|---|---|---|---|
| Order service (`internal/app`) | none of its own | AcceptOrder, IssueOrders, ReturnOrdersByClient, ReturnOrderToDelivery, ImportOrders, four listings | repository, database client |
| Cached repository (`internal/repository/postgres/cached_order_repo.go`) | LRU caches of orders, lists, histories, package rules | read through, invalidate on write, clear, clean up | Postgres; called from every request and from `/cache/*` |
| Database client (`pkg/db`) | connections, the current transaction in the context | WithTransaction, Begin, Commit, Rollback | Postgres |
| Tables | `orders`, `order_history`, `outbox`, `dlq`, `package_types` | one transaction per change | service, relay |
| Outbox relay (`cmd/outbox`) | rows' status, attempts, last_attempt_at; table dlq | phaseOne, phaseTwo, processMessage, moveToDLQ, ProcessDLQ | Postgres, Kafka |
| Notifier (`cmd/notifier`, `infra/kafka/kafka_consumer.go`, `infra/telegram`) | the group's offset, the session | ConsumeClaim, HandleMessage, SendMessage | Kafka, Telegram |
| Worker pool (`internal/workerpool`, `grpc/mw`) | queue, workers, kill tokens, two counters, `closed` | Submit, Resize, Close | every RPC, `/resize`, shutdown |
| gRPC server (`cmd/pvz`, `adapter/grpc`) | the limiter's counts, the deadline of each call | eight handlers; interceptors: limiter, timeout, validation, error mapping, pool | pool, order service |
| Batches (`app/service.go`) | processed counter, first error, semaphore | processConcurrently, error reports | order service |
| Gauges (`internal/metrics/provider.go`) | one gauge per status | RefreshOrderStatusMetrics | repository |
| LRU (`pkg/cache`) | list, map, expiry | Get, Set, Delete, Clear, CleanupExpired | repository |
| Listings, package rules (`app/get_orders.go`, `domain`) | table package_types | filters, Paginate, weight limit, price | order service |
| CLI, gateway, configuration, tracing | none | translation | everything above |

How they interact: a request passes the interceptors (panic, limiter, timeout of
two seconds, validation, error mapping, pool), is run by a worker or by its own goroutine, reads
its order outside any transaction (through the cache), decides, and writes row,
history line and event in one transaction. The relay polls the outbox; the
notifier reads the topic. The four processes (service, relay, notifier,
gateway) share only Postgres and Kafka.

### What is hard, and what would be correct

* **The decision is stale.** The check works on a copy read before the
  transaction, and the UPDATE has no condition. Correct would be: row, history
  and outbox never come apart, and every change is lawful for the order as it is.
  What the code keeps of the second: a change follows from a version of the
  order, from the last one when calls do not overlap, and is lawful for it except
  for orders that are with the courier (section 5).
* **The cache is invalidated before the commit.** It must never show what was
  not committed; it can show what is no longer current. Correct would be that
  every copy a change makes wrong is deleted on its behalf, and that one stored
  too late does not last.
* **Failure and lost replies in a transaction.** Nothing may remain of a
  transaction that failed, its row lock included, and an answer OK must stand
  for a change.
* **The relay's steps commit one by one**, except one INSERT. COMPLETED must
  mean published, three attempts must be the limit, final statuses must stay
  final, and every row must end.
* **The consumer commits in the background.** No valid event may be skipped; no
  committed one may be handled again; retries must stay bounded.
* **The pool races with its own shutdown and resizing.** No handler runs twice,
  every request returns, the counters tell the truth, the shutdown ends.
* **The answer and the change part ways.** A deadline, a cancelled batch, a commit
  whose reply is lost, and an error mapped to another code can each tell the
  client something else than what happened. Correct would be: success means that
  everything is committed, an error that names a reason means that nothing is,
  and the business counters count what was committed.
* **Pages are computed in unsigned arithmetic.** They must not wrap, and together
  they must be the list.

`PROJECT.json` lists the hazards one by one, each at its line and with the
properties that watch it.

## 2. Modules

| Module | Models | Proofs |
|---|---|---|
| `OrderTypes` | statuses, history entries, event types | |
| `OrderLedger` | *abstract*: what the service promises, as atomic changes to a ledger | |
| `OrderService` | the four changing operations over cache, tables and transactions | `OrderServiceProofs` |
| `OrderRequests` | the eight requests and the rules the generated code checks on them | |
| `OrderParcels` | package types: weight limit, price, names, the foreign key | |
| `Listings` | filters, orders of the queries, Paginate modulo the word | `ListingsProofs` |
| `OrdersServer` | a call from its arrival to its answer, over the three above and `OrderLedger` | `OrdersServerProofs`, `ServerRecordsProofs` |
| `LRUCache` | `pkg/cache`: the methods as operators on a map and a list | |
| `ListCaches` | the caches of lists and histories, over `LRUCache` | `ListCachesProofs` |
| `OutboxRelay` | `cmd/outbox`, tables outbox and dlq | `OutboxRelayProofs` |
| `WorkerPool` | pool, its interceptors, `/resize`, graceful shutdown | `WorkerPoolProofs` |
| `Notifier` | the consumer, its offsets, Telegram | `NotifierProofs` |

The `MC*` modules instantiate them; a `.cfg` is one question.

Some operators are marked *Faulty variant*. No action of a specification uses
them: each is a definition of the model with a plausible mistake in it (a
dropped guard, a missing rollback, an off-by-one), kept to show that the
property it is paired with under "mutants" notices the mistake.

### OrderService

A *call* is one order of a request: one AcceptOrder, one item of a batch
(batches run their items in goroutines, so items overlap like requests do), or
one ReturnOrderToDelivery. `pc` follows the code:

    ready -> lookup -> query -> fill -> check -> [stamp] -> write -> history -> event -> commit -> done
             cache     SELECT   Set     checks   2nd now    UPDATE/  INSERT     INSERT   COMMIT
                                                            INSERT

`order` is the call's pointer to the row, changed in place; `tx` is what its
open transaction has written; `lock` is Postgres' row lock, taken by the write
and released by commit or rollback. `res` is what the caller sees: `lost` stands
for an error returned for a change that was committed. `Fail` is an error of any
statement, `CommitReplyLost` a commit whose answer never came, `QueryFails` a
failed read (which AcceptOrder takes for "no such order"), `Crash` the death of
the process, `Evict` everything that removes a cache entry (TTL, capacity,
`/cache/clear`), so the model does not depend on the LRU policy. Postgres under
READ COMMITTED is modelled by what the code uses: an UPDATE waits for the row
lock and then overwrites whatever is there; `INSERT ... ON CONFLICT DO NOTHING`
waits and then affects no row. Package rules and price appear only through their
outcome, a possible refusal.

`OrderLedger` is the promise: a change is appended to the ledger of an order
together with its notice, and follows from a version of that order, the last
version when `Sequential`. It is `Lawful` by the documents (an order in storage is
issued or goes back, an issued one comes back within the window, one that came
back goes to the courier, as `return_order_delivery_test` expects), with one
exception, the action `Revive`: the code also issues, and takes back from a client,
an order that is with the courier. The documents refuse that; it stands in the
ledger as an action of its own so that the refinement says exactly how far the code
goes, and the run `gone_with_courier` reports it.
`ImplementsLedger` is the refinement under the
mapping terms <- receiver and limit of the row, ledger <- order_history,
notices <- outbox.

### OrdersServer

A call goes `none` -> `queued` -> `running` -> `finished`; `answer` is what the
client was told, which can come before the handler has finished (`TimeOut`,
`PoolInterceptor` returning on `ctx.Done`), and then `outcome` is dropped. The
order of the interceptors is that of `main`: `RejectLimited`, `RejectInvalid`
(`ValidateAll` of `OrderRequests`), `Submit`. `Expire` is the end of the two
seconds, possible at every moment before the answer.

The items of a batch are the orders of the request: `waiting` -> `committing` ->
`done`, `failed`, or `lost` (committed, but the caller got an error). `Decide`
reads the order and judges it, at most `WorkerLimit` at a time (the semaphore),
`Stamp` is the second look ReturnOrderToDelivery takes at the clock, `Refuse` is
what the INSERT may answer, `Break` any failure,
a cancelled context included. The first error of a batch is kept in `failure` and
cancels the others, also those that are waiting. `Finish` is the end of the
handler with its counters and its report.

What is atomic here is so for a reason another module gives: a change is one step
because `OrderService` implements `OrderLedger`, whose steps are these; an item
may judge *any* version of its order because that is all `OrderService` promises
when calls overlap; the pool is a queue that runs every job once because of
`WorkerPool`; lists come from the tables, and `ListCaches` says how old they can
be. So `OrdersServer` implements `OrderLedger`, too, and what it adds is the way
from the ledger to the client and back.

A list is read in one step, in any order the query allows (`AnyOrder` without
ORDER BY, `ByLastUpdate` with it). `Paginate` works modulo `Word`, which is 2^64
in the code. Floats (weight, price) are natural numbers.

`InstanceAssumption` says what an instance may contain: tables that fit together
(an order has a row when it has a history), and messages of which those that pass
the rules (`ValidateAll`, at any time) name orders and receivers of the instance.
TLC checks it of the instance, and the theorems use nothing else of it, except
`PagesFitAWord`: pages and counts are uint32, the word of `Paginate` uint64.

### LRUCache and ListCaches

Every method of the LRU runs under one mutex, so it is an operator from caches to
caches; map (`items`) and list (`order`) are kept apart, as in the code. Ages
replace creation times and stop one step after the TTL, so time need not be
bounded. `ListCaches` keeps one LRU for lists (receivers, "returned_orders",
"all_orders" compete for its places) and one for histories. A reader is a lookup,
a query and a fill, between which anything can happen; a transaction writes its
row, deletes the entries of `invalidateOrderCaches` one by one, deletes the
history again with its history line, and commits or fails. The tables are the log
of committed changes; a row is identified by the change that wrote it and a
cached list by how much of the log its query saw, so that it is stale when the
query would return something else now (`View`). Which status an operation may
write is the business of `OrderService`; here any of `Written` can follow.

### OutboxRelay

One goroutine serves the tickers, so a worker does one thing at a time: `pc`
walks phaseOne (`TakePending`, `SetProcessing`), phaseTwo (`FetchProcessing`,
then `UpdateAttempt`, `Send`, `Complete` per message), moveToDLQ (`SaveDLQ`,
`MarkFailed`, `CommitDLQ`; the middle one on a connection of its own, as in the
code), and ProcessDLQ. Time is reduced to whether the two seconds
(`cooling`) or the retry delay of a dlq row (`due`) have passed. `Faults` chooses
which failures an instance has. A database reply that is lost is not a separate
step where it ends in the same state as the statement's success followed by a
crash or failure of the next step.

### WorkerPool

Channels are sequences or counts; `select` takes any ready case. A request is
`submit` -> `wait` (queued) or `sync` (it runs its own job when the queue is
full) -> `done`. A worker is `select` -> `took` -> `run`. Close is followed
statement by statement, because `cancel`, `close(jobs)`, the tokens, `wg.Wait`
and `close(kill)` each let the others in. Handlers are single runs that answer
or panic; sends on closed channels panic and are recovered by PanicInterceptor
or net/http. `stopping` is the signal, `refusing` the servers whose shutdown
callback has begun.

### Notifier

The topic is a log, an offset the number of messages up to it. `position` is
what the session has taken, `marked` what it would commit, `committed` what the
broker knows. HandleMessage is `notify` (the attempts of SendMessage) ->
`record` (logEvent) -> `mark`; a malformed message goes from `notify` back to
`waiting` unmarked. `sent` counts the message sent about an event (or about a
malformed one); the wording of it, and the message with statistics after every
fiftieth event or ten minutes, whose failure is logged and ignored, are left
out. Sessions end by rebalance, signal or crash, and the next one
starts at `committed`. sarama and Kafka are external and modelled as used: one
partition, one member (as in `docker-compose.yml` and the topic's creation).

## 3. Runs

| Run | Instance | Shows |
|---|---|---|
| `race` | 1 order, 2 receivers, 3 calls, 2 overlapping, clock 0..2 | row, history and outbox agree; one acceptance; only committed versions are known; locks are released; successes are recorded; the ledger is implemented |
| `serial` | 4 calls, none overlapping, limits 0 and 1 | every change follows from the last version (lawfully, or as a `Revive`) and in time order, although it was decided on a cached copy |
| `list_caches` | 1 order, 2 goroutines, 2 changes, caches of 2 places, TTL of 1 step | list and map agree; a commit leaves no copy older than its invalidation; stale copies go |
| `gone_with_courier`, `stale_cache` | 4 calls, none or two overlapping | disagreements, section 5 |
| `relay_faults` | 2 messages, 1 worker, all faults | COMPLETED is published, three attempts, one burial, final statuses stay |
| `relay_kafka` | 3 messages, batches of 2, only Kafka refuses | nothing lost, nothing doubled, nothing overtakes an untried row, every message ends |
| `relay_stuck` | 2 messages, Kafka and crashes | disagreement |
| `pool` | 2 requests, 2 worker identities, 1 admin resizing to 1 or 2, queue 1, shutdown | handlers run once; both counters are exact; every request returns; the shutdown ends unless a resize went before it; nothing runs after it |
| `pool_hang` | 1 request, resize from 1 to 3 workers | disagreement |
| `notifier` | 3 messages, 2 sessions, 2 attempts | nothing valid skipped, order kept, copies bounded, committed is done, every valid event logged |
| `server` | 2 calls, one with a batch; orders 1 and 12; no order, both in storage, or both taken back at different times | answers, counters and stored orders agree with what was committed; pages of lists are slices of the rows by last update; the ledger is implemented |

**Bounds.** Orders share no row, lock or cache entry, so one order shows what
several can do. Two receivers distinguish the right one from another. Two
overlapping calls give every race between one reader and one writer; three calls
allow a change before the race. In `list_caches` three lists compete for two
places, a TTL of one step lets an entry be used between two ticks of the clock,
and two statuses are enough to be on the list of returned orders or not. The clock
needs three instants to be before, at and after a limit. Each call happens at
most once; that bounds the history. In the relay, one row at its limit and
another behind it exercise LIMIT, order and the retry window; `MaxPublished`
caps a count. In the pool, `kill` has twice the initial size: with one initial worker the shutdown stays within it for the sizes
1 and 2 (`pool`) and exceeds it for 3 (`pool_hang`). In `server`, one call carries
a batch of two items (an import, a broken import, an issue, an order named twice)
and the other any of sixteen requests: orders that are too heavy, without a package,
expired or foreign, an issue, a return to the courier, and the listings, with and
without pagination, first and second pages. So a batch races with every operation
and every list. The parcels of the import weigh exactly what their packages hold,
`heavy` one more. The tables with both orders taken back, one after the other, are
those in which pages of returns have something to show and an order to keep; a
return to the courier takes order 12 off them. The texts of "Order 1" and "Order 12" overlap, which the import report must
tell apart. `MaxTime` 2 puts order 12 (limit 1) before and past its limit,
`Limit` 1 makes the second call of a period the one that is refused, and `Word` is
64, large enough for the pages used; that larger ones do not wrap is a theorem.
`Calls`, `MaxTime`,
`MaxChanges`, `Horizon`, `Written`, `MaxLog`, `MaxSessions` and `MaxPublished` are bounds of the models, not of
the code. Symmetry is used only in runs without liveness.

**Deadlock** is checked except where the system may really stop: in the pool
with `/resize`, where Close can block (that is the finding of `pool_hang`).
Intended ends are explicit steps (`Finished`, `Idle`, `Wait`, `Rest`).

**Fairness.** `ListCaches`: goroutines run, time passes, and the ticker of `main`
calls CleanupExpired again and again. `OrderService` and `OrdersServer` need none: only their safety
is checked (that calls return is checked of `WorkerPool`). `OutboxRelay`: the
ticker loop runs, delays pass, and strong fairness for `TakePending`, because
`select` picks among ready tickers at random. `WorkerPool`: goroutines run,
handlers return (their queries end with the context), deadlines pass. `Notifier`:
the handler runs, attempts end (HTTP timeout), the container is restarted.
No fairness is assumed of arrivals, failures, crashes, resizes or the signal.

## 4. Proofs

All theorems hold for every value of the constants that satisfies the named
assumption of the module (`ServiceAssumption`, `RelayAssumption`, `NotifierAssumption`,
`PoolAssumption`, `CacheAssumption` with `ListAssumption`, `ServerAssumption` with
`InstanceAssumption` and `PagesFitAWord`): natural numbers are natural numbers,
identities are finite sets (ids of orders are uint64), None is none of the values it
stands beside, and pages and counts have half the bits of `Word`.

**`OrderServiceProofs`.** The invariant `Inv` conjoins `TypeOK`,
`LockedInsideTransaction`, `TablesOK`, `KnownVersions` and `CallsOK`. None of the
safety properties is inductive alone: that the tables agree after a commit needs
to know what the committing call's transaction contains (`Pending` in `CallsOK`)
and that nobody else writes the row meanwhile (the locks); that the change is
lawful needs that the call still remembers a version (`GroundsToMove`), which
survives because histories only grow (`HistoryGrows`). From `Invariance` follow

* `TypeCorrect`, `LocksAreReleased`, `RowsMatch`, `EventsMatch`, `EventsAddressed`,
  `AcceptedAtMostOnce`, `OnlyCommittedIsKnown`;
* `OverlapRefinement`: for any number of overlapping calls (`MaxInFlight # 1`) the
  service implements the ledger in which a change follows from some version of its
  order. Its heart is that a commit maps to `Accept`, `Move` or `Revive`, every other
  step to a stutter: the checks let pass what is `Warranted`, lawful or a revival.

When calls come one at a time (`MaxInFlight = 1`) the ledger asks for more: a change
follows from the *last* line, and is not stamped before it. That is false of the code
in general, and true here for a reason no single step shows, so it
needs an invariant of its own. `SerialOK` says that one call at most is in flight,
that what the cache holds is the row, that no row is from the future, and, for the
call that is alone (`AloneOK`), that its copy is the row (`fill`, `check`), that its
decision is warranted by the row (`stamp` to `commit`), and that inside its transaction
the order is not cached, so that a rollback leaves nothing behind. From it
`SerialCopies` (the cache of orders is never behind the table), `SerialRefinement`,
and with `OverlapRefinement`

* `Refinement`: `Spec => ImplementsLedger`, for every value of the constants.

`SuccessesAreRecorded` counts: a commit adds one line to the tables and one call to
those that were told something, every other step adds to the second set alone. It
adds to `Inv` that a call has an answer only when it is over, and that the sets
counted are finite (`CountsOK`), since a crash ends all calls in flight at once.

**`NotifierProofs`.** `Inv` adds to the types that committed <= marked <=
position, with the message in hand above the mark, and how far the valid events
have been logged (`ProgressOK`): everything marked; everything taken, except the
message in hand. From it: `DeliveredBeforeCommit` (at least once), `InOrder`,
`CommittedStaysDone` (an action property), and with `CopiesOK`, which splits the
copies in Telegram into those of earlier sessions and of this one,
`CopiesBounded`.

**`OutboxRelayProofs`.** All theorems assume `OneWorker`, the deployment; with
two, most of them are false. `Inv` says what the worker's copies are worth: the
ids of phaseOne are rows still CREATED (`IdsOK`), the batch of phaseTwo are rows
still PROCESSING whose counter has not moved (`BatchOK`, `CurOK`), the rows
ProcessDLQ holds have retries left (`GravesOK`), and what has been buried is
FAILED (`BuriedOK`). The statements update by id and without a condition, so each
property rests on what was true when the row was read: SetProcessing cannot reopen
a finished row because of `IdsOK`; attempts stay within three because the copy
still agrees with the row. `InvHolds` is inductive under every fault; from it
follow `NothingIsLostUnsent`, `AttemptsAreBounded`, `NobodyIsBuriedTwice` and
`FinishedIsFinal`. Three theorems exclude faults, as their properties must:

* `GivenUpIsKept` (no database fault, no crash) adds `SentOK`: a row of dlq is
  deleted only behind a send. A crash between MarkFailed and the commit of the
  INSERT loses the message.
* `NobodyIsToldTwice` (only sends fail, and then nothing was published) adds
  `OnceInv`: what is in the topic is finished or about to be, what is in dlq is
  not in the topic, and ProcessDLQ holds one row of each message.
* `NobodyIsOvertaken` (no database fault, no crash) adds `OrderedOK`: a row no
  attempt was made at is in the batch, in hand, or younger than both; it rests on
  ORDER BY and LIMIT, by a lemma on cardinalities (`OldestAreOlder`).

**`ListingsProofs`.** `PagesDoNotWrap`: pages and counts are uint32 and the word
is their square, so `Paginate` modulo the word is the slice of exact arithmetic,
for lists of any length. `RowsOfAPage` and `EveryRowIsShown` say that the pages
are a partition of the list: the i-th row of page p is row (p - 1) * count + i,
and row k is on page (k - 1) div count + 1. `PagesAreByRank` adds the order of the
query: row k of a list sorted by last update has fewer than k newer rows and at least
k as new (`RankOfRow`, by counting the first rows of a sequence without repetitions),
so a page shows the rows of its ranks whatever the order among equal times. They hold
of one list; between two calls the list can change, and a row can be seen twice or
not at all.

**`WorkerPoolProofs`.** That a handler runs at most once needs to know where its
job is: in the queue once and untouched (`QueueOK`), or in the hand of one worker
that has not started it (`TakenOK`), or started (`RunsOK`). The counter of active
workers is the number of workers at work and of requests that run their own job
(`ActiveOK`, by cardinalities), and `CloseOK` ties the flags and channels to the
statement at which Close is. `PoolInvariance` gives `HandlersRunOnce` and
`ClosedPoolStopped`. `CountsAreRight` assumes `OneAdmin`, one connection to the
admin server, and adds `WorkersOK`: what goroutines, tokens and counter are to each
other while Resize is between its statements. With two connections it is false.

**`OrdersServerProofs`.** An item commits what it has decided earlier, so the
refinement needs that a decision stays warranted (`Grounded` in `ItemsOK`): rows keep
receiver and limit, histories only grow, and a change of the courier is bounded from
below, so a later stamp does it no harm (`StepStamp`). `JudgedLawfully` shows that
each operation's list of checks, of which the first that fails decides
(`FirstFailure`), lets only changes pass that are lawful or a revival (`Warranted`).
From `ServerInvariance` follow `ServerTypes` and
`ServerRefinement`. `ServerIsHonest` adds `OutcomesOK` (what the handler returned,
while nobody has been told) and `AnswersOK` (only InvalidArgument is told while the
handler works); behind it is `FailuresOK`, that a batch with an item that failed has
an error, and that an error with a reason comes from an item that changed nothing.
It assumes `NoneIsNoAnswer`: None is not a record of a code and a value.

**`ServerRecordsProofs`** adds what the server keeps and shows.

* `OrdersAreStoredAsSent`: a request that was let in has passed its rules at some
  time (`MessagesOK`), an item at work has looked at the weight, and the row an item
  inserted is still there (`RowsOK`), because a second INSERT does nothing and no other
  change alters these columns. That a package survives the way to its code and
  back is `PackagesBack`.
* `CountersFollow`: a change in hand has a status of its request (`ChangesOK`), and each
  counter is the cardinality of a finite set of items (`CountsOK`). `Commit` adds one
  item to one set and, for an acceptance, one to its counter; `Finish` moves the
  committed items of a batch into the sets of calls that are over and adds their
  number. For the courier it is an inequality, as in the code (section 5).
* `ListsArePages`: an answer OK of a list was given by the step that read the tables
  (`ReadsOK`, `AnsweredByRead`), the rules let no page of no rows in (`RulesOfPages`),
  and `PagesAreByRank` does the rest; an order is on a page once because a row is
  determined by its order (`TheRows`).

**`ListCachesProofs`.** Every method of `LRUCache` keeps a cache `Tidy`: its list has
no repetitions and holds the keys of its map (`RemoveFromList`, `PushOnList`,
`PrefixOfList`, then `GetKeeps`, `SetKeeps`, `DeleteKeeps`, `CleanupKeeps`,
`OlderKeeps`); that CleanupExpired's walk ends at a last fresh entry is a theorem on
well-founded sets (`Least`, `Greatest`). So `MapAndListAgree`. `OldCopiesAreDropped`
needs that whatever an open transaction has deleted is not cached or was stored since
(`DeletedOK`), and that a change alters only the lists that are deleted for it
(`OthersAreSame`). The bound on the log needs to count open transactions (`CountOK`).

**Only model-checked:** liveness (`ListsSettle`, `EveryMessageEnds`,
`EveryRequestReturns`, `ShutdownEnds`, `EveryEventIsLogged`), which is out of the
prover's reach. Every safety property of a passing run is a theorem. The lists of
ListOrders, whose queries have no ORDER BY, have no property of their order.

## 5. Where documents and code disagree

Each of these has a run that finds it and an entry under "findings":

1. `gone_with_courier`: an order that went back to the courier, which
   `docs/homework-1` removes, lives on. It can be issued, at the very instant of its
   limit, which both operations let pass, although `docs/homework-3/checks.md`
   refuses to issue an order that is not in the pick-up point; and the client, to
   whom it was never issued, can return it. Statuses are checked by exclusion, and
   each call is legal on its own. TLC stops at the first of the two (accept, courier,
   issue); the other (accept, courier, return) is as long.
2. `stale_cache`: a reader refills the cache between invalidation and commit, and
   a later call, which does not overlap the first issue, issues the order again.
3. `relay_stuck`: after a crash behind the third attempt a row stays PROCESSING
   for ever, because it is counted before its outcome is known and only rows
   with fewer than three attempts are selected.
4. `pool_hang`: after a resize beyond twice the initial size the shutdown never
   ends: Close sends tokens that nobody takes any more.

The models show the following too, as behaviours of their specifications, without
a run of their own:

* a parcel of exactly 10 kg in a bag, or 30 kg in a box, is accepted
  (`accept_order.go:30` refuses what is above the limit), although
  `docs/homework-2/README.md` (15, 17) and its `checks.md` (5, 6) want the weight
  below it. Such parcels are stored in the run `server` (`import`), and
  `StoredAsSent` says "not above the limit", as the code does;
* two overlapping calls issue one order twice: both decide on the order in storage,
  and the UPDATE has no condition, so the second issue is of an order that is with
  the client, against `docs/homework-3/checks.md:11`. For the same reason an order
  issued meanwhile is overwritten as taken back unissued, and an issue that began
  before the limit can be written behind a return to the courier that was made after
  it. This is why `OrderLedger` promises of overlapping calls only that a change
  follows from SOME version, and why `ImplementsLedger` in `race` and `server` does
  not exclude an overwriting;
* FOR UPDATE SKIP LOCKED outside a transaction reserves nothing, so two relay
  workers take the same rows (one is deployed);
* the shutdown drops queued requests, and a request in flight at the signal
  panics on the closed queue; both are answered (`EveryRequestReturns`), with an
  error;
* two resizes at once leave the counter of workers wrong, which is why
  `CountersAreExact` is checked with one admin connection;
* between a commit and the end of the TTL a list can be served that lacks the
  change, and a client can see a list and later an older one; `ListsSettle` is
  what remains true. CleanupExpired can pass over an expired entry that was used
  after its neighbours, which is why it takes more than one of its rounds;
* a message that does not parse is committed by the next success, although
  `docs/homework-7` has offsets committed after successful processing; hence
  `NothingSkipped` speaks of valid events.

And of the server (`OrdersServer`):

* a list without pagination is empty: the handlers pass page 0 of 0 rows, which
  `Paginate` takes for no rows (`PageOf`), although `contract.proto` has the field
  optional;
* the report of an import counts as imported what its one remaining error does not
  mention, so items that were cancelled count; "Order 1" is found in an error about
  "Order 12"; an error without an id reports success (`ImportResult`);
* ProcessOrders wraps its error into text, so every refusal is InvalidArgument, and
  so are time-outs and database errors; NotFound and FailedPrecondition come from
  the single operations only (`Respond`);
* a deadline missed behind the commit is DeadlineExceeded (or InvalidArgument, when
  the pool gave up first) for a change that is there: `AnswersAreTrue` reads the
  codes accordingly;
* the deadline of an imported order is cut to its date (`StorageUntil`);
* an order without a package writes '' into a column with a foreign key, so
  AcceptOrder fails for it (`Storable`);
* the counter of orders handed to the courier is incremented inside the
  transaction, before its commit; `CountersFollowTheLedger` has an inequality there.

Noticed and not checked here: the loops over `rows.Next()` never ask `rows.Err()`,
so a query cut short is a shorter list; the metrics interceptor sits inside the
error mapping and records Unknown for domain errors; BeginTx holds txMutex while it waits for a
connection; with one connection in the pool moveToDLQ would wait for itself (the
configuration has 20); the producer sends without a key, so
with several partitions the events of an order would not be ordered; the dlq
error text is not the documented NO_ATTEMPTS_LEFT.

## 6. Not modelled, and why

* CLI, gateway, Swagger server, configuration, tracing: translation and wiring
  without state.
* Generated code except its rules for requests: serialisation, clients, HTTP
  bindings, and the rules of responses, which nobody checks. Mocks and tests.
* The gauges of RefreshOrderStatusMetrics: no state of the program depends on them.
  They go wrong in every execution in which the last order of a status leaves it,
  which one look at the code shows and no interleaving is needed for.
* Queries that are cut short, floats that are no numbers, ids beyond 2^63.
* Connection limits of the database client: a statement without a connection is one
  that fails.
* The branches for a nil database client: `main` always passes one; only unit
  tests reach them.
* FailMessage, IncrementAttempts, LRUCache.DeletePrefix: no caller.
* packageRulesCache: nothing writes the rules it copies.
* The crash of the service in `ListCaches`: it empties the caches, like
  ClearCache, and ends readers and transactions, like QueryFails and Fail.
* The rate limiter's store is a library; its count per sender is `spent`, with one
  sender.
* A composition of service, relay and notifier. They share no variable but the
  outbox and the topic, and each interface is an assumption one module makes and a
  property another one has: a committed change has exactly one event in the outbox
  (`OneEventPerChange`), which the relay takes as `Arrive`; COMPLETED means that it
  is in the topic (`CompletedIsPublished`), which the notifier takes as its log. A
  product of the three would check nothing that these do not.

## 7. What would come next

In order of worth: the safety parts of the liveness properties as theorems (how old a
list that is served can be; that Close never sends more tokens than fit as long as
nobody resizes); theorems about several workers of the relay whose rows are disjoint;
the report of an import as a theorem of which of its items are called imported.
