# StoreLink: TLA+ models, checks and proofs

StoreLink is a small shop: users list products, order them and look at their
order history; delivery robots ask for a delivery plan, which takes a load of
waiting orders, and later report each order's status. The backend is a Go
server over MySQL (`webapp/backend`). Beside it stands a benchmark worker that
takes load-test requests from a queue (`benchmarker/worker`), a Next.js front
end and an end-to-end test suite.

What can go wrong here is concurrency: several requests work on one `orders`
table, two of them in goroutines that their handlers may abandon; a cache of
totals sits between the tables and the lists; the map of sessions is shared by
all requests without a lock; workers take load tests from a queue that delivers
again what they do not finish. The modules below model these parts and the load
search that decides what a robot takes, and prove the main properties for every
number of requests, orders, products, users, logins and workers.

## Inventory

| Part | State | Operations | Met by | Hard part | Correct when |
|---|---|---|---|---|---|
| Orders table and transactions (`repository/order.go`, `store.go`) | rows with `shipped_status`, AUTO_INCREMENT, open transactions | `CreateBatch`, `GetShippingOrders`, `UpdateStatuses`, `ExecTx` | product and robot services | interleaved transactions, lost COMMIT replies, restarts | batches are all or nothing, answers are true, an order is not offered twice without cause |
| Robot requests (`handler/robot.go`, `service/robot.go`, `utils/timeout.go`) | a goroutine, its error channel, the request context | `GenerateDeliveryPlan`, `UpdateOrderStatus`, `WithTimeout` | robots | the goroutine outlives its handler; overlapping plans | every robot gets an answer, no abandoned work keeps rows, `delivering` has an author |
| Load search (`selectOrdersForDelivery`) | rows of a dynamic program, bitsets | one call | `GenerateDeliveryPlan` | word boundaries, divisor compression, the way back | the plan fits, its totals are its orders', its value is the best the rows promise |
| Order history (`ListOrders`) | count cache of the shared repository | list; invalidation by status updates and inserts | users | count, store and page are separate steps; which cache is invalidated | totals are never ahead of the table, pages show what the user was told, staleness ends |
| Memory cache (`cache/memory_cache.go`) | map under an RWMutex, a cleanup goroutine | `Get`, `Set`, cleanup | both lists | `Get` deletes under the read lock; goroutines never end | as a map with expiry |
| Sessions (`repository/session.go`, `service/auth.go`, `middleware/auth.go`) | a process-wide map | log in, look up | every request | unlocked map, lost at restart | a request is served as no other user than the one who logged in, and refused without a session (it is not, see Findings) |
| Product listing (`repository/product.go`, `handler/product.go`) | count cache | list with search, sort, page | users | a cached total beside rows read later; paging arithmetic, ties | total and rows fit, pages do not overlap |
| Benchmark worker (`benchmarker/worker`) | queue message, request table, dead-letter queue | poll, check, mark, run, post, release, delete | an external queue and table | redelivery, crash between steps, two workers that wait for each other | each request is run and posted, one run of a team at a time |
| Front end (`webapp/frontend`) | React state | fetch, show | users | answers out of order | not modelled, see below |
| Score and k6 scripts, wiring, telemetry, containers, unused caches | - | - | - | none | - |

Interactions. Handlers call services directly (`CreateOrders`) or through
`WithTimeout`, which starts a goroutine and waits for it or for the context
(`GenerateDeliveryPlan`, `UpdateOrderStatus`, `FetchOrders`). Services use the
repositories of one `Store`; `ExecTx` makes a second `Store`, with repositories
and a count cache of its own, for the time of a transaction. Everything else
meets in MySQL.

## Plan

Done, in this order:

1. `OrderStore` (with `OrderStoreProofs`): the orders table under concurrent
   create, plan and status requests - the core of the system.
2. `DeliveryLoad` (with `DeliveryLoadProofs`): the load search, whose promise
   `OrderStore` uses as `Selectable`.
3. `OrderHistory` (with `OrderHistoryProofs`): the history and its count cache.
4. `BenchWorker` (with `BenchWorkerProofs`): the workers that run load tests.
5. `OrderBook`: what the table promises its clients, and `OrderStore` shown to
   implement it (`OrderBookProofs`).
6. `MemoryCache` and what it promises, `ExpiringMap` (with `MemoryCacheProofs`).
7. `ProductList` (with `ProductListProofs`): the product page, its requests and
   the cache, composed.
8. `Sessions` (with `SessionsProofs`): logins, cookies and the session map.

Left:

9. The LIKE filters and the choice of the sort column of the history's main
   query, as `ProductList` has them for the products.

Every module keeps one action per operation or statement, constants as
parameters with named or listed assumptions, and no RECURSIVE operator, so that
it can be proved about.

## Modules

Definitions named `Bad...` are not part of any specification. Each repeats the
definition below it with a plausible bug; putting it in that definition's place
must make a named property fail, which shows that the property looks at the
code at all.

### OrderStore - requests on the orders table

A request is a pair of threads. `worker[r]` is where its service function is
(`read`, `select`, `write`, `commit`, `committing`, `done`), `handler[r]` what
the HTTP side has done (`waiting`, `ok`, `err`, `lost`). `CreateOrders` runs inside
its handler, so only the result can end its wait; the robot requests run in the
goroutine of `WithTimeout` and may be answered first (`AnswerTimeout`).

| Code | Action |
|---|---|
| `ProductService.CreateOrders` | `StartCreate`, `InsertOrders` (with `CreateBatch`), `CheckCommit`, `Commit` |
| `RobotService.GenerateDeliveryPlan` | `StartPlan`, `GetShippingOrders`, `SelectOrders`, `UpdateStatuses`, `CheckCommit`, `Commit` |
| `RobotService.UpdateOrderStatus` | `StartPatch`, `UpdateOrderStatus` (autocommit) |
| an error, and the deferred `Rollback` | `Fail` |
| the COMMIT's reply is lost | `ReplyLost` |
| `utils.WithTimeout` | `Cancel`, `AnswerResult`, `AnswerTimeout` |
| server stop | `Crash` |

The database is external and modelled from what the code relies on. A plain
SELECT sees committed rows and locks none. INSERT and UPDATE lock the rows they
write until the transaction ends, so an UPDATE waits (`Unlocked`) while another
transaction holds one of its rows. Written values become visible all at once at
COMMIT (`Written`). AUTO_INCREMENT never goes back, not even on rollback, and one
multi-row INSERT takes consecutive ids, which is what `CreateBatch` computes its
answer from. An UPDATE takes its locks in one step here: InnoDB takes them one
by one in primary-key order, so two UPDATEs of several rows wait for each other
in one direction only, and should it ever find a cycle it makes one of the two
statements fail, which is `Fail`.

The context is looked at before each statement and once more in
`database/sql`'s Commit, before COMMIT is sent. That is why `commit` and
`committing` are two states: after the look, a timeout no longer prevents the
effect. A crash ends the handlers and all contexts; what the database was
executing may end either way.

Data. Product ids, weights and requested item lists are small sets; order values
are left to `DeliveryLoad`, whose possible answers are over-approximated by
`Selectable`: nothing, everything if it fits, or some load of weighted orders
within the capacity. `MaxOrder` bounds the ids.

Properties (beside `TypeOK`):

- `BatchAtomic`, `AcksAreTrue`, `PlansHoldRealOrders`: batches are stored whole or not at
  all; success answers are true and ids unique; a plan never holds an order of an
  uncommitted or failed create.
- `TakenStaysTaken`: no interleaving of plans, failures, timeouts and crashes offers a taken
  order again; only a PATCH that writes `shipping` does.
- `StrandedOnlyByCut`: an order is `delivering` without a robot that knows only when the
  request was cut short.
- `ReadsNothingTaken` (action): robots that come one after the other share no order.
  Overlapping ones may: both read before either writes.
- `OverwritesOverlapOnly` (action): the UPDATE of a plan does not look at the status again,
  so it may write over one that is not `shipping` any more, but only if whoever wrote that
  committed after the plan's SELECT. `before`, a history variable, is what was durable
  at that SELECT.
- `KeepsTheBook`: the module implements `OrderBook`, see below.
- `LocksReleased`, `RobotsAreAnswered` (liveness).

That a crash between COMMIT and the answer leaves orders `delivering` of which no robot
knows is so in the code and not excluded: `StrandedOnlyByCut` lists the ways to it. That
the ids `CreateBatch` computes are those the table gives out rests on InnoDB's contract
for one INSERT and is not checked, since the model has one variable for both.

### OrderBook - what the table promises

The abstract specification of the orders table: requests take effect at most
once, in one step (`Place`, `Take`, `Mark`), and are answered `ok` only after
it. A shop that was answered, even with an error, will not see its order appear
later; a robot may. `OrderStore` implements it with the mapping at the end of its
module: an order is in the book when its row is committed, a request is effective
when its transaction is durable, the answer is the handler's. So the one step is
COMMIT's execution, wherever its reply goes.

### DeliveryLoad - the load search

`selectOrdersForDelivery` as the steps early return, everything fits,
compression by the common divisor, one row per order, the way back, final look at
the context. The bitset is a set of weights, but `Bases` enumerates it the way the
code does, word by word under `maskUpTo`; `WordBits` is 64 in the code and 2 in
the run, so that a handful of weights crosses several words. The rows are
compared with all sets of orders (`ExactLoads`, `BestWorth`): `RowsAreLoads`,
`RowsAreBest`, `EnumerationIsExact` at each row, `PlanIsALoad` and `FillsExactly` for the
result. `LoadInv`, which the run checks, ties them together: a row entry is the value of
the load that the marks lead back to (`Leads`), the marks are of weights that were
reached, and the way back, wherever it is, has found the rest of the load of the
last row (`OnTheWayBack`). `PlanIsALoad` is what `Selectable` in `OrderStore` takes
for granted; that it is enough is a theorem, `PlansAreSelectable`.

### OrderHistory - totals and pages

A list is `get`, then `count` and `set` on a miss, then `select`; a create request is
visible to it by its COMMIT and its answer; a status update replaces the shared
cache. A create request makes several orders (`By`), all in one transaction. A total is
represented by the set of orders it counts: nothing deletes orders, so comparing sets
compares the numbers. A page is what ORDER BY, LIMIT and OFFSET leave of the user's orders
(`SelectPage`, `Pages`): at most `Size[l]` of them, some order of the sort being given, and
from offset 0, because the handler never sets another. A page with fewer rows than
its limit is complete; one that is `Full` may leave orders out. One entry stands for one cache key. Expiry may come at any time, so the
5 s are not measured. `floor[l]`, what the user had been told of when the list began, is
a history variable.

- `TotalsAreBacked`: no total, cached or answered, counts an order the table does not have for that user, nor does a page; and a page
  that is not `Full` has every order the total counts - it may show more.
- `PageShowsOwnOrders`: a list shows all its user was told of, unless the page is `Full`. `MissesAreFresh`: a total from the
  database counts it, too; only a cache hit is behind.
- `EventuallyFresh`: clients may list for ever; once writers rest, stale totals disappear.

### MemoryCache and ExpiringMap - the cache under its lock

One step is one call of `sync.RWMutex` or one access of the map. The mutex is
external and modelled from its contract: `Lock` announces itself, which stops new
readers, and waits for the readers inside; `Unlock` wakes the stopped readers. Of the
time of an entry the model keeps whether it is up (`over`), which it may be from any
moment after the entry was stored and until it is stored again.

| Code | Action |
|---|---|
| `Get` | `AskGet`, `RLock`, `Look`, `Drop` (the delete of an expired entry), `RUnlock` |
| `Set` | `AskSet`, `Lock`, `Drained`, `Store`, `Unlock` |
| `cleanupExpiredItems` | `Tick`, `Lock`, `Drained`, `Sweep`, `Unlock` |
| an entry's `ExpiresAt` passes; the runtime ends the process | `RunOut`, `Fatal` |

- `MapIsGuarded`: writers have the map for themselves, and a reader that was stopped has a
  writer that will wake it.
- `OnlyGetsCollide`: `Get` deletes under the read lock, so two Gets may be in the map at
  once while one of them writes; the Go runtime ends the process if it notices. The
  property says that there is no other such pair.
- `KeepsAMap`: the module implements `ExpiringMap`, a map with atomic `Get` and `Set` with a
  clock of its own (`RunOut`). Only keys whose time is up may be forgotten (`Forget`), and
  a Set starts the time of its key anew. So neither the sweep nor the delete under the read
  lock ever takes a live or a renewed entry: a writer cannot come between the look and
  the delete.

### ProductList - the product page

`ProductList` extends `MemoryCache`: its requests are the callers of the cache, and
their steps between two calls of the cache are `Got`, `Count`, `SelectPage` and `Fails`
(`ListProducts`), with the defaults and the paging of the handler (`Page`, `Size`,
`Offset`) and the ORDER BY of the repository (`SortField`, `Descends`, `Before`). `Ask` and
`Answer` are a client that calls the handler and is answered; what the front end then
shows is not modelled. Names, prices and texts are left to two tables: which products a search finds, and the order of each column.

- `RowsFitTotal`: whatever mixture of cached totals and rows an answer has, the page
  holds as many rows as the total leaves for it.
- `PagesAreDisjoint`: two pages of one listing, from two requests, share no product, ties
  included.
- `ListsAreAnswered` (liveness): neither the cache nor its cleanup holds a request up for
  ever.

### Sessions - logging in

A login is a handler and a goroutine of `WithTimeout`, like the robot requests. The
session id, a UUID, is the login that made it. Writing the map takes two steps
(`BeginPut`, `Put`) so that a look-up may overlap it and miss a session (`raced`). Two
writers that overlap are assumed to be noticed by the runtime, which ends the process
(`Restart`); an entry that they lose without being noticed is outside the model.

`Right` is the set of logins whose password is accepted. `AuthService.Login` compares the
MD5 of the password sent with one hash written in the source (`auth.go:56-64`); the
user's own `PasswordHash` is fetched and not used. So `Right` says that the password
has that hash, not that it is the user's.

| Code | Action |
|---|---|
| `AuthHandler.Login`, `AuthService.Login` | `StartLogin`, `FindUser`, `LoginFails`, `AnswerResult` |
| `SessionRepository.Create` | `BeginPut`, `Put` |
| `WithTimeout` | `Cancel`, `AnswerTimeout` |
| the browser gets the cookie; logout or the cookie's 24 h | `TakeCookie`, `ClearCookie` |
| `UserAuthMiddleware` | `Request`, `LookUp`, `Done` |
| the process ends and starts again | `Restart` |

- `ServedAsNoOther`: a request that is served as a user is served as the one whose login
  its cookie stems from. Why one is served as user 0, after a restart or beside
  another login, is a part of `SessionsInv` (`NobodyForACause`); that any is, is a finding
  (`ServedWithSession`).
- `CookiesAreTrue`: a cookie, or a success answer on its way, belongs to a login of that
  browser that made a session.
- `SessionsAreKnown`: only logins in `Right` make sessions; an error answered beside a session
  means that the login was cut short.
- `SessionsStay` (action): sessions are taken away by a restart only, those lost by two
  writers counted in.

### BenchWorker - load tests from a queue

`pc[w]` and `job[w]` are where a worker's `processMessage` is and for which request;
one step is one call to the queue, the table, k6 or the score server. The queue and
the table are external: a message is visible, hidden or deleted, and only the
worker that got it last (`holder`) has a receipt that deletes it; of a row the
status is kept and whether it is still `active`, that is, what the filter of
`isDuplicateOrSkip` selects. That a row a worker has marked is `active` is an
assumption about the table: the filter of `isDuplicateOrSkip` compares `UpdatedAt`
with a date literal (`lock.go:27`), and the worker writes `UpdatedAt` as a plain string
(`lock.go:91-104`); the model takes the service to match the two. If it did not, the
mark would hide nothing and `OneRunPerTeam` would not hold.

| Code | Action |
|---|---|
| `pollQueue` | `Receive`, `EmptyPoll` |
| `parseQueueMessage` | `Receive` (unreadable message: straight to `Delete`), `Mark` |
| `isDuplicateOrSkip` | `LookOn` for each row without effect, `Skip`, `Proceed` |
| `acquireLock` | `Lock` |
| `return` on an error of the two above | `GiveUp` |
| `runLoadTest`, `postScore` | `RunLoadTest`, `PostScore` |
| `markFailedAndDrop` | `Drop`, `MarkFailed`, `Delete` |
| `releaseLock`, `DeleteMessage` | `Release`, `Delete` |
| another server submits; the visibility timeout or the hour ends; a restart | `Submit`, `Reappear`, `HourPasses`, `Crash` |

A fault is a failing call, a crash, or a timeout that ends while a worker is at
the request; `MaxFault` bounds them, deliveries are not bounded. A load test or a
score that fails is no fault: the code answers it with `markFailedAndDrop`.
`isDuplicateOrSkip` reads pages of one row; the model lets the worker read the
rows one by one in any order. A failing poll only sleeps and has no action.

- `OneRunPerTeam`: two requests of a team do not run at the same time, unless a fault hit one
  of them. There is no atomic lock: it holds because every worker marks its row
  before it looks. A mark that fails, or that is an hour old, breaks it.
- `FinishedMeansPosted`: no redelivery, crash or failing call leaves a row `finished`
  without a score.
- `CleanEnd`: a message that is gone, and met no fault, left one score and a `finished` row,
  or a `failed` row and a dead letter.
- `QuietTeamEnds` (liveness): a request ends when its team has no other active ones, whatever
  failed on the way. Without that condition it need not; see Findings.

## Runs

| Run | Question | Bounds |
|---|---|---|
| `plans` | may overlapping creates, plans, failures, timeouts and crashes lose, invent or strand an order? | 2 creates of one or two orders, 2 plans, capacity 2, 2 ids, so that the counter also runs out |
| `live_plans` | what may a PATCH change under a plan, is the order book kept, is every lock released, are robots answered? | 1 create of one order or none, 1 plan, 1 PATCH to `shipping` or `completed`, 1 id |
| `completion_undone` | counterexample, see Findings | 1 order |
| `loads` | does the search find what its rows promise? | all lists of at most 3 orders, weights 0, 2, 3, 4 (divisors 1, 2, 3, 4), values 0, 1, 3, capacities 0 to 7 |
| `load_optimal` | counterexample, see Findings | 2 orders |
| `history` | may totals and pages mislead, and does a stale total go away? | 2 clients of a user that list for ever, pages of 1 and of 3 rows, 1 create of his with 2 orders and 1 of another user, 1 PATCH |
| `created_not_counted` | counterexample, see Findings | 2 clients, 1 create |
| `worker` | one test per team, nothing lost, every request ends? | 2 workers, 2 requests of a team, each readable or not, 1 fault at any point |
| `skip_without_progress` | counterexample, see Findings | 1 worker, 2 requests, no fault |
| `product_list` | is the cache a map, do totals, rows and pages fit, is every list answered? | 2 overlapping requests, for ever, 3 products of which two tie, 2 searches (so 2 cache keys), 3 queries |
| `sessions` | who is served as whom? | 2 browsers, 3 logins (one of them not accepted), any number of restarts and requests |
| `session_not_checked` | counterexample, see Findings | as `sessions` |

The bounds are small because the hazards need few actors: an order taken twice
needs two plans and one order, a plan that writes over a PATCH one plan and one PATCH,
a stale fill one slow list and one create, a cache that differs between two lists a second list,
two load tests at a time two workers and two requests of one team.
Two plans together with a PATCH are explored up to the counterexample of
`completion_undone` only; that the safety properties hold there too is what the theorems
say, which remove the bounds. Symmetry is used for
request identities in the safety runs only.

Fairness. `OrderStore` states it as the left side of its liveness properties.
`DatabaseServes`: the database executes what it is sent once the rows are free, a
worker whose context is done is told so at its next statement, and a handler
that can answer does. Arrivals, cancellations, failures and crashes are never
owed. `TimersFire` asks less: the deadline that `WithTimeout` sets passes and its
`select` runs; nothing is assumed of the database. `FairSpec` of `OrderHistory`: what has
started goes on and an entry's time runs out; clients ask when they like.
`FairSpec` of `BenchWorker`: a worker that has a message goes on (k6 scenarios have
a fixed duration), a hidden message nobody works on is shown again, and a message
that is shown again and again is handed out in the end, as the queue serves
about in order. `CacheFairness`: goroutines run, and each writer that waits for the
lock gets it some day although others may be faster again and again (strong
fairness: a `sync.Mutex` is handed to whoever has waited for more than 1 ms).
`FairSpec` of `ProductList` adds that requests go on, which includes that the database
answers their two queries; clients ask when they like.

The type invariants of the modules with an inductive invariant, and `MapIsGuarded`, are
conjuncts of the invariants the runs name (`Inv`, `LoadInv`, `HistoryInv`, `LockInv`, `ListInv`,
`SessionsInv`) and are checked with them.

Deadlock is checked in every run. `OrderStore` rests in `Finished` and
`DeliveryLoad` in `Returned`, which name the states in which it may; a worker with
an empty queue keeps asking (`EmptyPoll`); `ProductList` stops only when the process
has ended (`Dead`).

## Proofs

`OrderStoreProofs` proves, for all sets of requests, products, weights, item
lists, capacities, statuses and any `MaxOrder`, that the specification implies `TypeOK`,
`BatchAtomic`, `AcksAreTrue`, `PlansHoldRealOrders`, `TakenStaysTaken`,
`StrandedOnlyByCut`, `ReadsNothingTaken` and `OverwritesOverlapOnly`. The assumptions are those of the
module: the kinds of requests are disjoint, weights are natural numbers, item
lists are sequences of items, and `none` is no status.

The argument is the invariant `Inv`. None of the properties is inductive alone:
`TakenStaysTaken` needs that whoever writes a taken order later writes `delivering` or is a
PATCH, so `Phases` records which status each kind of request writes and how far it is;
`PlansHoldRealOrders` needs that a stored order has a committed creator
(`StoredHasCreator`) and that what a plan read stays stored (`PlanRowsStored`);
that a create request cannot overwrite another's order needs `IdsGivenOnce`;
`StrandedOnlyByCut` needs `DeliveringHasAuthor` and the part of `Phases` about
answers; `OverwritesOverlapOnly` needs `NewsSinceRead`, that an order in a plan's hands is
still waiting or was written by someone who committed since. The proof
first abstracts the actions to what they do to the requests, the rows and the
table, then shows each part of `Inv` from these facts. TLC checks `Inv` in `plans`.

`OrderBookProofs` proves `OrdersKeepTheBook`, the refinement. From `Inv`, each step of
`OrderStore` is a step of the book or a stutter; `Commit` is the step where an effect
happens, and there `Inv` supplies what the book asks for: the ids of a create were
not placed before, a plan's orders were, the answer has not been given.

`OrderHistoryProofs` proves `HistoryInv`, and from it `TypeOK`, `TotalsAreBacked`,
`PageShowsOwnOrders` and `MissesAreFresh`, for any users, clients and requests.
`HistoryInv` adds that the orders of requests before COMMIT are not stored, those after it
are, and that `floor` is part of what was told; from there each step either leaves the
table alone (lists), lets it grow (creates) or empties the cache.

`BenchWorkerProofs` proves `TypeOK`, `OneRunPerTeam`, `FinishedMeansPosted` and
`CleanEnd` for any workers, requests, teams and any `MaxFault`. `OneRunPerTeam` rests on `LockInv`: a
request without a fault is with one worker at most (`HeldOnce`), because its message is
hidden as long (`HeldHidden`); its row is active from the mark to the end of the
test (`MarkedActive`); so a worker that passes over a row saw one that was not
marked, and the other, which marks later, still has to look (`OnePasses`).
`FinishedMeansPosted` needs only that a worker at `release` has posted. The proof first
reduces every step of a worker to `Moves`, what it does to the one request it has.
`CleanEnd` rests on `EndInv`: while a request meets no fault, the worker that has it
also has its receipt (`ReceiptsHeld`), so it is not delivered again after it was run; its
score comes from that one delivery (`OneDelivery`), and what the worker has done is
known from where it is (`DoneSoFar`).

`DeliveryLoadProofs` proves `LoadInv` for all lists of orders, every capacity and words of
any length, and from it `RowsAreLoads`, `RowsAreBest`, `PlanIsALoad`, `FillsExactly` and
`EnumerationIsExact`. It assumes what the module does: weights and values are natural
numbers (`init.sql` has INT UNSIGNED), a capacity is any integer, a word has a bit. The
definitions the search is built from come first, for all arguments:

- `BasesAreExact`: the word loop under `maskUpTo` visits exactly the members of the bitset up
  to the limit, because a member is in word w at bit b for one pair only, and words are
  ordered as their members are.
- `GcdIsGreatest` and `CommonDivisorIsGreatest`: the divisor of the compression divides every
  positive weight, is not 0 when there is one, and is the greatest such number. By
  induction on the second argument of gcd, and on the number of orders.
- `LoadFacts`: `Weigh` and `Worth` of a load are those of an order of it and of the rest,
  whichever order that is; by induction on the number of orders, since the fold
  that defines the sums takes them in an order of its own.

The induction theorems of the library cannot be used (they take an operator), so each
induction here is over a set of natural numbers that has 0 and every successor, from the
library's fact that a set of natural numbers has a least element.

`LoadInv` is needed because no row property is inductive alone. An entry that is the best
value of its weight stays so only if the entry it is made from was the best among the
orders before (`NoLoadIsBetter`), and that a load without the new order is one of those
uses that every positive weight is a multiple of the divisor (`Compressed`). The way
back follows marks, not values: it needs that a marked weight was reached without the order
(`MarksAreReached`), and that the value at an entry is the value of the load that the marks
spell (`Leads`), or the totals of the plan would be those of another load. There is
one lemma per step of the search; in the step of a row the induction inside goes over the
weights the enumeration visits.

`PlansAreSelectable` connects the search with `OrderStore`: given ids, products and weights
of which the list of orders is made (`Lists`), the ids of the returned plan are a member of
`Selectable`, for the capacity of the search. So the choice in `SelectOrders` leaves out nothing
that the search may return, and the theorems about `OrderStore` hold with the real search in
its place.

`MemoryCacheProofs` proves `CacheInv` for any callers, keys and values, and from it
`MapIsGuarded`, `OnlyGetsCollide` and the refinement `KeepsAMap`, whose clock is the
cache's own. The invariant adds to the
lock's discipline that what a Get is about to delete is over and stays so
(`DropsAreOver`), which holds because only a `Store` renews an entry and it waits for
all readers. `Look` is the moment at which a Get takes effect, `Store` that of a Set,
and `Drop` and `Sweep` forget keys whose time is up.

`ProductListProofs` proves `ListInv` and `RowsFitTotal` for any tables, searches and
queries, and that the list uses the cache as `CacheSpec` allows, so that all theorems
about the cache hold of it. `RowsFitTotal` is the length of a SubSeq of a sequence
that enumerates the products found, `CountsAreRight` says why a cached total is
their number.

`PagesNeverOverlap` is `PagesAreDisjoint` for any tables, queries and page sizes. The ORDER BY with
its second key `product_id` is a strict total order of the products found, so each
row has a place of its own, the number of rows not after it (`PlaceInListing`); two
requests of one listing sort the same products, and their pages are different
stretches of places. The assumption on the tables is that the values of a column
are ranks, integers that order it as MySQL does (equal for ties).

`SessionsProofs` proves `SessionsInv` for any logins, browsers and users, and from it
`ServedAsNoOther`, `CookiesAreTrue`, `SessionsAreKnown` and `SessionsStay`. The invariant ties the four
places a login leaves traces in - goroutine, result, answer, map - together
(`LoginPhases`), and browsers to their own logins (`OwnCookies`, `NobodyForACause`).

Every safety property a passing run checks is a theorem, and so are the refinements of
`OrderBook` and `ExpiringMap`. Only model-checked is liveness, because the prover treats
neither fairness nor ENABLED: `LocksReleased`, `RobotsAreAnswered`,
`EventuallyFresh`, `QuietTeamEnds` and `ListsAreAnswered`.

## Findings

Five properties are violated by the code as it is; a run shows each.

- `completion_undone`: plans read the shipping orders without locking them and update by id
  only (`order.go:93`). A plan that read an order before another plan took it puts
  it back to `delivering` after the first robot has reported it `completed`. The
  end-to-end test expects a planned and completed order to be shown as delivered.
- `load_optimal`: the search answers with the best load of exactly the
  (compressed) capacity. When no set of orders fills it to the brim the plan is
  empty, although the service description says the plan has the maximal value that fits.
- `created_not_counted`: `CreateBatch` invalidates the cache of the
  transaction's repository, not the shared one, so the history's total lacks
  orders that were already acknowledged, for up to 5 s. The comment says the
  cache is invalidated because orders were created.
- `skip_without_progress`: a worker marks a request `running` before it looks for others, and keeps
  the mark when it skips. The team's next request is then skipped because of a
  request nobody works on, and the other way round after the redelivery; every
  redelivery renews the mark. The log message says another request is in progress.

- `session_not_checked`: `FindUserBySessionID` returns user 0 and no error for a session it does
  not have (`session.go:46`), so the middleware never reaches its answer "Unauthorized:
  Invalid session" (`middleware/auth.go:27-31`): after a restart, which forgets the sessions
  and not the cookies, requests are served as user 0. The regulation asks for
  authentication by a session token on every endpoint (`02_Regulation.md:52`).

## Not modelled

Of the history, the LIKE filters and the choice of the sort column: the page is some
choice of the user's orders of the size that the limit leaves. Goroutines
of caches that nobody uses any more: their number grows with every
transaction and every invalidation, but nothing in code or docs bounds it, and
each works on a map of its own. What the front end does with the
answers: its pages send requests without waiting for the one under way and show answers
as they come, and an error clears the rows and keeps the total. Left out for
good: scoring and k6 scripts (inputs, not logic), telemetry, wiring and containers
(no state of the program), and the pattern and redis caches,
`InvalidateCountCache`, `MemoryCache.Delete` and `enqueueToDLQ` (not called).
`PROJECT.json` lists the hazards of these parts with the reason why no property
is about them.
