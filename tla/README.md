# TLA+ models of the Drone Delivery API

Models, model-checking configurations and machine-checked proofs about the delivery service in
`src/`. They cover the part of the service in which several actors change shared state: the
orders, drones and jobs tables with the transactions over them, the middleware that decides whether
a request runs at all, the two together, and the place of a drone in its row and in the cache.

Run everything from this directory: `tlc -config delivery.cfg MCDelivery.tla` (each run of
`PROJECT.json` names its module and configuration), `tlapm DeliveryProofs.tla`.

## 1. Inventory

| Component | Source | State | Operations | Interacts with |
|---|---|---|---|---|
| Aggregates | `order/model.go`, `drone/model.go`, `job/model.go` | one row each | guarded transitions (`Assign`, `MarkPickedUp`, `Reserve`, ...) | called by the workflows between a locked read and a write |
| Repositories | `*/repository.go` | tables `orders`, `drones`, `jobs` | single SQL statements; `Cancel` and `CancelByOrderID` are conditional UPDATEs | PostgreSQL: row locks, foreign keys |
| Delivery workflows | `delivery/repo.go` | none; a transaction | `CreateOrderAndJob`, `CancelOrderAndJob`, `ReserveJobAndAssign`, `GrabOrder`, `CompleteDelivery`, `HandleDroneBroken` | all three tables |
| Drone service | `drone/service.go` | `drones`; location cache in Redis | `Heartbeat`, `EnsureExists`, `UpdateStatus`, `GetDroneLocation` | read and write back without a transaction |
| Admin service | `admin/service.go`, `order/service.go` | none | `MarkDroneFixed`, `AdminUpdateOrder`, broken | likewise, or `HandleDroneBroken` |
| Bulkhead | `middleware/bulkhead.go` | a semaphore per call of `Bulkhead` | take or refuse, deferred release | per route group, `routes.go` |
| Idempotency | `middleware/idempotency.go`, `redis/idempotency.go` | responses in Redis with a time to live | check, run, SETNX | around the handlers of customers and drones |
| Rate limiter | `middleware/rate_limiter.go`, `redis/rate_limiter.go` | a sorted set per address | four pipelined commands | before everything else; fails open |
| Circuit breaker | `middleware/circuit_breaker.go` | state, counter, time of last failure per path | `allow`, `recordSuccess`, `recordFailure` | not installed by `routes.go` |
| Location cache, ETA | `redis/drone_cache.go`, `order/handler.go` | locations in Redis with a time to live | cache-aside read, write on heartbeat | drone service |
| Server lifecycle | `cmd/server/main.go`, `wire.go` | the process | start, graceful shutdown with a time limit, `log.Fatalf` | ends requests at any point |
| Geofence, Mapbox, auth, roles, configuration, logging, migrations, health | several | none at run time | stateless checks and start-up | |

What is hard, and where: transactions that lock the same rows in different orders
(`delivery/repo.go`); handlers that read a row unlocked and later write all of it back
(`Heartbeat`, `MarkDroneFixed`, `AdminUpdateOrder`); withdrawals, which guard themselves only by
the rows their UPDATEs match; breakdowns at any moment, which must put the order back on offer
exactly once; crashes, disconnects and deadlock victims in the middle of a transaction; retries
that overlap, follow a lost answer or arrive in a later leg of the order; a process that ends
between the effect of a request and its stored answer; heartbeats, repairs and readers that write the
place of a drone to row and cache in any order; late results in the circuit breaker; pipelined
commands in the rate limiter. `PROJECT.json` lists each hazard at its line with the properties that cover it.

What makes each component correct:

- tables and workflows: order, drone and job agree in every committed state (`Mirror`,
  `DroneFollowsOrder`, `CarrierBound`, `OneLiveJob`, `JobFollowsOrder`, `OrderHasJob`); finished is
  final; an order goes from offer to drone, by another offer to the next, and ends
  (`ImplementsCustody`); concurrency and crashes add nothing to what indivisible requests can do
  (`Refines`); every request is answered (`Answered`).
- bulkhead: every permit comes back once. Idempotency: one effect per key, one answer per key.
  Both around the handlers: no request, however often repeated, changes a job twice (`MovesJobOnce`).
- location: the cached place, and the place in order details, are old by a bounded time
  (`CacheBoundedStale`, `DetailsCoherent`), and row and cache agree in the end (`Settles`).
- rate limiter: bounded overshoot, no refusal of a client that keeps to the limit, and of the requests
  of a window only few forgotten: those that were under way when the key expired.
- circuit breaker: open exactly from the threshold on, half-open only while probed.

## 2. Modules

```
Custody  (orders on offer, carried, done)
   ^ implemented by                                   DroneLocation   (row, cache, order details)
Aggregates ──> Delivery ──> MCDelivery                CircuitBreaker
   │              ^  ^ used by                        RateLimiter ──> MCRateLimiter
   │              │  └─ Service ──> MCService
   │   implements │       └──EXTENDS──> Gateway       (bulkhead, idempotency, restarts)
   └──────> DeliveryTx ──> MCDeliveryTx               (Service also EXTENDS Aggregates)

proofs: DeliveryProofs <── CustodyProofs <── DeliveryTxProofs;  GatewayProofs;  ServiceProofs (Service,
        GatewayProofs, CustodyProofs);  CircuitBreakerProofs;  RateLimiterProofs;  DroneLocationProofs
```

**Aggregates** holds the rows and the methods of the three models. A method is a pair: `CanX`, its
early return, and `X`, its assignments. A row that was never inserted has status `ABSENT`. `Route`
stands for an (origin, destination) pair within the delivery zone: requests outside it are refused
before any row is touched. Positions, timestamps and the submitter are left out (the submitter is
overwritten by `Cancel` and restricts only reads). `WITHDRAWN` is a status of the code that no
statement writes; `COMPLETED` and `CANCELLED` in the SQL of `Cancel` are kept as they stand there.

**Delivery** is the abstract specification: one action per request, indivisible; a refused request
is a step that does not happen. The UPDATEs of `CancelOrderAndJob` fail when no row matches, so
both guards are conjuncts. `ReserveJobAndAssign` needs the drone's row, because the foreign key of
`jobs.reserved_by_drone_id` is checked before the code that would insert it.
`HandleDroneBroken` is split into the drone without and with an order.

**Custody** says the same without any table: `place[o]` is unknown, offered, carried, done or
withdrawn, `carrier[o]` the drone that has the order, and no drone has two. `Delivery` maps to it by
`Place`, read off the jobs of an order alone (open: offered, reserved: carried, completed: done,
none left: withdrawn), and `Carrier`, read off the order's row: that the tables implement Custody
says that they agree through any number of handoffs. A grab changes rows and no custody.

**DeliveryTx** is the detailed specification: requests are served in slots `Req`, each at a
statement `pc[p]`, with the locks `held[p]` and the uncommitted rows `buf[p]`. One action per
statement: wait for the locks it needs (`Wants`, `Granted`), evaluate the Go code up to the next
statement on the committed rows, then go on or roll back (`Statement`). `Commit` publishes the rows.
`Abort` is a cancelled context, a broken connection or the end of the server at any statement;
`DeadlockVictim` is PostgreSQL failing a transaction in a circle of waits. `BeatRead`, `FixedRead`,
`AdminRead` read without a lock, and their write-back is a transaction of one statement that writes
what was read. Its properties include `Refines == Atomic!Spec` with `Atomic == INSTANCE Delivery`:
the committed tables are the refinement mapping. With the handlers that read unlocked the refinement
is false (`tx_drone_lifecycle`), so `Alone = TRUE` states under which use it is true: a heartbeat,
repair or admin update starts only while no other request may change its row (`Clash`), an admin
update names an order that is there (`HasItsRow`), and the read does not fail. The second condition
is needed from three requests on: before an order is inserted, no reservation of its job can be seen
to clash with an update that names it. Without all that (`Alone = FALSE`), `tx_all` checks what
remains. A circle of waits is `Deadlocked`: the request is in every set that is closed under waiting.

How PostgreSQL is abstracted: READ COMMITTED with row locks in three modes (FOR UPDATE; the lock of
an UPDATE that changes no key; the KEY SHARE lock of a foreign key). A statement that waits reads
the rows as they are when it gets the lock, as PostgreSQL re-evaluates them. `SELECT ... LIMIT 1 FOR
UPDATE` of the job of an order locks all rows it could return: by `OneLiveJob` there is one. A
write-back takes the lock of its row first (`Save`, `SaveLocks`); only then does PostgreSQL check the
foreign key of an order it changed, and wait for that order with the row locked (`save_link`,
`SaveLinkLocks`). `DroneForUpdate` of a
reservation stands for the check that the drone exists and the locking read after it: with the
foreign key satisfied, the drone's row cannot be missing, and no statement deletes rows.
`CreateOrderAndJob` is one step, since rows with new identifiers conflict with nothing before they
are committed; an abort inside it is an abort before it.

**CircuitBreaker** is the breaker of one path. `allow`, `recordSuccess` and `recordFailure` hold the
mutex and are single steps; the handler runs between them. Only whether `failures` has reached the
threshold is ever read, so the counter stops there. Time is the flag `cooled`.

**Gateway** is a route group's bulkhead and, for customers and drones, the idempotency middleware
around a handler, for many requests at once. `ran[k]` counts how often the operation meant by key
`k` took effect, `cache[k]` names the execution whose answer Redis holds, and the history variable
`excused[k]` notes why the operation may be repeated. `Refuse` is every answer
that is not 2xx, a panic included: the permit is released by a deferred call. The bulkheads have the
sizes of their pools (`Capacity`). `routes.go` builds a mutation pool for customers and another for
drones, so that 2 * `MutationPool` mutations may run at once; README.md:145 says mutation(50) and not
of what. `Shutdown` stops new requests; then the process ends when
none is left (`Drained`) or when its time is up (`TimedOut`, the `log.Fatalf` of `main.go`), or it
ends at any time (`Crash`). The process that follows has empty bulkheads; Redis keeps its entries.

**Service** is the routes as a whole: `Gateway`'s middleware around all nine handlers. The six
transactional ones take effect in one step (`Serve`, a request of `Delivery`), which is what
`DeliveryTx` shows of them. The other three do not, and are modelled as they are: `Read` reads a row
and computes the new one, `Update` (before it `Upsert`, when the drone's row was not found or its read
failed) writes all of it back later, whatever has happened to the row meanwhile. `row[p]` is what a
request has read and will write. A crash or a lost connection may come between. Each key is for one operation, `intent[k]`, which a client may send as often as it
likes; requests without a key do anything their group allows. A request under a key on a route
without the middleware is a plain repetition. Three history variables serve `MovesJobOnce`:
`changed[k][j]` counts the executions under `k` that changed the row of the existing job `j`,
`moved[k][j]` those that changed it or the state of its order while it was reserved, and `stale` says
that a row was written back over another than was read.
`MovesJobOnce` is what the guards of the workflows give beyond the middleware. Its first half,
`changed[k][j] <= 1`, holds whatever is written back, because the unlocked handlers never write jobs.
Its second half, `moved[k][j] <= 1`, holds until a stale row is written back: that may turn a
picked-up order and its drone back, and a repeated grab then picks up the order of the same job
again. With one order it takes three requests at once (the grab, and two slow write-backs, of the order and of
its drone), one more than the run has; the theorem covers any number. The property does not say that
repetition is harmless: a repeated placement makes another order, a repeated report of a drone that
was repaired meanwhile breaks it again and moves the job of its next order, and a repeated grab
picks up the order of the next leg if the same drone has it again. Each of these moves another job.

**DroneLocation** is the place of a drone: in its row (heartbeat, Upsert at (0,0), write-back of a
repair), in the cache (heartbeat, readers on a miss), and in order details, which read the order
first. Nothing is locked; every statement and every cache access is a step, and `Fail` ends a request
between any two. A place is the number of the report it came with, 0 the (0,0) of a new row. Time is
counted in ticks: an entry lives `TTL`, a request at most `Delay`. `age` and `gone` are history: how
long ago a place was in the row, and how long ago the drone carried the order. `Carry` and `Release`
are the workflows as far as they concern the one order shown. `Delay` is an assumption about the
deployment: the server sets no time limits on its requests. Neither (0,0) nor a place that a repair
put back is told from a report: each is a place of the row, current while it is there. So the
properties speak of how old a place is, not of whether the drone was ever there, nor of a row that
goes back in time. The status of the drone is left to
`DeliveryTx`, so repairs come at any time. A read of the cache that fails is a miss, as in the code.

**RateLimiter** is the limiter of one address. The four commands of the pipeline are separate steps,
because a pipeline is no transaction; the clock may tick, and the key expire with all its entries,
between any two of them (`Tick`). So a request may lose its entry between its ZADD and its EXPIRE,
and EXPIRE on a missing key does nothing (`Renewed`). Refused requests are recorded as in the code.
The member of the set is the nanosecond: a request that finds one of its own time may add nothing
(`merged`, history). `failed_open` is a pipeline that breaks off anywhere, one that Redis finishes
although its answer is lost included. Retries of a pipeline by the client library are not modelled, and
Redis and the limiter share the clock. The bounds leave out requests that failed open and merged ones,
which no entry stands for.

The operators named `Mutant` in comments are variants of a definition with a plausible bug; no
specification uses them. They show that the properties can fail.

## 3. Runs

Passing runs:

| Run | Bounds | Shows |
|---|---|---|
| `delivery` | 2 orders, 2 drones, 4 jobs, 2 routes; symmetric | type invariant, six agreement invariants, three step properties of `Delivery`, and that it implements `Custody` |
| `tx_refines` | 2 orders, 2 drones, 3 jobs, 2 requests at once, all nine kinds, the unlocked ones alone on their row; symmetric | `Refines`; the shape of the deadlocks |
| `tx_all` | 1 order, 2 drones, 2 jobs, 2 requests, all nine kinds on any row; symmetric | what survives the unlocked handlers: `OneLiveJob`, `ClosedJobsFinal`, and which deadlocks there are |
| `tx_live` | 2 orders, 1 drone, 2 jobs, 2 requests, the six transactions; no symmetry | `Answered` |
| `breaker` | 3 requests, threshold 2 | threshold with late results; a half-open circuit is probed and decided |
| `service` | 1 order, 1 drone, 2 jobs, 2 requests, 1 key, 4 groups, pools of 2, 1 and 1, all faults; symmetric | permits across restarts, first answers, the only reasons for which an operation is repeated, and that a repetition changes no job twice |
| `rate_limit` | 4 requests, limit 2, window 2, 4 ticks, 2 pipelines at once; symmetric | the limit as it really is, the key expiring inside pipelines |
| `location` | 1 drone, 2 requests, 2 reports, time to live 2, requests of at most 1 tick | staleness of cache and order details, agreement in the end |

Why the bounds are enough to see the interesting cases: two orders and two drones let a drone hold
one order while another asks for it, and a job per order and one more per breakdown allow a handoff
(three jobs) and two (four). Two transactions already interleave at every statement, and every pair
of kinds meets on the same rows. A circuit breaker with three
requests has a late result, a probe and a newcomer. In `service`
one request fills a pool of one and two fill the mutation pool, two attempts under a key overlap or
follow each other, a slow write-back meets a transaction on its row, and two jobs are those before and
after a breakdown of the one order. In `tx_live` two orders let two reservations of one drone through
different orders deadlock on its row. In `location` two
requests are a heartbeat and a reader, a heartbeat and the one that overtakes it, or a repair and a
reader, and a silent request is one that fails; drones do not share rows or entries, so one is enough.
The bounds of `CacheBoundedStale` and `DetailsCoherent` are tight: with any of them one less, TLC
finds a counterexample.
Four requests with a limit of two have a refused request and one after it. `MaxRuns` stops counting
executions of a key at two, the first repetition; `Horizon` ends the clock after the
first window has passed; `OutOfIdentifiers` gives a request up once `OrderID` or `JobID` is used up,
like an interrupted one. The proofs need none of these bounds.

`CHECK_DEADLOCK FALSE` is in the rate limiter's run: when the clock has reached `Horizon` and every
request was served, nothing happens.

Runs that end in a counterexample, each against a sentence of the repository (quoted in
`PROJECT.json`):

| Run | The documentation says | The code |
|---|---|---|
| `delivery_withdraw` | only a pending order is withdrawn; a drone gets BROKEN from any state | withdraws assigned and picked-up orders, whose drones cannot be reported broken any more |
| `tx_drone_lifecycle` | the lifecycle of a drone | a heartbeat undoes a reservation |
| `breaker_panic` | half-open allows one probe | none, for ever, after a panic |
| `gateway_disconnect` | safe retries | the retry of a committed operation runs again |

Other differences met while modelling, which have no run of their own: `Cancel` writes `CANCELLED`,
which is none of the seven documented statuses, so `IsTerminal` is false for a withdrawn order; an admin update undoes a reservation as a heartbeat does; a late failure
reopens the circuit while its probe runs, so two probes may overlap; an overlapping retry is
executed too (one of the reasons in `RepeatsExcused`); there are two mutation pools of 50; refused
requests count in what README calls a token bucket, interleaved pipelines admit more than the limit
(`OvershootBound`), and a key that expires inside a pipeline forgets a request that was let through
(`FewForgotten`); "Ensure drone exists, then reserve it" (`delivery/repo.go:114`) comes too late,
since for a drone without a row the UPDATE at line 94 has already failed on the foreign key
(`CanReserve` asks for the row); order details may show (0,0) for a drone whose first heartbeat failed
half-way.

`Answered` is checked for the six transactional kinds only. `OneLiveJob` and `ClosedJobsFinal` of
`tx_all` speak of jobs: what stale write-backs do to the rows of orders and drones is not ruled out by
the code, and `tx_drone_lifecycle` shows an instance.

## 4. Fairness

- `tx_live`: strong fairness of every request's next statement. PostgreSQL queues the waiters of a
  row lock, so a statement that can get its lock again and again gets it; weak fairness would not
  do, since other transactions may take the row in between. Weak fairness of `DeadlockVictim`: the
  detector runs `deadlock_timeout` after a wait began and finds every circle. `Start` and `Abort`
  are not fair: clients need not send or give up.
- `breaker`: weak fairness of the result of a request: a handler returns. Neither the arrival
  of requests nor the end of the cooldown is assumed. Panics are in `PanicSpec` only,
  since after a panic the claim is false (`breaker_panic`).
- `location`: weak fairness of every request's next statement and of the clock: requests end, by
  their time limits if not otherwise, and time passes. That heartbeats and repairs stop is the premise of `Settles`. That
  a request ends within `Delay` is assumed, not enforced by the server (section 2).

## 5. Proofs

`DeliveryProofs` proves properties of `Delivery` for tables of any size, assuming only
`NilAssumption` (NULL is no identifier and no route). None of the wanted invariants is inductive by
itself. `Mirror` after a completed delivery needs that the drone's status goes with its order;
`OneLiveJob` after a breakdown needs that the order which the drone names is assigned to it
(`Mirror`), so that its one live job is the cancelled one (`JobFollowsOrder`); `JobFollowsOrder`
after a reservation needs that the job was the order's only one. So the invariant is their
conjunction

    IInv == TypeOK /\ (Mirror /\ DroneFollowsOrder /\ CarrierBound)
                   /\ (OneLiveJob /\ JobFollowsOrder /\ OrderHasJob)

Lemmas about rows come first: which fields each method changes (`OrderRows`, `DroneRows`,
`JobRows`, `CancelledJobs`). Then each action has a lemma `...Step` that shows it keeps the
six conjuncts, and `StepIInv` joins them by the disjuncts of `Next`.

| Theorem of `DeliveryProofs` | Statement |
|---|---|
| `TypeCorrect` | `Spec => []TypeOK` |
| `Consistent` | `Spec => []IInv` |
| `AlwaysMirrored`, `DronesFollowOrders`, `NeverLost` | `Spec => []` of `Mirror`, `DroneFollowsOrder`, `CarrierBound` |
| `NeverOfferedTwice`, `JobsFollowOrders`, `NeverOrphaned` | `Spec => []` of `OneLiveJob`, `JobFollowsOrder`, `OrderHasJob` |
| `FinishedStayFrozen` | `Spec => FinishedOrdersFrozen`: the withdrawal of a delivered order is refused only because its job is completed |
| `AlwaysReleasedTogether` | `Spec => ReleasedTogether` |
| `AlwaysCredited` | `Spec => CreditedToCarrier` |

`CustodyProofs`: `DeliveryKeepsCustody`, that is `Spec => ImplementsCustody`. Under `IInv` the place
that the jobs give an order and the carrier are functions of its own row (`PlaceByRow`: `Where`,
`Bearer`). So an action that changes one order's row changes one place, and each action of `Delivery`
is a step of `Custody` or a stutter. That a drone takes no second order is `Mirror` and
`CarrierBound` before the reservation.

`GatewayProofs`, assuming `GatewayAssumption` (finitely many request slots, pools that are not empty):
`TypeCorrect`, `PermitsAlwaysBalance`, `RepeatsAlwaysExcused`, `FirstReplyAlwaysStays`. The permits
need only `Balanced` (types, the balance itself, and which requests have a key). The repetitions need
`Retried`: as long as a key has no excuse it is `Orderly`, that is, it has one request at a time,
which is not about to execute if the operation took effect, and the answer is stored or about to be.

`ServiceProofs`, assuming also `NilAssumption`: `ServiceUsesGateway` (a step of the service is a step
of the gateway or a stutter), `ServiceMiddleware` (so the gateway's theorems hold here),
`NeverMovesAJobTwice`, `ServiceSpec => []MovesJobOnce`, and `ServiceKeepsTablesUnlessStale`,
`ServiceSpec => [](stale \/ P!IInv)` with the inductive invariant of `DeliveryProofs`. The invariant is

    SInv == Balanced /\ Done /\ stale \in BOOLEAN /\ (~stale => Agreed)

`Done` holds whatever is written back: rows have their types, what a request will write is what its
handler makes of the row it read (`RowsOK`), and if an operation has changed a job, it is `RowSpent` on it:
the job is closed, or it is reserved and the operation is a reservation. `Agreed` adds, until
a stale row is written, that the tables agree, and that an operation that has moved a job is
`Spent` on it: it is `RowSpent`, or the order of the job is picked up and the operation is a grab. Neither
is ever undone, and a spent operation cannot move the job. The key lemma about write-backs is
`FreshWrite`: if the row is still the one that was read, the write-back is a request of `Delivery` or
changes nothing. The second half of `CustodyProofs` has the lemmas, one for each request, on what it does
to existing jobs.

`CircuitBreakerProofs`, for every threshold and number of requests: `TypeCorrect`,
`AlwaysOpensAtThreshold`, `AlwaysProbed`. The three invariants together are inductive.

`RateLimiterProofs`, for every limit, window, concurrency and horizon: `TypeCorrect`, `ForgetsFew`
(`Spec => []FewForgotten`), `RefusesOnlyOverLimit`, `OvershootAlwaysBounded`, `AllowedAlwaysBounded`.
The invariant adds that requests asked no later than their latest command ran (`Times`), that
the key outlives the window of every request decided on, and of every one that it lost inside its
pipeline (`Outlives`), that the log holds only requests that were added, and nothing that was added
before the window of one that is about to count (`Logged`), that a reply to ZCARD is at most the number of
other requests that share the time of the asker, and a refused request got the limit or more
(`Counted`), and that at most `Concurrency` requests are in their pipelines (`FewAtOnce`).
`FewForgotten` is kept when the key expires because those it takes out of their window are in their
pipelines: what was decided on, and what was forgotten earlier, is older than the window (`Outlives`).

`OvershootAlwaysBounded`, `Spec => []OvershootBound`, bounds the requests of the window that will be
admitted and that later ones count, or will count (`Bounded`). When one more gets a count below the
limit, each of the others is in the set it counts or still in its pipeline. `AllowedAlwaysBounded` adds
the forgotten ones: at most `MaxRequests + 2*Concurrency - 1` requests of the present window are
allowed, and `MaxRequests + 3*Concurrency - 1` of any window that has passed, since those under way
when it ended may still be let through.

`DroneLocationProofs`, for any number of drones, requests and reports, any time to live and delay:
`TypeCorrect`, `CacheStaysFresh`, `DetailsStayCoherent`. The invariant follows a place on its way. The
one in the row is of now (`RowCurrent`); a place that a request took from the row or put there is no
older than the request (`PlacesAge`); so it enters the cache at most `Delay` old, and from then on
what it gains in age its entry loses of its time to live (`CacheAges`). The drone shown in order
details carried the order when the request began (`CarrierAges`). Each step but the clock's
can make nothing older (`Younger`); the clock's keeps all the sums.

`DeliveryTxProofs`, for any number of concurrent requests over tables of any size, assuming
`NilAssumption` and `TxAssumption` (the kinds are kinds, the identifiers of orders, drones and jobs
differ).

| Theorem of `DeliveryTxProofs` | Statement | Under |
|---|---|---|
| `AlwaysIInv` | `Spec => []IInv` | any use |
| `TypeCorrect` | `Spec => []TypeOK` | any use |
| `NoOrderOfferedTwice` | `Spec => []OneLiveJob` | any use |
| `ClosedStayClosed` | `Spec => ClosedJobsFinal` | any use |
| `DeadlockOnlyThroughThem` | `Spec => []DeadlockNeedsReserveOrBroken` | any use |
| `TransactionsRefineDelivery` | `Spec => Refines` | `NoneStale` |
| `TablesAlwaysAgree` | `Spec => []` of the six agreement invariants of `Delivery` | `NoneStale` |
| `TransactionsKeepCustody` | `Spec => Atomic!ImplementsCustody` | `NoneStale` |
| `TransactionsKeepHistory` | `Spec =>` the three step properties of `Delivery` | `NoneStale` |

`NoneStale` says that `Alone` holds or that no kind of `UnlockedKinds` occurs: without it the
refinement is false (`tx_drone_lifecycle`). So for the six transactions the theorems are
unconditional. The last three follow from the refinement and the theorems of `DeliveryProofs` and
`CustodyProofs`.

The argument is ownership. A request owns the rows it has locked in a mode that keeps writers out.
`Phase(p)` says for each of its statements which rows it owns, that the guards passed so far hold of the
committed rows, and that the buffer holds exactly what the methods make of these rows. The invariant is

    IInv == TablesOK /\ JobsHaveOrders /\ RequestsOK
            /\ Phases /\ Exclusive /\ LockedPresent /\ NewAreUnique

No two requests own a row (`Exclusive`), owned rows are there (`LockedPresent`), and rows that are not
there yet are on their way in one request only (`NewAreUnique`). `SteadyPhase` is the heart: a step of
another request leaves everything a phase relies on (`Steady`). The delicate part is the set of jobs of
an owned order. A job inserted or linked meanwhile would escape a cancellation; it cannot be, because
whoever inserts a job for an existing order owns that order. A statement keeps the invariant if it
leads to the next phase (`LocalKeeps`, `Going`; one lemma per statement), and a commit writes rows it owns
(`CommitOwned`). The write-backs of the unlocked handlers change neither jobs nor what is
there; that they take the row's lock for the write protects the phases of the others, whatever they write.

`OneLiveJob` and `ClosedJobsFinal` need what a commit does to jobs (`JobWritten`): it moves a job that is
open or reserved, or inserts one for an order that has no live job left. `Refines` needs that what the
unlocked handlers have read is still so (`Exact`), hence that no other request writes its row, hence
`NoClash`, which commits preserve because a write makes nothing reachable but rows that were reachable
before or are new (`Reaches`, `RowsGrow`); then every commit, and the Upsert of a heartbeat, is the
step of `Delivery` of its kind, and every other step changes no table (`WhoWrites`).
Deadlocks need only the order of the locks (`InOrder`): withdrawals, grabs and completions
lock orders before drones before jobs, so along a chain of waits among them `Stage` grows. Repairs and
admin updates lock one row and wait for nothing more. A heartbeat that writes an old order back waits
for it with its drone locked; that is the last disjunct of `DeadlockNeedsReserveOrBroken`, and under
`Alone` it cannot be, because the order it writes is the one in the row (`Exact`). The chain is
the least set closed under waiting, so the argument needs no induction over its length.

The proof also corrected the model: under `Alone` it had allowed an administrator to name an order
before it was inserted, and the invariant was not inductive there; with three requests TLC then
showed the refinement violated.

Only model-checked: liveness (`Answered`, `ProbeDecides`, `Settles`), which the prover cannot do
under fairness. The four claims of the documentation that fail are counterexamples and have no theorem.

## 6. Not modelled

- ETA and geofence: floating-point arithmetic without state (the code uses 30 km/h where README says
  50). The geofence is the choice of `Route`.
- Authentication and roles: they fix the subject of a request and keep no state.
- Lists, counts and pages: reads that promise no more than a snapshot per statement. A total and its
  page come from two statements and may disagree.
- Mapbox, which no handler calls; the job service's own `ReserveJob`, `CompleteJob` and `CancelJob`,
  which nothing calls; `RequireIdempotencyKey`, which no route uses.
- Start-up (connections, migrations, wiring), which is sequential and over before the first request;
  configuration, logging, health.

## 7. Plan

Every invariant, step property and refinement of the passing runs is proved. What is left:

1. A discipline of locks or columns for the unlocked handlers under which `Refines` holds without
   `Alone`.
2. `Service` around `DeliveryTx`, so that the six transactions, too, run statement by statement below
   the middleware.
