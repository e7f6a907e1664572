# Weelo backend: specifications, model checking and proofs

These modules specify the concurrent core of the Weelo backend (`src/src`): how
transporters claim the trucks of an order, how a claim becomes an assignment, how
drivers answer it, how claims, orders and bookings end when a request, a process,
a driver or the customer gives up, and the two ways the system remembers to do
something later, its job queue and its outboxes. Everything here is read from the
code; where a comment or a document of the repository promises something the code
does not do, a run shows it.

## 1. Inventory

PostgreSQL (through Prisma) holds the state that matters; Redis holds locks,
timers and job queues; several Node processes run the same code. A handler is a
sequence of awaited calls: each transaction or single statement is atomic, and
anything may happen between two of them.

| component (code) | state | operations | hard behaviour | what makes it correct |
|---|---|---|---|---|
| Truck hold, legacy (`modules/truck-hold/truck-hold.service.ts`) | `TruckHoldLedger`, `TruckRequest`, `Assignment`, `Vehicle`, `Order.trucksFilled` | hold, confirm with assignments, release, 60 s sweep | reads before transactions, writes after them, crashes in between | no double booking, exact counts, no truck re-opened or stranded |
| Two-phase hold (`flex-hold`, `confirmed-hold`) | the same rows with `phase`, `flexExpiresAt`, `confirmedExpiresAt`, counters; Redis locks and state cache | create, extend, confirm phase, driver accept/decline/timeout | check-then-create, unguarded updates, re-entrant locks | bounded extensions, one confirmed phase, every hold ends |
| Hold expiry and reconciliation (`modules/hold-expiry`) | queue jobs, ledger | FLEX and CONFIRMED expiry jobs, scan | job against sweep against scan; stale jobs after an extension | every hold ends, none too early, its trucks and vehicles come back |
| Order cancellation (`order-cancel.service.ts`) | all rows of an order, lifecycle outbox | cancel | races with holds and confirms | cancellation wins and leaves nothing behind |
| Order expiry (`order-timer`, `order-lifecycle-outbox.handleOrderExpiry`, `cleanup-expired-orders.job`, `smart-timeout`) | timers in Redis, order rows | timers, orphan recovery, expiry | stale read then unguarded write, timer lost in a crash | trucks and vehicles of an expired order come back; an order moves along its state machine |
| Lifecycle and dispatch outboxes (`order-dispatch-outbox`, `order-lifecycle-outbox`) | outbox rows | enqueue, claim, process, retry, dead letter, redrive | several pollers, crash while processing, late writes | bounded retries, no two owners, every row ends |
| Driver response (`assignment.service`, `confirmed-hold`) | assignment, truck request, counters, vehicle | accept, decline, timeout, cancel, status update by id, complete, reconcile | answer against timeout, half-done decline, writes by id after a stale read | one final answer, counts and vehicles follow it |
| Job queue (`queue.service.ts`) | Redis lists, sorted set, processing hash, dead letters | add, work, retry, poll, recover | crash while processing, early recovery, overlapping polls | no job lost, bounded attempts, every job ends |
| Bookings, legacy (`booking.service`, `broadcast-accept`, `assignment.service`, `tracking`) | booking row, assignments, vehicles | accept, assign, answer, status update by id, cancel, expire, complete | counts written outside the transaction that needs them, stale reads | full means full, a place taken has an assignment, an end stands |
| Locks and leader election (`redis.service.ts`, `leader-election.service.ts`) | keys with TTL | acquire, renew, release | expiry under a holder, re-entrance, advisory-lock fallback | at most one holder |
| Order creation, broadcast | rows, candidate sets | create, match, broadcast | growing radii, timers | not modelled |
| Vehicle lifecycle, availability | vehicle rows, Redis sets | transitions, counters | cache against database | a busy vehicle works for somebody |
| Circuit breakers, request queue, rate limits, OTP | in-memory or Redis counters | call, trip, reset | boundary values | not modelled |
| Tracking, sockets, push, pricing, rating, routing, profile, admin | | | best-effort I/O or CRUD | not modelled |

`PROJECT.json` lists the hazards of this code, at their lines, with the
properties that cover them or the reason why none does.

How the parts meet. The legacy hold, the two-phase hold, the expiry jobs, the
reconcilers, the sweeps, the cancellations and the drivers' answers all write the
same rows and know nothing of each other; only the statuses they test before
writing keep them apart. Redis carries the timers and queue jobs that call them
later, and locks that expire. That is why the modules keep rows, in-flight
requests and pending jobs as separate variables, and why every handler that reads
in one call and writes in another is several actions.

The source tree also holds copies of these services that nothing imports
(`truck-hold-create`, `truck-hold-confirm`, `hold-state-machine`,
`cascade-dispatch`, `reassign-driver`, `assignment-lifecycle`,
`assignment-response`, `assignment-dispatch`, `queue-processors`,
`legacy-order-*`, `booking-lifecycle` and the other split `booking-*` files). They
are not modelled; the live files are the ones the table names.

## 2. Plan

In the order of how much depends on them:

| | module | subject | state |
|---|---|---|---|
| 1 | `TruckClaims` | abstract contract: who may hold, book, give back or close a truck | done |
| 2 | `TruckHold` | legacy hold, sweep, FLEX job, cancellation; refines `TruckClaims` | done |
| 3 | `TruckHoldProofs`, `TruckHoldContractProofs` | its theorems | done |
| 4 | `PhasedHold` | FLEX/CONFIRMED hold, both jobs, reconciler, sweep, release | done |
| 5 | `HoldTimes`, `PhasedHoldProofs` | contract of its times; its theorems | done |
| 6 | `DriverResponse` | answers, timeouts, the release of a confirmed hold's vehicles, order expiry, the cleanup job and the reconciliation, over the assignments of an order | done |
| 7 | `TruckSeats`, `DriverResponseProofs` | contract of its truck requests and counts; its theorems | done |
| 8 | `JobLives`, `JobQueue`, `JobQueueProofs` | the life of a job; the Redis job queue | done |
| 9 | `Announcements`, `Outbox`, `OutboxProofs` | contract of an announcement; claim, process, retry, dead letter and redrive of both outboxes | done |
| 10 | `BookingPlaces`, `Booking`, `BookingProofs` | contract of a booking's places; the legacy booking and all who write to it | done |
| 11 | locks and leader election | `acquireLock`, `releaseLock`, renewal, the advisory-lock fallback | left; see section 6 |
| 12 | order creation and broadcast, timers in Redis, smart timeout | | left; see section 6 |

Every safety property a passing run checks is also proved; what is left is in
section 6.

## 3. Modules

Each module stands for its part of the database and lets the other parts act in
any way their code allows: `DriverResponse` contains the hold of `TruckHold` as
`Hold` and `Confirm`, and what `JobQueue` delivers late, twice or never is a job
that `PhasedHold` and `TruckHold` may run at any time or lose.

### TruckClaims and TruckHold

`TruckClaims` is what a hold promises about truck requests: an open truck is held
by one transporter, only the holder books it, a booking is not taken back, a
closed truck stays closed. It has no ledger, requests, jobs or faults.

`TruckHold` is the code. Rows are variables (`order`, `truck`, `ledger`,
`vehicle`, `assignments`); `call[p]` is the request process `p` is in the middle
of; `jobs` the FLEX expiry jobs; `due` and `orderDue` the holds and orders whose
`expiresAt` has passed.

| action | code |
|---|---|
| `BeginHold`, `Claim`, `Enqueue` | `holdTrucks`: checks, the serializable transaction, the expiry job after it |
| `BeginConfirm`, `Confirm`, `MarkConfirmed` | `confirmHoldWithAssignments`: the read, the transaction, the ledger write after it |
| `BeginRelease`, `Release`, `ReleaseFails` | `releaseHold`: the read, the transaction, its failure answer |
| `SweepFind`, `SweepRead`, `Release(Sweeper)`, `SweepMark` | `processExpiredHoldsOnce`, which calls `releaseHold` |
| `JobRead`, `JobExpire` | `processExpiredHold` for a legacy hold |
| `CancelOrder` | the transaction of `cancelOrder` |
| `HoldDue`, `OrderDue`, `Abort` | time; a process that dies or a transaction that throws |

Simplifications: `created`, `broadcasting` and `active` orders are one status (no
guard here separates them); vehicle and driver checks made before the confirm
transaction are repeated inside it and are modelled there; the idempotency table,
money, notifications and the outbox row of a cancellation are left out. The
sweep's lease is left out too, which allows more interleavings than it does.

The refinement mapping `ClaimOf` reads the claim of a truck from its row and, for
an assigned truck, from the vehicle its assignment books.

### PhasedHold

A FLEX hold claims no truck request, so the module is about the ledger row, its
two phases and its clocks. `clocks` holds the five time columns, `jobs` the two
expiry jobs of a hold, `call` what a request, the reconciler or the sweep has read
and not used yet.

| action | code |
|---|---|
| `BeginCreate`, `Create`, `Schedule` | `createFlexHold` and the enqueue after its commit |
| `BeginExtend`, `Extend` | `extendFlexHold`: the computation from a read, the write by hold id |
| `Initialize`, `Schedule` | `initializeConfirmedHold` |
| `JobRead`, `JobWrite`, `JobFails` | `processExpiredHold` run by a queue worker |
| `ReconcileFind`, `ReconcileRead`, `ReconcileWrite` | `reconcileExpiredHolds` and `processExpiredHoldById` |
| `BeginRelease`, `Release`, `Sweep*` | `releaseHold` and the sweep, on the ledger row |
| `OrderDue`, `ExpireOrder`, `FindActive`, `CloseHold`, `CloserStops` | the order's timer, `handleOrderExpiry` on the order and its `closeActiveHoldsForOrder`, which expires the holds it found whatever their times |
| `CancelOrder`, `Tick`, `Abort` | cancellation of the order, time, death of a process |

Simplifications: the lock of `extendFlexHold` is not modelled, since every
extension passes the same holder id and `acquireLock` lets a holder in again, so it
excludes nothing. The order's expiry comes after its `expiresAt`, by the clock that
the holds are measured with; the customer's search-again, which sets a new one, is left
out, and so is the difference between the clocks of two instances. The lease that reconciler and sweep share is not modelled: it may
expire under a slow holder. Legacy holds are in `TruckHold`; calls of one kind
on a hold of the other are not mixed in. The effect of a confirmed hold's expiry on its
vehicles and trucks belongs to `DriverResponse`.

`HoldTimes` is what such a hold promises about its times: the first phase has a
deadline between the end of its base period, which the order's end cuts short, and a
limit, and may be given another one, the second is entered once for a fixed time, anybody may give the hold up, but it
is expired only when it is due. Due means that its base period, or its order, is over,
or that it is confirmed and the confirmed phase is. It cannot be stated more strictly: a job, a
reconciler or an order's expiry that read the hold in its flex phase may expire it, late, after it was
confirmed. The mapping reads `stage` from the phase of a row that exists, `deadline`
from the time column of that phase, `base` and `limit` from its creation time and the
order's end, and `end` from its status. A confirmation re-opens a hold that has ended,
as the code does.

### DriverResponse

Everybody who ends or answers an assignment of an order, and the order's expiry.
`asg` are the assignment rows with their truck request and vehicle; `call[p]` is a
handler between two writes: where it is, and the assignments, truck requests or
vehicles it has read and will write by id.

| action | code |
|---|---|
| `Hold`, `Confirm` | `holdTrucks` and `confirmHoldWithAssignments`, as far as this module needs them |
| `AcceptRequest` | `acceptTruckRequest` of `order-accept.service.ts`, the way past the hold |
| `Accept`, `TimeOut`, `Complete` | `assignment.service.ts`: `acceptAssignment`, `handleAssignmentTimeout`, `completeTrip` |
| `Decline` or `CancelAssignment`, then `CommitUndo` | `declineAssignment`, `cancelAssignment`: the truck request is opened on another connection and so before the transaction around it commits, or although it rolls back |
| `ReadAssignment`, `StartOrder`, `WriteAssignment`, `EndTrip` | the status updates by id: `updateStatus` of `assignment.service.ts` (driver, `PATCH`, transporter override) and `updateTripStatus` of `tracking.service.ts` |
| `AcceptInHold`; `DeclineInHold`, `KeepTruck`, `ReleaseDeclined` | `confirmed-hold.service.ts`: `handleDriverAcceptance`; `handleDriverDecline` and its timeout, cut at its writes |
| `BeginHoldExpiry`, `ReleaseOne` | `releaseConfirmedVehicles`, one transaction per assignment |
| `ExpiryRead`, `ExpireTrucks`, `ExpireOrder`, `CloseHolds`, `FindTrips`, `CancelPending`, `CancelRest`, `Refetch`, `ReleaseNext` | `handleOrderExpiry` |
| `CleanupRead`, `CleanOrder`, `CleanTrucks` | `cleanup-expired-orders.job.ts` |
| `CancelAbandoned`, `FreeAbandoned`, `CountAbandoned`, `FindOrphans` | the reconciliation of `queue.service.ts` |
| `Abandon`, `SkipVehicle` | a handler that dies; a vehicle release that fails and is logged |

Simplifications: the trip stages after `driver_accepted` are one status, since the
handlers treat them alike, except that `handleOrderExpiry` spares a trip that has
arrived at its drop (`FindTrips` lets any accepted one be spared). The
per-assignment lock of `confirmed-hold.service.ts` is left out: every answer is a
conditional update. A status update by id reads the assignment, checks the transition, and writes after
other awaits without a condition: it may end an assignment without counting it out or
freeing its vehicle, decline over an acceptance, or revive what has ended. `kept` is a truck request that a decline gave back to a
transporter whose hold is already confirmed: no hold hands it on. An `Undo` in flight has
locked the assignment, its vehicle and its order (`Locked`, `LockedVehicle`,
`LockedOrder`): others who would write these rows wait for it. A confirmation
that has written the truck request and waits for the order, and a decline that has locked
the order and waits to open that request on its other connection, wait for each other
until a transaction times out, which is an `Abandon`. The read of the order and of its trucks in
`handleOrderExpiry` is one step, as are the per-hold transactions of
`closeActiveHoldsForOrder`. Who the driver is, and when an order's `expiresAt` is,
are left open: an order may expire at any time. An orphaned vehicle is one no
handler is about to free (the code asks for several minutes). The customer's
cancellation is in `TruckHold`. The auto-redispatch of a declined assignment is
left out: on the order path `assignedDriverId` is cleared before it looks, so it
never fires. After a decline a filled order keeps the status `fully_filled`, so the truck
request that went back to searching is taken by nobody; the module shows it, no
text of the repository contradicts it.

Three variables record history. `updates` counts the status updates by id that were
begun, for the bound. `strayed` has the assignments that such an update has ended or
revived, and those whose truck request was opened although their end was rolled back;
their truck request is then `Astray`. `revived` counts per order the ended assignments that
were made live again. The properties say that these, and the handlers that die, are the
only ways to break what the handlers otherwise keep, and by how much:
`OneLivePerTruck` and `KeepsSeats` hold for each truck request that is not astray,
`FilledCoversLive` up to one place per revival, `NoVehicleStranded` but for the vehicles
of strayed assignments, `AcceptanceStands` but for the write of an update.

`TruckSeats` is what all these handlers together owe to the truck requests: a request
has one seat, a new assignment takes a free one and counts as filled, a seat
changes hands only by being given up, and `trucksFilled` goes down by one at a time
and for no assignment twice. The mapping takes the seat of a request from its
live assignment (`SeatOf`), gives none to a request that is astray, whose assignments may
still move the count (`GiveAstray`, `CountAstray`), and counts with the live assignments the abandoned trips
that the reconciliation has cancelled and not counted out yet (`Counted`).

### JobQueue

`RedisQueue`: one list per priority, a sorted set of delayed jobs, a hash of jobs
being processed and a dead-letter list. Each Redis command is one action.

| action | code |
|---|---|
| `Add` | `add`: a list, or the sorted set when delayed |
| `Look`, `Record`, `Succeed`, `Fail`, `Forget`, `Park` | `runWorkerLoop` and `processJob`: the pops, the `HSET`, the processor, the `HDEL`, the retry or the dead letter |
| `PollRead`, `PollPush`, `PollRemove` | `startDelayPoller` |
| `Start`, `Requeue`, `DropEntry`; `GrowStale` | `recoverStaleProcessingJobs` at the start of an instance; the entry's age |
| `Crash`, `RecordFails`, `ForgetFails`, `ParkFails`, `PollFails`, `RequeueFails` | an instance that dies or is deployed over; the commands whose errors are swallowed (the last deletes a stranded job that it could not push) |

`gracefulShutdown` stops the loops and exits without waiting for running jobs, so a
deployment is a `Crash`. Two retries of a job carry different times and so are different
members of the sorted set: `Twins` tells them apart. The back-off of a retry is at
least two seconds, so no member is due before it has landed, and
`ZREMRANGEBYSCORE` removes what the poll read (`RangeRead`). `runs` counts
processor calls and saturates at `MaxAttempts`.

`JobLives` is what the queue promises about one job: one call at a time, a failed
call repeated until the attempts are used, no call after the end. The queue is
at-least-once, and the contract says where the line is: once a crash, a failed
command, overlapping polls or an outdated entry has disturbed it, a job may have
copies, and what is left is that no call is forgotten and no job is buried before
its attempts. `LifeOf` reads the life of a job from the workers that have it
and from `done` and `dead`. `RunsAlone` and `HashIsExact` say what the recovery relies
on ("If not stale, another worker may still be processing it — leave it alone",
`queue.service.ts`): while nothing is disturbed no two workers have a job, and the
processing hash is a true record of what runs.

### Outbox

The dispatch row, written with an order and broadcast, and the lifecycle row,
written with its cancellation and announced. A worker is one pass of a poller or
the request that processes its own row at once.

| action | code |
|---|---|
| `Claim` | `claimReadyDispatchOutboxRows`, `claimReadyLifecycleOutboxRows` and the claims by id |
| `Pick`, `ReadOrder`, `Send`, `Record`, `Snapshot`, `Catch` | the processing of one row, cut at its database writes |
| `RedriveRead`, `RedriveWrite` | `redriveFailedDispatch` |
| `Fill`, `Cancel` | the order's moves, the second with its lifecycle row and with the failure of a dispatch row that has not ended, even while a pass has it |
| `Crash`, `ReadFails`, `RecordFails`, `SnapshotFails`, `CatchFails` | a pass that dies; a database call that fails, carried out or not |

The leader lock of the dispatch poller is left out: when Redis fails every instance
polls, and the request's own pass never asks for it. Retry delays take no time; the
claim's condition on `lockedAt` is left out because whatever makes a row ready also
clears it. A row whose payload does not parse or whose order does not exist cannot
arise and is left out. Two things the model shows that the code's names do not
suggest: a row left in `processing` by a crash is never taken again, although the
claim computes a `staleLockBefore`; and the snapshot of the order is saved inside
the try of the broadcast, so that its failure re-opens a dispatched row. A cancellation
fails a dispatch row that a pass is sending; an administrator who redrives that row gives
it to a second pass. `OneOwner` and `DispatchedIsFinal` therefore promise a dispatch
something only while no redrive meets another or a cancellation (`Calm`).

`Announcements` is the contract of the lifecycle row: the announcement of a
cancellation falls due once, is sent only while it is due and at most `maxAttempts`
times, and ends for good, delivered or given up. In the mapping (`NoticeOf`) a notice
is due while its row is open or some pass still has it; a row whose final write was
carried out but reported as failed is therefore still due until its pass lets go.

### Booking

One booking of the legacy path. `call[p]` is a call with what it read; an answer
(`Answer`, `Lower`, `Reopen`, `CommitAnswer`) locks the row of its assignment until
it commits, but `decrementTrucksFilled` runs on a connection of its own and commits
at once, in two statements.

| action | code |
|---|---|
| `AcceptBegin`, `AcceptCommit` | `acceptBroadcast`: its checks and its writes |
| `AssignBegin`, `AssignCommit`, `Schedule`, `ScheduleFails` | `createAssignment`: checks, transaction, the timeout and the compensation when it cannot be scheduled |
| `DriverAccepts` | `acceptAssignment` |
| `Answer`, `Lower`, `Reopen`, `CommitAnswer` | `declineAssignment`, `handleAssignmentTimeout`, `cancelAssignment`, with `decrementTrucksFilled` inside |
| `Abandon`, `FreeAbandoned` (then `Lower`, `Reopen`); `FreeOrphan` | the reconciliation of `queue.service.ts` |
| `CancelBooking`, `ReleaseVehicle` | `cancelBooking` |
| `ExpireBegin`, `ExpireCommit`, `Tick` | `handleBookingTimeout` |
| `ReadAssignment`, `StartBooking`, `WriteAssignment`, `EndTrip` | the status updates by id: `updateStatus`, `updateTripStatus` |
| `TripEnds`, `CheckCompletion`, `Complete` | `completeTrip`, `checkBookingCompletion` |
| `Crash` | a call that dies or rolls back |

What the module had to leave as the code has it:

- `acceptBroadcast` locks `lock:booking:<id>`; `cancelBooking` and the expiry
  checker call `acquireLock`, which adds the prefix again, and lock
  `lock:lock:booking:<id>`. Nobody excludes the other, so an acceptance that has read
  the booking revives one that was cancelled or expired meanwhile; `EndStands` says
  that nothing else does, but a completion check that had read it.
- `createAssignment` neither asks for a free place nor writes the booking's status. A
  booking filled that way stays open, and `handleBookingTimeout` does nothing with
  an open booking whose places are all taken.
- an assignment still pending when its booking expires is never ended: the decrement throws
  on a closed booking and the answer around it rolls back. `Settles` exempts it.
- a declined assignment is not terminal for `checkBookingCompletion`.
- a status update by id writes whatever the assignment has become, and nobody lowers the
  count for what it ends: `overwrites` counts those that ended or revived an assignment, and
  `FilledIsBacked` loses one place to each.
- the tracker writes the assignment before `completeTrip` looks at it, which then
  does nothing; the vehicle stays busy until the reconciliation finds it.

`BookingPlaces` is what all these callers owe to the booking's places: a new
assignment takes a place, gives it back once, before it is declined or cancelled, and
keeps it when it is delivered; `trucksFilled` goes up and down with it; nobody answers for
an assignment that was answered, but a status update by id (`Overwrite`). The mapping (`Counted`) gives a place to an
assignment that stands and that no answer in flight has counted down, and to a trip
that the reconciliation has cancelled and not counted down yet. The places of a booking
that was closed may be forfeited, as `FreeAbandoned` does. After a crash, a failed
`Schedule` or an `Overwrite` the contract promises no count any more, because the decrement has committed
and the answer around it has not, or because nobody counts; that an answer is final, save
for overwrites, it still promises.

Simplifications: a truck is a vehicle with the driver its transporter sends with
it, so that one vehicle promised with two drivers is not modelled; radius
expansion, Redis timers, the broadcast, the creation of the booking and the
customer's active key are left out.

## 4. Runs

Passing runs:

| run | instance | shows |
|---|---|---|
| `hold_races` | 2 trucks, 2 rival transporters, 2 holds, 2 requests at once, the sweep | types, `NoDoubleBooking`, `FilledIsExact`, `CancelWins`, and that every step is a step of `TruckClaims` |
| `hold_faults` | 1 truck, 2 transporters, 2 holds, 1 request, durable jobs, releases that fail | `HeldIsCovered`, `VehicleHeldIffNeeded`, `ClosedStaysClosed`, and, under fairness, `HoldIsClosed` |
| `phased_races` | 1 hold, 2 requests, both jobs, reconciler, sweep, the order's expiry and cancellation, faults, fairness | types, `FlexBounded`, `ConfirmedFixed`, `BaseHonoured`, `FlexEnds`, and that every step is a step of `HoldTimes` (`KeepsTimes`) |
| `job_queue` | 1 job, 2 instances, 1 fault, 1 upset | types, `NothingLostWithoutFault`, `DeadLetterExhausted`, `RunsAlone`, `HashIsExact`, `EveryJobEnds`, and that every step is a step of `JobLives` (`KeepsLives`) |
| `driver_response` | 1 order of 2 trucks, 2 vehicles, 2 assignments, 2 handlers, 1 event: a fault or a status update by id | types, `OneLivePerTruck`, `FilledCoversLive`, `AcceptanceStands`, `NoVehicleStranded`, and that every step is a step of `TruckSeats` (`KeepsSeats`) |
| `outbox` | the two rows of 1 order, 2 passes, 2 redrives, 2 faults | types, `OneOwner`, `DlqExhausted`, `DispatchedIsFinal`, `EveryRowEnds`, and that every step is a step of `Announcements` (`AnnouncesCancellations`) |
| `booking` | a booking of 2 places, 2 trucks, 2 assignments, 2 calls, 1 event: a fault or a status update by id; fairness | types, `FullMeansFull`, `FilledIsBacked`, `EndStands`, `Settles`, and that every step is a step of `BookingPlaces` (`KeepsPlaces`) |

Runs that show a disagreement between the code and what it says of itself:

| run | promise | what happens |
|---|---|---|
| `hold_leak` | "Server crashes? Hold ledger + TTL cleanup reconciles stale holds" (`truck-hold.service.ts:49`) | the FLEX expiry job marks a legacy hold expired without freeing its trucks; the sweep selects active rows only, so if the job is first the trucks stay held until the order is cancelled or its expiry or cleanup closes them |
| `phased_extension` | "+30s extension" (`flex-hold.service.ts:32`) | an extension leaves the queued job at the base time and the job does not look at the expiry: an extended hold is expired after its base period |
| `phased_confirmed` | "Reconcile expired holds that weren't cleaned by Layer 1" (`hold-reconciliation.service.ts:59`) | the reconciler tags a confirmed hold `'CONFIRMED'`, the next method compares with `'confirmed'`: each confirmed hold is handled as a flex one and skipped, so one whose job was lost never ends |
| `order_moves` | the transition table of orders in `core/state-machines.ts` | `handleOrderExpiry`, the cleanup job and the confirmation overwrite the order's status by id: a filled order expires, an expired one comes back |
| `vehicle_twice` | "Vehicle must be available (not already on a trip)" (`order-accept.service.ts`) | a hold that expires late frees a vehicle that has been given away since; `acceptTruckRequest` looks at the vehicle's status only and takes it for a second trip |

Bounds. Two requests in flight are enough for each pair of handlers to race, and
the sweep, the jobs and the reconciler come on top. Two rival transporters and two
holds are enough for a stale release or confirm to meet trucks that were re-held;
two trucks let a hold be partial, so an order passes through `partially_filled`.
Transporter `t1` has two vehicles for one driver, so that a driver could be booked
twice without the vehicle being.

In `PhasedHold` time is scaled. `phased_races` has base 1, extension 2, maximum 2
and two extensions for 90, 30, 130 and 2: an extension is cut by the maximum,
the order's end at 2 cuts the holds created after 0, two extensions computed from the same
read meet, and a hold can be confirmed, and its order expire, before the horizon 3.
The number of extensions is never what stops one there (the maximum is reached first);
`FlexIsBounded` covers that case. `phased_extension` has base 2, extension 2,
maximum 4 and `phased_confirmed` a confirmed phase of 1. One hold is enough there
because no handler reads another hold's row except the existence check of
`createFlexHold`, which only restricts. `Open` stops new requests one confirmed
phase before `Horizon`, so that every hold's deadline passes. A hold's
`due` is a set in `TruckHold`: a hold may fall due at any moment, so no duration is
assumed.

In `JobQueue` a job has two attempts (three in the code): one retry and one dead
letter. `MaxUpsets` counts the events that copy a job, a poll that overlaps another
or an entry that grows stale while its worker lives, and `MaxFaults` the crashes
and failed commands; one of each, in any order, is enough for a job to exist twice
with different attempt counts. `Twins` has a member more than copies can wait at once.
The job has no priority, so that its list is not the one the worker blocks on.

In `DriverResponse` two assignments are enough for a truck request to be given
away, taken back and given away again under a late handler of the first; with three
(`vehicle_twice`) the vehicle can have moved on to another truck besides. `MaxEvents` bounds
faults and status updates by id together, here and in `Booking`: one event is one handler
that dies at any point, or one update, against all the other handlers. After it, in
`driver_response`, the handlers run one after another (`OneByOne`), which keeps the run within
minutes and, as it checks no liveness, is sound for what it reaches. The theorems
allow any number of events and any interleaving. In `Outbox` two attempts stand for the code's eight and ten: one
retry and one dead letter; each batch has one row, since a batch is of one kind and
the order has one row of each. Two redrives meet each other and a pass. In
`Booking` two assignments fill the booking, and a declined one leaves a place that
the other cannot refill: the safety properties were therefore also checked once
with three assignments (2.0 million states), and the theorems cover any number.

Deadlock is checked for the job queue, whose pollers never rest. It is not for
the others: a system without requests, an order whose assignments are used up, and
a clock at its horizon rest. Symmetry is used in `hold_races` and `driver_response`
only, which check no liveness.

Fairness. Users, their requests and cancellations are not fair, and nothing that
fails is. The sweep interval (60 s), the reconciler interval (30 s) and the queue
workers run for ever, so they are: a step that only waits for its turn is weakly
fair; a step a crash or a failed transaction can interrupt is strongly fair,
meaning that it is interrupted again and again but not each and every time. Time
passes (`HoldDue`, `Tick`). In `PhasedHold` jobs may be lost (dead-lettered, or
never enqueued), so `FlexEnds` rests on the reconciler, as the code intends. In
`JobQueue` an instance's loops go on and an instance that is down is started again;
`EveryJobEnds` promises nothing once something has failed, as the code loses a job
between its pop and its `HSET`. In `Outbox` some instance polls and a claimed row is
carried on. In `Booking` calls go on; the sweep of due bookings, the answers'
timeouts with their reconciliation and the orphan search are strongly fair, because the
number of calls at one time is a bound of the model and not of the code.

## 5. Proofs

The proofs hold for every value of the constants that satisfies the named
assumption of the module: `TruckHoldAssumption` and `PhasedHoldAssumption` (typing,
process names that differ, a finite set of trucks, a base period not above the
maximum), `DriverResponseAssumption` (typing, finitely many trucks and assignments),
`JobQueueAssumption` (typing, at least one priority level and one attempt),
`OutboxAssumption` and `NoneAssumption` (typing, at least one attempt, finitely many
passes, a null unlike other values) and `BookingAssumption` (typing, finitely many assignments and calls, a booking that needs
a truck). TLC checks them in the runs of each module.

| theorem | module | says |
|---|---|---|
| `TypeCorrect` | `TruckHoldProofs` | `TypeOK` always holds |
| `ClosedIsClosed` | `TruckHoldProofs` | `ClosedStaysClosed` |
| `BookingsCorrect` | `TruckHoldProofs` | `NoDoubleBooking`, `VehicleHeldIffNeeded` and `CancelWins`; `VehiclesHeldIffNeeded` and `CancellationWins` are its parts |
| `FilledCorrect` | `TruckHoldContractProofs` | `FilledIsExact` |
| `HeldCovered` | `TruckHoldContractProofs` | `HeldIsCovered`, with durable jobs and failing releases |
| `ClaimsImplemented` | `TruckHoldContractProofs` | `TruckHold` implements `TruckClaims` |
| `PhasedTypeCorrect` | `PhasedHoldProofs` | `TypeOK` |
| `FlexIsBounded` | `PhasedHoldProofs` | `FlexBounded` |
| `ConfirmedIsFixed` | `PhasedHoldProofs` | `ConfirmedFixed` |
| `BaseIsHonoured` | `PhasedHoldProofs` | `BaseHonoured` |
| `TimesAreKept` | `PhasedHoldProofs` | `KeepsTimes`: `PhasedHold` implements `HoldTimes` |
| `TypesCorrect` | `DriverResponseProofs` | `TypeOK` |
| `OneLiveAlways` | `DriverResponseProofs` | `OneLivePerTruck` |
| `AcceptanceIsKept` | `DriverResponseProofs` | `AcceptanceStands` |
| `CountCoversLive` | `DriverResponseProofs` | `FilledCoversLive` |
| `NoneStranded` | `DriverResponseProofs` | `NoVehicleStranded` |
| `SeatsAreKept` | `DriverResponseProofs` | `KeepsSeats`: `DriverResponse` implements `TruckSeats` |
| `QueueTypesCorrect` | `JobQueueProofs` | `TypeOK` |
| `AttemptsAreUsed` | `JobQueueProofs` | `DeadLetterExhausted` |
| `NothingIsLost` | `JobQueueProofs` | `NothingLostWithoutFault` |
| `JobsRunAlone` | `JobQueueProofs` | `RunsAlone` |
| `HashRecordsRuns` | `JobQueueProofs` | `HashIsExact` |
| `LivesAreKept` | `JobQueueProofs` | `KeepsLives`: `JobQueue` implements `JobLives` |
| `OutboxTypeOK` | `OutboxProofs` | `TypeOK`: a row that is ready has an attempt left |
| `OutboxOneOwner` | `OutboxProofs` | `OneOwner` |
| `OutboxDlqExhausted` | `OutboxProofs` | `DlqExhausted` |
| `OutboxDispatchedIsFinal` | `OutboxProofs` | `DispatchedIsFinal` |
| `CancellationsAreAnnounced` | `OutboxProofs` | `AnnouncesCancellations`: `Outbox` implements `Announcements` |
| `BookingTypesCorrect` | `BookingProofs` | `TypeOK`, with `filled` between 0 and `Needed` |
| `FullIsFull` | `BookingProofs` | `FullMeansFull` |
| `FilledBacked` | `BookingProofs` | `FilledIsBacked` |
| `TheEndStands` | `BookingProofs` | `EndStands` |
| `PlacesAreKept` | `BookingProofs` | `KeepsPlaces`: `Booking` implements `BookingPlaces` |

How they go.

*Truck hold.* `Base` adds to the types what a request past its first step relies
on: its hold exists, and a ledger row in use names trucks of its own order. The
steps that write a truck are then few (`TruckMoves`): from searching to held, from
held to assigned, or from open to closed, which gives `ClosedIsClosed`. `Books`
adds that each live assignment is of an assigned truck, from which two assignments
of a truck are impossible because a confirm starts from held trucks; the vehicle
and driver part is the check inside the transaction. `FilledCorrect` follows by
counting in `FilledConfirm`: a confirm moves exactly the hold's trucks, which were
held and so not counted. `Cover` strengthens `HeldIsCovered` by what the in-flight
writes rely on: a pending ledger mark finds all its trucks assigned, and the job and the
sweep are at holds that are due, which they may mark expired with trucks still held:
`hold_leak` shows that nobody finds such a hold again. The refinement maps a hold to `Hold`, a
confirm to `Book`, a release to `GiveBack` or `Close`, a cancellation to `Close`,
and everything else to a stutter.

*Two-phase hold.* `PhasedInv` is the strengthening. `RowOK` says that an
active hold is in its flex phase with one deadline not before its base period;
`JobOK` that a queued job is due no sooner than that, or than the end of the
confirmed phase it is about, and a running one is late; `CallOK` that what a handler
has read stays good enough to be used later, however long it waits: the expiry and
count an extension computed are within the limits, the hold the reconciler or the
sweep carries is late (`Late`: its base period, its order or its confirmed phase is over), which
nothing undoes (`Later`). `RowMoves` isolates the only three actions that write a row
otherwise than to end it. In the refinement a creation is `Create`, an extension
`Extend` while the hold is in its flex phase and a stutter after that, a confirmation
`Confirm`; job, reconciler, sweep and the order's expiry, which `CloserOK` says is over,
`Expire` (`ExpiredLate`), releases and the
cancellation `GiveUp`.

*Driver response.* The assignments move along `Moves` only, or by a status update.
`TruckInv` adds to
`OneLivePerTruck` that the truck request of a live assignment, unless it is astray, is
neither searching nor held, not even by the late write of a decline, so that a new
assignment starts from a request that has none; a request that a transaction in flight has
opened is the exception (`Locked`), and there the lock of the order keeps a new
assignment out. `CallInv` says what a handler in flight knows of its
assignments (`Known`): they exist, what an `Undo` will end has kept the status it was
read with, an abandoned trip is cancelled or strayed and has one handler to count
it out, and one transaction at most undoes an assignment of an order. For the count,
`FilledInv` counts besides the live assignments the abandoned trips not counted out yet
(`Pending`), against the count and the revivals. `NoneStranded` follows a vehicle from the end
of its assignment to the handler that frees it (`WillFree`); `Kept` is what each step
preserves of it. For the refinement,
`TruckInv` makes the assignment in a seat unique (`SeatIs`). A step that writes one
assignment is compared row by row (`OneRow`): a new one takes its seat (`Give`, or
`GiveAstray`), an acceptance is `AcceptSeat`, an end is a `Leave` of one seat, and an
update by id or a rollback sends the request astray (`GoesAstray`, `StaysAstray`). Everything
else only leaves seats (`OthersLeave`): no step but a new assignment brings a live or
a counted one (`NothingComes`). The count falls by exactly one although the code clamps it at zero,
because it is never below the number counted.

*Job queue.* `BoundInv` says of every copy of a job, in a list, in the sorted set,
in the hash, or in the hands of a worker, a poller or a recovery, that it has no more
attempts than there were calls of the processor; with the exhaustion test, a
dead-lettered job has had them all. `KeptInv` strengthens `NothingLostWithoutFault`:
an added job has ended, is in a list, is held by a worker, or has a member in the
sorted set that no poller will remove without pushing it (`Safe`). The processing
hash is not needed for that: as long as nothing fails, it is only a second record.
That it is an exact one is `HashIsExact`: `HashInv` ties each entry to the worker that
made it. `RunsAlone` is not inductive; `AloneInv` strengthens it: while nothing is
disturbed there is one poll at a time and no recovery (`Quiet`), a job has one place,
a spot in a list, a worker or a due member, its attempts there are the calls it
has had, and an ended job is nowhere. In the refinement to `JobLives` the step of a
worker moves the life of its own job and no other (`OwnStage`, `LivesOn`); a disturbed
step is covered by two facts that need no calm: calls only grow (`RunsGrow`), and a
dead job has had them all (`DeadLetterExhausted`).

*Outbox.* `OneOwner` is not inductive: a row must also look taken to the others.
`OwnerInv` adds that a row a pass holds is in processing (`Marked`), or dispatched by
a write that was reported to have failed, or failed by the cancellation of its order; that a pass has a row once (`Neat`); and
that a row an administrator is about to reopen has failed. `PassSteps` shows that
whatever a pass does is a `PassStep`: it keeps rows it had and writes only the one in
its hands. `DispatchedIsFinal` follows, as does `CountInv`, which ties the emissions
of a row to its attempts on the row and in the hands of the pass, and with it the
refinement of `Announcements`: a pass moves no notice but that of the row in its
hands (`NoticePass`), and that one only as the contract allows (`Allowed`). The hypotheses on
`faults` and `redrives` are needed for a dispatch only, where a failed snapshot, a
second redrive, or the redrive of a row that a cancellation failed reopens a row that is held.

*Booking.* `TypeInv` adds to the types that an acceptance in progress has read a
count below `Needed` (`Sound`); the match of that count in its write keeps the
count in range. `FullMeansFull` is then inductive: a place is given back by `Lower`,
which leaves its call at the reopening. `EndStands` goes through the writes of the
status (`EndIsKept`). For `FilledIsBacked`, `CallInv` says what a call relies on: no
other call makes, locks or gives up its assignment, a locked row may still be answered
like this (`Answerable`), a status update writes an assignment that exists. `BackedInv` then
counts the assignments that stand and that no answer has counted down already,
together with the trips being given up (`Counted`), and allows one more for each overwrite: a step that adds a place adds an
assignment, and only a step that lowers the count takes one away. The refinement needs the set itself,
not its size: `CountOf` splits what is counted into what the moving call and what the
others answer for, and `OthersAre` says that no other answers for the same. Then the two
commits that find a truck are `Take`, `Lower` is `GiveBack` or, on a closed booking,
`Forfeit`, every guarded write of an assignment is `Answered`, and one by id that ends or
revives it `Overwrite`; once something has failed or been overwritten, only
the moves of the assignments (`AsgMay`) and of `ended` are left to show.

Only model-checked: the liveness properties (`HoldIsClosed`, `FlexEnds`,
`EveryJobEnds`, `EveryRowEnds`, `Settles`), since fairness and `ENABLED` are outside
what the prover handles. Nothing here is recursive.

## 6. Not modelled

Of the modelled components: idempotency keys, money and penalties of a
cancellation, notifications, the Redis state cache of a confirmed hold, the
in-memory queue of development, the statistics and typed wrappers of the queue, the
steps of the broadcast behind an outbox row.

Of the system:

- Locks and leader election. No modelled handler is made correct by a lock: each is
  decided by a transaction or a conditional update, the models let the lock be
  absent, as it is when Redis fails, and in three places (`extendFlexHold`,
  `acceptBroadcast` against `cancelBooking`, the lease of reconciler and sweep) it
  excludes nothing anyway. The mutual exclusion of `acquireLock` itself would be a
  statement about time to live against the speed of a process, which it does not keep
  without one.
- The smart timeout keeps an expiry of its own per order and calls
  `handleOrderExpiry`, which `DriverResponse` allows at any time. The timers in Redis
  are the same: a lost one is made up by the cleanup job, an early one is allowed.
- Order creation, matching in growing radii, broadcasting: they decide who hears of an
  order and not what becomes of it; their results are the rows the modules begin with.
- Availability counts and the fleet cache: their results are hints; handlers decide on
  the database rows.
- Circuit breakers, the request queue, rate limits and OTP: small in-process
  machines or counters that delay or refuse calls.
- Tracking (beyond the end of a trip), sockets, push, pricing, rating, routing,
  profile, admin: I/O or CRUD without concurrency of their own. They and the unused
  copies of section 1 are most of the source tree.
