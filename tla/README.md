# Verification of taipei

taipei is a set of tower layers that keep a server responsive under load: a
queue with a deadline per request, two kinds of concurrency limit, a gate that
looks at idle worker threads, a meter that divides blocked time among tenants, a
per-tenant quota and load shedding.  This directory holds TLA+ models of its
components, TLC runs that check them on small instances, and proofs checked by
TLAPS.  All paths below are relative to the repository (`src/...` is the crate's
source directory).

## Inventory

| component | state | operations | talks to |
|---|---|---|---|
| `DebtSemaphore` (`debt.rs`) | a tokio `Semaphore`, an atomic `debt` | `acquire`, `release` | the two limits below |
| dynamic concurrency limit (`limit.rs`) | the ceiling; per service a `PollSemaphore` and maybe a `Slot`; a `Slot` per response future | `poll_ready`, `call`, drop of each, `set` from any thread | `DebtSemaphore` |
| CPU backpressure (`backpressure.rs`, `tokio.rs`) | one `DebtSemaphore` in debt by the reserve; an `Admission` per service or response future | park and unpark hooks of the runtime, `poll_ready`, `call`, first poll | `DebtSemaphore`, tokio's workers |
| request queue (`queue.rs`) | a bounded channel, a oneshot and a deadline per request, the worker, its tracker of handlers, the shared `QueueTimeout` | `poll_ready`, `call`, polls of the future, `serve`, `set` | the inner service, spawned handlers |
| tenant accounting (`tenant.rs`) | six atomics: gate, rate, inflight, accumulated, attributed, unattributed; a `Blame` per request | `poll_ready`, `settle`, `admit`, `draw`, `finalize` | the inner service, a `Report` |
| CPU controller (`cpu_concurrency.rs`) | smoothed load, calm cycles | `observe` | `ConcurrencyLimit::get`, `available`, `set` |
| tenant quota (`rate_limit.rs`) | a run per tenant under a mutex, shared by clones | `call` | `Limits::drop_pct`, the inner service |
| load shedding (`reject.rs`) | a `ready` flag per service | `poll_ready`, `call`, clone | the inner service |
| example server (`examples/hello.rs`) | the tasks of one runtime: connections, the queue's worker, handlers | what hyper and tokio do with them | queue, gate, the runtime |

What is hard here is concurrency without locks.  Several threads act on two or
more atomics that belong together (`debt` and the semaphore; `rate` and
`accumulated`; the gate and the clock); whatever future or service holds a unit
may be dropped at any await; the semaphore hands permits to waiters that have
not asked again yet; deadlines fire while the thing waited for arrives; a controller reads a ceiling
and its use at different moments; and the task that asks the gate whether a
worker is idle runs on one of those workers.
`PROJECT.json` lists the hazards line by line with the properties aimed at them.

What makes each component correct: capacity is neither made nor lost and never
overcommitted (limits, gate); waiters advance; a request that was refused never
ran, nobody's handler runs on, every call ends (queue); never more is billed than
measured, each span is banked once, a bill covers exactly the time a request was
there (meter); a ceiling is raised only when it is used, an overload ends
(controller); a tenant is refused its share and never more (quota); a request is
shed only if its service was turned away when last polled, and nobody is called who
did not agree (shedding); the server does not starve itself (example).

## Modules

| module | models |
|---|---|
| `TokioSemaphore` | external: tokio's semaphore and `PollSemaphore` as the code uses them: FIFO waiters, permits handed to a waiter before it polls again, an abandoned wait that gives its permit back |
| `DebtSemaphore` | `acquire` and `release` on top of it; the sets `owing` and `adding` hold whoever stands between the two atomics |
| `ConcurrencyLimit` | the limiter: services, response futures, any number of setters |
| `IdealLimit`, `SerialLimit` | what a limiter promises; the limiter on one thread, shown to implement it |
| `Controller` | `observe` on `ConcurrencyLimit`, one atomic operation at a time, with requests in between |
| `Quota` | the tally: runs of calls under one share |
| `FrontDoor` | quota over shedding over `ConcurrencyLimit`, with an innermost service that answers as it likes |
| `CpuGate`, `SerialGate` | the gate with its workers; the gate without races, shown to implement `IdealLimit` |
| `RequestQueue` | clients, channel, worker, handlers, clock |
| `FifoDispatch` | what the queue promises about dispatch, implemented by `RequestQueue` |
| `TenantMeter` | every atomic operation of the meter, interleaved |
| `IdealMeter`, `SerialMeter` | time measured as it passes; the meter on one thread, shown to implement it |
| `Server` | the example's tasks on the runtime whose workers `CpuGate` looks at |
| `MCLimit`, `MCFrontDoor`, `MCMeter` | symmetry for TLC |
| `QueueFacts`, `SemaphoreFacts` | lemmas about sequences and about the semaphore |
| `ConcurrencyLimitProofs`, `ControllerProofs`, `CpuGateProofs`, `FrontDoorProofs`, `RequestQueueProofs`, `TenantMeterProofs` | theorems |

`Controller`, `FrontDoor` and `Server` EXTEND the module of the semaphore-based
component they are put on: their actions conjoin that component's actions with
what the layer around it does, so every behaviour of the stack is one of the
component (proved: `ControllerImplementsLimit`, `DoorImplementsLimit`, `ServerImplementsGate`).

How the state corresponds to the code:

* **Semaphore.** `permits` is `available_permits()`, `queue` the wait list,
  `granted` the `PollSemaphore`s whose acquire future is done but not polled.
  `forget_permits` cannot reach a granted permit, dropping the `PollSemaphore`
  adds it back without a look at the debt.
* **Debt.** `Acquire`/`Owe` and `Release`/`Add` are the two atomic steps of
  `acquire` and `release`.  `try_update` is one step: it is a loop of compare
  and exchange, and only the exchange that succeeds changes anything.
* **Limiter.** `reserved` are the services with a `Slot`, `inflight` the
  response futures with one.  `SwapLimit` is the swap in `set_limit`, `todo` the
  rest of its loop, `MoveUnit` one turn of it.  `DropWaiting` is a service that
  goes away (or comes back as a clone) while it waits or has been handed a permit.
* **Gate.** `parked` are the workers between their hooks.  `FirstPollOrDrop` is
  `admission.take()` in the first poll, or a future dropped before it.
* **Queue.** `client`, `answer` and `task` say where the future, the oneshot and
  the handler of a request are; `worker` says where `serve` is, one value per
  await and per decision, `head` the item in hand.  `Stamp` and `Send` are the two
  halves of `call`.  `Elapse` is the timer, which fires some time after the
  deadline.  `DropWorker` may strike at every await.
* **Controller.** `Observe` smooths the load and reads the ceiling, `ReadAvailable`
  reads `available()`, `Lower` and `Raise` are the swap of `set`; the loop of that
  `set` is the limit's own `MoveUnit` and `Complete`, and the next `Observe` waits
  for it.  `stage` is where `observe` stands, `seen` its local `limit`.  Loads and
  fractions are multiples of `1/MaxLoad` and `1/Whole` where the code has `f64`.
  `Smoothed` is the code's formula with the move rounded down to such a multiple:
  with a factor below 1 a sample is approached and never reached, and from close by
  not approached any further.  The samples of the run lie at the target, or far enough
  above and below that this rounding does not keep the load from getting there.  `Moved` is `step`; the sign of the
  fraction is what decides the direction, as in the code.
* **Quota and shedding.** `runs` is the tally, `ready` the flags.  `call` takes two
  steps, `DropPct` reads the store (`asked` keeps the answer) and `DoorCall` is
  the section under the mutex and what follows.  `mayCall` is tower's contract: who
  got `Ready(Ok)` and has not used it.  `found` (what a service's last poll found
  below the shedding layer: ready, pending, an error, a full limit) and `ledger` are
  history.  Shares are
  multiples of `1/Scale`, negative ones and ones above the whole included, or `NaN`.
* **Server.** `run` is the task on each worker thread, `stage` where a request is,
  `line` the queue, `at` the await `serve` stands at, `late` that the deadline of
  the item in hand has passed.  A worker parks only when it finds nothing to run.
  The queue is only as detailed as the gate's view of it: `RequestQueue` has the rest.
* **Meter.** `pc[a]` is the next atomic operation of thread `a`, `next[a]` where
  it returns to after a flush or a draw; `at`, `span`, `share`, `base` are its
  locals.  Reading the clock and using the reading are separate steps, and so are
  the two `fetch_add`s of `accrue`, the claim and the exchange of `attribute`,
  and the `fetch_add` and the load of `enter`.

All atomics are modelled sequentially consistent; the code uses `Relaxed` in
`tenant.rs`, so hardware may show more behaviours than the model (every
violation found here needs none of them).  The u64 and usize fields do not wrap in
the models: they count nanoseconds since start, and permits.

## Runs

| run | instance | shows |
|---|---|---|
| `limit_two_setters` | 3 services, 2 calls, 2 setters, ceilings 0..2 | `Conservation` under every interleaving, `WithinCeilingPerSetter` |
| `limit_serial` | 3 services, 2 calls, 1 setter, ceilings 0..2, one thread | implements `IdealLimit` |
| `controller` | 3 services, 2 calls, ceilings 0..4, samples 0, 3 and 4 quarters with the target at 3, half smoothing, fair | `WithinHighestCeiling`, `RaisesOnlyInUse`, `WaitersAdvance`, `OverloadIsRelieved`, `ZeroIsLeft` |
| `gate_hooks` | 3 workers, reserve 1, 2 services, 2 calls, fair | `GateConservation`, `ClaimsWithinSpare`, `RestOffersSpare`, `IdleGateAdmits` |
| `gate_serial` | 3 workers, 3 services, no races | implements `IdealLimit` with ceiling idle workers less reserve |
| `queue` | 2 requests, capacity 2, limits 1 and 2, clock to 2, processing timeout, fair | `RefusedNeverRan`, `NoOrphanRuns`, `DrainedBeforeReturn`, implements `FifoDispatch`, `EveryCallEnds`, `ServeEnds` |
| `front_door` | 2 services, 1 call, 1 setter, ceilings 0..2, 1 tenant, shares 1/2, 3/2 and NaN, 3 calls | `ReadyIsCurrent`, `RefusedIsShareOfRun`, `NeverOverRefused`, `ShedsOnlyTurnedAway` |
| `server` | 2 workers, reserve 1, 3 connections, fair | `RestIsDone`, `QueuedStarts` |
| `meter_safety` | 1 poller, 2 requests, clock to 1 | `BilledWithinMeasured`, `LedgerIsAttributed`, `InflightIsMembers` |
| `meter_serial` | 1 poller, 3 requests, clock to 4, one thread | exact bills, `BankedWithinElapsed`, implements `IdealMeter` |
| `queue_lost_worker`, `meter_banked_twice` | the smallest that show it | violations, see below |

Bounds.  Two setters and two units of ceiling are enough for every race of a
release with an acquire, and three services for one that holds, one that is
handed a permit and one that waits behind it.  The queue holds both requests at
once, and its limits include a head whose deadline lies behind that of the
request after it; the clock reaches both.  In
`meter_safety` one tick lets one span be measured, claimed by two requests that
both saw the rate grow, and flushed by a thread with an older reading; longer
clocks are left to `meter_serial` and to the proofs.  In `controller` the fractions
are halves and a quarter of ceilings up to 4, so a step is one, more than one,
clamped above and below, and (a half of one) nothing before it is made one.  Half of
a sample is taken into the load, so it takes several samples above the target to
reach it, samples at the target from below never do, and one at zero leaves it; the
number of calm cycles goes through both sides of `refractory`.  Three services and
two calls can want one slot more than the highest ceiling.  In `front_door` three calls let a tenant's
run end and a new one refuse, a share of 3/2 is clamped, and NaN never equals
itself; a refusal, a shed and a forwarded call all meet a raise and a cut of the
ceiling.  In `server` two workers run four tasks, and
one of the two must be spare for the gate to open.  Named bounds: `MaxTime` (no stamp past it, no tick past it), `MaxCalls`
(no call of a tenant past it), `MaxPermits`, `Capacity`, and the sets.

The queue and meter runs say `CHECK_DEADLOCK FALSE`: clients leave for good,
`serve` returns, requests report once and the clock ends, so those systems stop.
All other runs check deadlock.

Each property has a mutant in `PROJECT.json`: a slip (defined next to the action,
marked `slip`) with which TLC finds the property violated.

### What the code does not do

Two runs end in a violation; each contradicts a test's assertion or an error the
code declares.

* `queue_lost_worker`: a place reserved before the worker goes away stays good;
  the request is accepted and its future hangs as long as any service lives.
  The `Err` arm at `queue.rs:299` is not reached this way (`queue.rs:43`).
* `meter_banked_twice`: a flush with an older reading sets the gate's stamp back;
  the next flush banks part of the span again (`tenant.rs:650`, `825`).  On one
  thread it cannot happen (`meter_serial`, `BankedOnce`).

Other behaviour a maintainer should know of, which the premises of the properties
name:

* *A permit abandoned.*  A waiter is handed a permit, the ceiling drops to zero
  and books a debt, the waiter is dropped before it polls: `PollSemaphore` gives
  the permit back past the debt, and a request is admitted under a ceiling of zero
  (`limit.rs:131`; the test at `limit.rs:284` has nobody waiting).  The debt stays
  until a later release repays it, so it does not add up beyond the abandoned
  permits.  This is why `ImplementsIdeal` asks that services are not
  dropped between grant and poll, and `OverloadIsRelieved` that this does not go on
  for ever.  At the gate the same can happen,
  but it never eats into the reserve (`ClaimsWithinSpare`) and leaves nothing behind
  once the machine is at rest (`RestOffersSpare`).
* *A lost share.*  A request that leaves and draws between the load of `inflight`
  and the `fetch_add` of `rate` (`tenant.rs:93`) is not billed for that span, though
  the span is measured as attributable ("the lone occupier owes it all",
  `tenant.rs:588`).  Never too much is billed (`BilledWithinMeasured`), sometimes
  too little.
* *A slot kept.*  A shedding service that is ready and whose call is then throttled
  keeps its slot, and one that was handed a permit keeps it, until it is polled
  or dropped (`rate_limit.rs:129`, `reject.rs:52`): a persistent connection that
  falls silent holds a unit of the ceiling.
* *Shares that change.*  Every change of a share starts a run over
  (`rate_limit.rs:74`).  The upper bound `NeverOverRefused` survives that; the lower
  one does not: a share that alternates between two values at each call refuses
  nobody unless a share is the whole.
* *Two setters.*  The controller reads the ceiling and sets a new one from it;
  another `set` in between is undone.
* *No decrease.*  With a `decrease` of 0 the fraction is `-0.0`, which is not below
  zero: under overload `step` raises the ceiling by one (`cpu_concurrency.rs:59`,
  `75`).  `CeilingFollowsLoad` therefore asks for a decrease above 0.
* *A sample at the target.*  With a smoothing below 1 the load approaches a lasting
  sample and need not reach it: samples that stay exactly at `cpu_target` need never
  lower the ceiling.  `OverloadIsRelieved` asks for samples above it.
* *Shed with a slot free.*  The shedding layer decides at `poll_ready` and acts at
  `call`.  A request is shed although the limit has slots when the innermost service
  was not ready, which holds on to the slot it got (`reject.rs:54`), or when a slot
  has come free since (`reject.rs:60`); `ShedsOnlyTurnedAway` says what remains.
* *A sample that is not a number* survives `clamp` and makes the smoothed load NaN
  for good, so that the controller never lowers the ceiling again
  (`cpu_concurrency.rs:53`).

`WithinHighestCeiling`, `ImplementsIdeal` of limiter, gate and meter, and the
serial bill properties are the other side of these: they say under which
conditions the promise does hold (one setter; one thread and no permit abandoned
between grant and poll).  One setter is a real condition: when two `set` calls
swap in one order and move their units in the other, more slots are in use for a
while than either ceiling allows, though never more than one highest ceiling for
each setter (`WithinCeilingPerSetter`).  So is one thread: when `acquire` finds no permit
and `release` no debt before either acts, a permit and a debt are left side by
side; `Conservation` counts both, and the next `set` or `acquire` takes the permit.

### Fairness

* Limiter, controller and gate: a service that was handed a permit is polled (the runtime
  polls woken tasks); a service that reserved a slot uses or drops it; a response
  future is polled or dropped; threads inside `set`, `acquire` and `release`
  finish.  Nothing makes anybody raise a ceiling of zero: `WaitersAdvance` promises
  a turn unless the ceiling falls to zero again and again.  Nothing makes a worker
  park: `IdleGateAdmits` assumes only that all
  workers are idle again and again.
* Controller: `observe` runs again and again (the loop that calls it is the
  application's); nothing is assumed of the samples except what a property's premise says of them.
* Server: a worker runs what it found or parks (weak); a woken task is run, since
  tokio serves its local and its global queue in turn (strong, for a task is not
  runnable all the time); a handler polled again and again answers (strong;
  otherwise one that yields for ever holds its worker); hooks finish.  No
  connection has to come and no deadline has to pass.
* Queue: timers fire, the worker's task is polled, handlers end, futures are
  polled.  The inner service may never become ready: `Start` is not fair.
  Clients may stay for ever, the worker is never forced to be dropped;
  `EveryCallEnds` is for executions in which it is not.

## Proofs

`tlapm` checks, for any number of services, calls, setters, workers, tenants,
requests and pollers, any ceilings, shares and capacity and any clock:

* `ConcurrencyLimitProofs`: `TypeCorrect`, `CapacityConserved`,
  `NobodyWaitsInVain`, `OneSetterWithinHighestCeiling`, `SettersWithinCeilings`;
  of the limiter on one thread `SerialImplementsIdeal`, the refinement of
  `IdealLimit`, and `SerialWithinHighestCeiling`.
* `ControllerProofs`: `ControllerTypeCorrect`, `ControllerImplementsLimit`,
  `ControllerWithinHighestCeiling`, `ControllerWithinCeilings`,
  `ControllerRaisesOnlyInUse`, `CeilingFollowsLoad`.
* `CpuGateProofs`: `TypeCorrect`, `IdleWorkersConserved`, `WaitsOnlyForWorkers`,
  `ReserveKept`, `RestIsExact`, and `SerialImplementsIdeal`, the refinement of
  `IdealLimit` by `SerialGate`; of the server on the gate `ServerImplementsGate`,
  `ServerTypeCorrect`, `RestsWhenDone`.
* `FrontDoorProofs`: `DoorImplementsLimit`, `DoorWithinCeilings`, `DoorTypeCorrect`,
  `FlagNeverStale`, `RefusalsAreTheShare`, `RefusalsWithinShares`,
  `ShedsWhoWasTurnedAway`.
* `RequestQueueProofs`: `TypeCorrect`, `RefusedMayRetry`, `NoOrphans`,
  `ReturnsDrained`, `NobodyTimesOutEarly`, `StartedFindsItsHandler`,
  `UnansweredIsHeld`, and `DispatchIsFifo`, the refinement of `FifoDispatch`.
* `TenantMeterProofs`: `TypeCorrect`, `NeverOverbilled`, `OccupiersCounted`,
  `LedgerKept`, `BilledWithinRate`, `GrowthBilledOnce`; of the meter on one thread
  `SerialImplementsIdeal`, the refinement of `IdealMeter`, with `BankedOnce`, and
  the bills, `BilledForPresence`, `BillsAreGrowth`,
  `LoneOwesAll`.

The only assumptions are the named ones on the constants: finite sets that do not
overlap, natural numbers, and bounds in their order.  The theorems on one highest
ceiling beside concurrent requests, on what the controller raises and on where it
moves the ceiling also assume one setter, the last one a decrease above 0 besides,
and `RestsWhenDone` a worker beyond the reserve.  All four refinements are proved.

*Limiter and gate.*  Conservation alone is not inductive: to count a step, one
must know that what moves was not already where it goes.  `Exclusive` (a service
is in the queue once, and nobody is in two places) and `NoIdlePermit` (nobody
waits while a permit is free) make every step move one element between disjoint
sets.  `SemaphoreFacts` proves what each semaphore operation does to permits,
waiters and grants, for both modules.  Units a setter still has to move are
counted as tokens, pairs of a setter and a number, so that a sum over setters is
a cardinality.  With one setter a second invariant bounds the ceiling plus all
that is owed: `release` finds no debt only when no `acquire` is about to book
one.

Several setters may overtake each other between swap and move, so that what is
booked (`Booked`: the ceiling, the debt, and what is still to be owed or taken
away, less what is still to be added) exceeds the ceiling.  It grows only when a
`release` finds no debt while others are still about to book some, and is then at
most the ceiling and what those others have in hand (`Jump`).  What one of them has
in hand is at most one highest ceiling (`Pace`), counted as pairs of a setter and a
number (`OthersBook`).  With the ceiling in force that makes one highest ceiling for
each setter (`SettersWithinCeilings`).  On one thread each call of `set` is over
before the next, and the ideal limit gives the single ceiling for any number of
callers.

That nobody waits in vain is conservation read from the other side: with a waiter
no permit is free, so what the ceiling is made of is in use or on its way.

`SerialInv` is what makes one thread ideal: nobody else acts while somebody stands
between two halves, so a free permit and a debt never exist side by side.  With it
each step of `SerialLimit` and `SerialGate` is one of `IdealLimit` or a stutter:
an acquire that succeeds takes one of `ceiling - holders` permits, and a release
that repays a debt changes nothing that can be seen.

*Gate.*  Conservation counts the reserve but does not protect it: a debt booked
for a worker that idles again would do as well.  `OwedByRunning` is the missing
half: what is owed, booked or about to be, is at most the workers that run, because
every unpark owes once and every park pays once.

*Server.*  Each of its steps is one of `CpuGate` or none, so the gate's theorems
hold of it.  `ServerInv` adds that whoever waits at the gate without running has a
place in the semaphore's line or a permit (`GateIsAsked`), that a slot is held only
by a `serve` that runs, and that a parked worker runs nothing.  When everything is
at rest, `RestOffersSpare` then says that the permits beyond the reserve are on
offer; since nobody waits while one is free, nobody waits.

*Controller.*  `RaisesOnlyInUse` relates `available()`, read now, to a ceiling read
before.  It needs that the controller's last `set` is over (`SetIsOver`) and, with
one setter, that the ceiling read is the one in force (`SeenIsCurrent`);
`CapacityConserved` then turns permits that are missing into slots in use or
being given back, up to the debt.  `CeilingFollowsLoad` needs that a decision and
the load it was made for stay together (`DecidedByLoad`), and that a step of any
fraction, rounded down, still moves the ceiling, downwards if the fraction is below
zero (`MovedMoves`).  `SmoothedInRange` keeps the load between its bounds.

*Front door.*  Refusals of a run equal its share rounded down; for the sum over
runs the runs that are over must be within their own shares
(`EndedRunsInBudget`).  A tenant's shares multiply counters, so the arithmetic is
split into lemmas on one product each.  That a shed request was turned away needs
that whoever may call and is not ready was last told to wait (`TurnedAway`), and, for
a full limit, that nobody waits while a permit is free: conservation then makes the
whole ceiling taken or on its way.

*Queue.*  `Placed` says for each request which combinations of client, answer
channel, line and task are possible: a request whose answer is a refusal has no
task and is in nobody's hands, a running one has a client that can abort it.  The
refinement then needs that the worker's hand followed by the channel is a sequence
without repetitions whose head is the only one that can start; a request given up
stays in the line until the worker gets to it and takes it out, as the abstract
queue's `Refuse` does.

`NobodyTimesOutEarly` follows a
deadline through the channel, the worker's hand and the answer to the outcome.
`StartedFindsItsHandler` says that a handle in a client's future belongs to a
handler that is running or ended by itself: the branch for a cancelled one
(`queue.rs:384`) is part of `PollStarted` and never taken, because only a client that
goes away has its handler told to stop (`Placed`).  A shutdown of the runtime, which
would also cancel handlers, is not modelled.  `UnansweredIsHeld` draws the line around what `queue_lost_worker` shows:
a request left without an answer behind a dropped worker lies in the channel, and
only while some `QueueService` lives, since the last one takes the channel along
(`LeakEnds`).

*Meter.*  `attributed <= accumulated` is inductive with: at the exchange, what
was seen of `attributed` plus the credit is at most `accumulated`.  `attributed`
is compared by the exchange, and `accumulated` only grows.  That growth of the
rate is never negative needs `seen <= rate`; that `inflight` never goes below zero
needs the count of its members, which needs to know where each flush and draw
returns to (`RequestPlaces`).  Nothing is needed of the clock readings, which
may be as old as they like.

`LedgerIsAttributed` sums the bills of all requests with a fold.  No induction over
finite sets can be cited, so the facts about the sum (it exists, is unchanged by
equal summands, grows by what one summand grows) are proved by taking a least
subset of the requests for which they would fail.  `GrowthBilledOnce` needs that a
bill with what is being drawn never exceeds the growth seen (`BillsWithinGrowth`).

On one thread nothing comes between the steps of a handler (`SerialInv`): its
reading is the time, what it flushed stays flushed, and the company it divides by
is the company there is.  Adding what is in hand and what stands at the gate to the
totals gives `IdealMeter`'s.  The bills need what is still to come.  `BillInv`: a
bill, the growth not drawn yet and the time to be accrued are together at most the
time the request was there.  `LoneInv`: they are at least the time it was alone.
`RoomInv` is about all requests at once: each unit of growth somebody may still draw
is a pair in `Due`, and there are no more such pairs than there is time accumulated
and not attributed.  Shares are rounded down, so an accrual adds at most the span;
a draw therefore finds room for all it asks, and a bill is the growth of the rate
since the request joined (`LedgerInv`).

Only model-checked is what needs fairness, which is out of the prover's reach:
`WaitersAdvance`, `OverloadIsRelieved`, `ZeroIsLeft`, `IdleGateAdmits`,
`EveryCallEnds`, `ServeEnds` and `QueuedStarts`.  Every invariant, action property
and refinement that a passing run checks is also a theorem.  The theorems
`NobodyWaitsInVain` and `WaitsOnlyForWorkers` are the safety half of the waiters'
liveness: who waits does so for units that somebody has.

## Not modelled

* Memory orderings, wrap-around, conversions of durations, and the panic of
  `set` beyond tokio's `MAX_PERMITS`.
* The inner services, the runtime, channels, timers and task handles, except as
  the code uses them.
* Samples that are not numbers and the rounding of `f64`: fractions and shares are
  exact, loads are rounded to the model's own grid.
* A shutdown of the runtime under the queue.
* A poisoned tally, which admits everybody: nothing panics while it is locked.
* In `Server`: HTTP, the error layer, how many polls a handler takes, and a client
  that goes away in the middle of a request (`RequestQueue` has that).
* `lib.rs` declares modules.
* Where `QueueService::poll_ready` waits for a place, nothing bounds the wait;
  the model has the place as a guard and no fairness for it.

## Plan

Done, in this order: `DebtSemaphore`, `ConcurrencyLimit` and its proofs, `CpuGate`
and its proofs, `RequestQueue`, `TenantMeter` and its proofs, `Quota` and
`FrontDoor`, `Controller`, `Server`, the proofs of the queue, of the controller, of
the front door and of the server, the four refinements, the bills and their
sum, and the bound for several setters.  Next:

1. The meter under the queue: who polls it when the queue is empty, and what a gate
   left shut bills (`tenant.rs:281`); every request reports, whatever it retries.
2. A second setter, an operator say, next to the controller, as a run
   (`ControllerWithinCeilings` bounds what it can cost).
3. The panic of `set` beyond `MAX_PERMITS`, with the ceiling already swapped.
