# maxllm_gate in TLA+

Specifications of the concurrency, rate limiting and failure handling of the
two Python packages of this repository, `maxllm_gate` (an asyncio client that
spreads LLM calls over several API keys) and `llm_scheduler` (a queueing
server built on the same idea), with TLC configurations that check them and
TLAPS proofs of the properties that matter most.

## 1. The system

### The SDK, `src/src/maxllm_gate`

| component | state | operations | interacts with |
|---|---|---|---|
| admission (`scheduler.py` 28-67, 116-130, 165-222, 376-427) | semaphore, `_active_requests`, three totals, shutdown flag | `schedule`, `schedule_stream` around the request they run, `initiate_shutdown` | runs the request; asyncio wakes its waiters |
| execution (`scheduler.py` 224-374, 429-521) | per request: key, tried keys, attempts, last error | choose a key, sleep, consume, call, retry, fall back, stream | rate limiter (plain calls), provider (await) |
| rate limiter (`rate_limiter.py`) | per key: two token buckets, consecutive errors, time of the last error | `select_key`, `consume`, `record_success`, `record_failure`, lazy refill | called by execution |
| client (`client.py`) | initialised flag, key list, stream threads and queues | `chat`, `chat_stream`, `add_key`, `shutdown` from any thread, their async twins on one loop | wraps the scheduler; its threads share semaphore and limiter |
| Redis backend (`redis_backend.py`) | counters, latency hash, lock keys with expiry | Lua window update, `check_capacity`, `record_error`, lock | several processes share one Redis |
| configuration, validation | none after loading | parsing, defaults | read by all |

On one event loop, everything between two `await`s is atomic; the hard
behaviours are what comes between them: a permit handed to a waiter whose
timeout fires, a sleep after which the chosen key is no longer free, a
cancellation or a closed stream at any await, a shutdown with requests in
flight, a retry loop that shares its attempts between backoff and fallback. The
sync client adds threads: every `chat` runs on an event loop of its own, every
stream in a thread with one, and all of them share one `asyncio.Semaphore` and
one limiter, whose methods are a few locked steps each.

### The server, `src/src/llm_scheduler`

| component | state | operations | interacts with |
|---|---|---|---|
| token bucket (`rate_limiting/token_bucket.py`) | tokens, last update | `consume`, `reserve`, `add_tokens`, `reset`, lazy refill | owned by the tracker |
| tracker, key manager (`rate_limiting/`) | per key: two buckets, error counters | `select_key`, reserve, refund, record | called by scheduler and dispatcher |
| queue manager (`core/queue_manager.py`) | bounded priority queue, worker tasks, futures | `start`, `stop`, `enqueue`, worker loop with deferral | workers run the scheduler's processor |
| scheduler, dispatcher (`core/`) | running flag | reserve, enqueue, await the future; stream from the provider, refund | all of the above |
| strategies (`strategies/`), estimator (`core/token_estimator.py`) | none | choose a key; estimate a request | the tracker's keys; callers of the schedulers |
| retry and time helpers (`utils/`) | attempt counter; events of a window | retry with backoff; `can_add`, `add` | used by nothing but their exporters |
| models, API, observability | none, or counters nobody reads back | formatting | |

Hard behaviours: capacity is reserved when a request is queued and used when a
worker reaches it; workers put deferred requests back into a bounded queue;
stopping cancels workers with requests in hand; failures refund or do not.

`PROJECT.json` lists every component with what is and is not modelled, and
under `hazards` the line where each difficulty bites.

## 2. Modules

| module | models | uses |
|---|---|---|
| `Admission` | semaphore, counters and shutdown of `schedule` / `schedule_stream`; what a request does inside is left open | |
| `Buckets` | arithmetic the bucket modules share | |
| `RateLimiter` | buckets, circuit breaker and key choice of the SDK's limiter | `Buckets` |
| `SdkScheduler` | `_execute_request` and `_stream_request` in full | `Admission`, `RateLimiter` |
| `EagerBucket` | abstract: a bucket refilled at every tick | `Buckets` |
| `TokenBucket` | the lazily refilled bucket of both packages, with its waits, reservations and refunds | `Buckets`, instance of `EagerBucket` |
| `WorkQueue` | the server's queue, workers and futures; what the processor does is left open | |
| `KeyManager` | the server's tracker and key manager | `Buckets` |
| `ServerScheduler` | the server's scheduler and dispatcher | `WorkQueue`, `KeyManager` |
| `RedisBackend` | usage window, error counter, lock and memory fallback of processes sharing a Redis | |
| `Client` | the SDK used from several threads: lazy initialisation, loops, the semaphore between them, stream threads and their queues, `add_key`, `shutdown` | |
| `Latency` | the latency statistics of the SDK's limiter and of its Redis backend | |
| `KeyScore` | the SDK's selection strategies and the balanced score | `Latency` |
| `KeySelection` | the server's ways to choose a key: key manager, tracker, strategy classes | instance of `KeyManager` |
| `TokenEstimator` | the token estimates of both packages | |
| `Retry` | `retry_with_backoff`, and the retries of `Dispatcher.dispatch` | |
| `SlidingWindow` | the window of `time_utils.py`, used by several callers | |
| `MCSdkScheduler`, `MCServer`, `MCRedis`, `MCClient` | small instances for TLC | |
| `MCStandalone` | small instances of the modules that need no other: one of them moves in each behaviour | `TokenBucket`, `SlidingWindow`, `Retry`, `KeyScore`, `KeySelection`, `TokenEstimator`, `Admission` |
| `Buckets_proofs` | lemmas about waits, sums and induction over finite sets | `Buckets` |
| `TokenBucket_proofs`, `Admission_proofs`, `SdkScheduler_proofs`, `RedisBackend_proofs`, `Client_proofs`, `ServerScheduler_proofs` | lemmas and theorems | the module each is named for |
| `Standalone_proofs` | theorems about the stand-alone modules | `Retry`, `SlidingWindow`, `KeyScore`, `KeySelection`, `TokenEstimator`, `Buckets_proofs` |

Three abstract specifications carry the composition. `AdmissionSpec` and
`QueueSpec` say what the admission layer and the queue do whatever is run
inside them; `SdkScheduler` and `ServerScheduler` are checked to implement them
with the same variables. `EagerBucket` is the bucket the schedulers' modules
use, and `TokenBucket`, the code's, implements it with the refinement mapping
"the level a look would find now".

### How the SDK model corresponds to the code

A request is an asyncio task; `pc` says where it is.

| `pc` | the code is at |
|---|---|
| `idle`, `refused` | before the call; refused because of the shutdown flag |
| `queued` | waiting in `wait_for(self._semaphore.acquire())` (line 193, 401) |
| `handed` | the waiter's future has its result, the task that acquires was not run yet: its timeout or a cancellation may still take the permit from it, and a newcomer queues behind it even if another permit is free (`locked()` looks at the waiters) |
| `granted` | has its permit; nothing is left to time out |
| `deferred` | `asyncio.sleep(wait_time)` (line 275, 465) |
| `calling` | `litellm.acompletion` (line 315, 483) |
| `streaming` | between two chunks (line 496) |
| `backoff` | `asyncio.sleep(delay)` (line 372) |
| `done`, `failed`, `rejected`, `cancelled` | returned; raised; timed out for a permit; cancelled or closed |

Each action is the code from one of these awaits to the next, everything it
calls included. `Admission` leaves open what a request does between entering
and leaving (`Enter`, `Proceed`), so `AdmissionSpec` is the abstract
specification of admission and `SdkScheduler` refines it with the same
variables.

Data is abstracted as follows. Time is counted in ticks, and a bucket of
integer tokens refills at each tick. A request's estimate is a constant (how it
comes about is `TokenEstimator`'s). A provider call may end in any way of `ErrorKinds` (a timeout, a rate limit or
server error that makes the code fall back, anything else). Strategies other
than `least_utilized` compare data of the wall clock and may choose any ready
key; what they do choose is `KeyScore`'s. `paid` is a history variable.

### How the token bucket corresponds to the code

`tokens` and `updated` are the fields of the same meaning, `now` is
`time.time()`. `Level` is what `_refill` would leave, `Settle` is `_refill`;
`Consume`, `Reserve`, `AddTokens`, `Reset` and `Look` are the methods. The
clock does not step back: if it did, `_refill` would take tokens away, which
makes the limiter stricter.

### How the server model corresponds to the code

Callers and workers are tasks of one event loop, and an action is the code from
one await to the next. `stage` says where a request is, `worker` where a worker
is.

| `worker` | the code is at |
|---|---|
| `getting` | `wait_for(self._queue.get(), 1.0)` (`queue_manager.py:185`); its timeout starts the loop over and changes nothing |
| `holding` | the inner `get` has the request, the worker has not run since |
| `returning` | `self._queue.put(request)` of a deferred request finds no room (194) |
| `resting` | `asyncio.sleep` (195) |
| `running` | `self._processor(request)` (200) |
| `ended` | left the loop, or not started |

`holding` exists because `wait_for` in Python 3.11, the Dockerfile's version,
runs the `get` as a task of its own: the place in the queue is free before the
worker looks at the request. It is also where a cancellation is swallowed:
`wait_for` returns a result that is already there. Python 3.12 awaits the `get`
in place, which closes the gap.

`Schedule` is `Scheduler.schedule` up to `put`; `Dispatch` is a worker's call of
`_process_request`; `Completes` and `Fails` are its two ends with
`record_success` and `_handle_error`. Reservations are made in `Schedule` and
never returned except by `Fails`. `StartScheduler` is `Scheduler.start`: it
registers every key anew, with full buckets and no errors, and replaces the
queue. `owed` and `provider` are history variables. `owed` holds the requests
that reserved on the keys as they are registered now and were not dispatched
yet; a restart empties it. `provider` is a bucket of the same limit and rate
debited when a request is dispatched, which is when the provider sees it; a
restart means nothing to it.

### How the Redis model corresponds to the code

Each action is one Redis command or the Python code between two replies. A
process that is `checking` has read the hash, `cleared` was told it may go
ahead, `updating` has computed its window and not yet run the script, `counted`
is between `INCR` and `EXPIRE`. Nothing in the repository calls `check_capacity`
or the lock, so processes use them as their documentation suggests: check, use,
record, and in the behaviours with `guarded` take the lock around that.
`store[p]` is where a process counts: the shared Redis, or its own memory when
`initialize` found none.

Each process stamps its updates, and judges what it read, by its own
`time.time()`: `lag[p]` is how far its clock is behind the fastest one, at most
`MaxLag` and constant. What a request used may exceed its estimate by
`MaxExcess`. Redis keeps one window per key, that of the newest stamp: the first
process to enter a minute drops the counts of the one the others are still in,
and these go on adding to the newer one. `UsageIsCounted` is therefore about the
newest window only, and `OvershootBounded` and `ExactUnderLock` about what is
stored; how much the slower processes let through meanwhile they do not say.

### How the client model corresponds to the code

A thread makes one call after another, of the kinds `Kinds` allows it: `chat`
on a loop of its own (`asyncio.run`), `stream` (a background thread with a loop,
and the generator that reads its queue), or `nested`, a `chat` made inside a
running loop, which hands its coroutine to that loop and blocks it.

| `pc` | the code is at |
|---|---|
| `registering` | the loop of `_ensure_initialized` (`client.py:118`) |
| `blocked` | `future.result(timeout)` of a nested `chat`; nothing else can happen than its timeout (204) |
| `submit` | the shutdown check of `schedule` (`scheduler.py:186`) |
| `look`, `peek`, `take` | the semaphore's `locked()`: `_value == 0`, then the waiters, then `_value -= 1` |
| `queueing`, `waiting`, `expiring` | `acquire` makes a future, waits for it, `wait_for` cancels it |
| `selecting` | `select_key`, the circuits of any keys being open |
| `sleeping` | `asyncio.sleep(wait_time)` of a deferral (`scheduler.py:275`) |
| `asking`, `asked`, `debiting`, `charging` | `consume`: `can_handle` looks at the request bucket, then at the token bucket; then each gives what it has |
| `calling` | the attempts, with their retries and fallbacks, or a stream between chunks |
| `releasing`, `waking`, `handing` | `release` of the `finally`: `_value += 1`, find a future that is not done, give it the permit |
| `ending` | the result reaches the caller, or the last item the stream's queue |

A step is what CPython 3.11 does between two points where it may switch
threads. The semaphore is the standard library's, so its definitions are
external; they follow `asyncio/locks.py` and `asyncio/mixins.py` of 3.11, the
Dockerfile's version: a semaphore belongs for ever to the first loop that had to
wait, `set_result` from another thread wakes nobody, and neither `locked()` nor
`release` is safe between threads. In consequence permits may be taken by more
threads than there are (the docstring at `scheduler.py:176` says concurrency is
limited), and `value` may go below zero. `PermitsConserved` says what remains
true: every permit is accounted for, and only the two races on a waiter's future
lose one.

A request that waited is sent whatever `consume` answers, and so is one whose
key another thread emptied since it was selected: the answer is ignored
(`scheduler.py:285`). Retries and fallbacks ask no bucket at all, so an attempt
after the first takes nothing and `calling` stands for all of them. What
`OverrunBounded` bounds is therefore not what is sent but what `consume` lets go
and a bucket then does not give, because check and debit are apart.

Buckets refill to any level between two looks at them, for the keys of `Refilled`;
`_refill` is lazy, so a step of `Refill` is taken only when somebody is about to
look. Each bucket of a `KeyState` carries two counts for the property: `dried`, the
debits that left it with less than a request needs, and `unpaid`, the debits it
refused. `states[k]` is the sequence of the `KeyState`s made for a key, the current
one last; a consume in flight goes on with the one it looked up. `lost` counts
the permits two races lose.

Left to `SdkScheduler`: how an attempt ends, which key a fallback takes, and when a
circuit is open (here any may be, at any time). Left out: the `RuntimeError` of a
deque changed while `_wake_up_next` walks it. A thread makes its next call when
the stream or the orphan its last call left behind is over.

### How the stand-alone models correspond to the code

`SlidingWindow`, `Retry`, `Latency`, `KeyScore`, `KeySelection` and
`TokenEstimator` each keep the fields their code keeps, plus a history or a
clock where a property needs one. What the functions compute is an operator; the
actions build up the states in which it is asked: samples recorded, keys used
and failing, messages appended, calls failing. The window's list of timestamps
is the number of events of each tick; its callers may all have passed `can_add`
before the first of them calls `add`. Of sorted samples a percentile is the
one with at most its rank below it. In a list of keys a key is told by its
place, so that `min(...)` is the first place of the least and a loop that keeps
the best so far is a function of the places walked (`Walk`). Decimal factors are numerators
over a common unit (`AvgScale`, `Unit`, tenths), chosen so that no value of the
instance is rounded but where `int()` rounds it in the code; `//` and `int()` are
floors. Some things the models show beside what the properties say:

- the delay of `calculate_backoff` may exceed `max_delay` by the jitter, 25 %,
  because the jitter is added after the cap;
- `Dispatcher.dispatch` retries what it calls not retryable as well, and never
  refunds, since what reaches `_handle_error` is tenacity's `RetryError`;
- `latency_aware` compares seconds with a ratio as long as a key has fewer than
  three samples;
- a preferred provider whose keys are exhausted is waited for although another
  provider's key has room; no caller passes one;
- `max_tokens = 0` is one token of output to the server's estimator and no limit
  to the SDK's;
- Redis never stores the minimum and maximum of the latency samples: the script
  (`redis_backend.py:249`) compares the first sample with itself, and then every
  later one, so `get_latency_stats` reports 0 for both (`PercentilesAgree` says so).

## 3. Runs

| run | question | instance | states |
|---|---|---|---|
| `sdk_scheduler` | Do permits, counters and the retry loop keep their books under any interleaving, and does the scheduler implement `AdmissionSpec`? | 2 chats, 1 stream, 2 keys, 2 permits | 1.8 M |
| `sdk_liveness` | Do admitted requests settle, and waiting ones move on? | 3 requests, 1 key, 1 permit | 105 k |
| `server_queue` | Is no request lost, served twice, answered twice or dispatched before its reservation is covered; does the scheduler implement `QueueSpec`? | 3 requests, 2 workers, a queue of 1 | 1.5 M |
| `server_liveness` | Is every queued request processed if the queue has room? | 3 requests, 1 worker, a queue of 3 | 886 k |
| `redis` | Is no usage lost, what does check-then-act cost, what does the lock give? | 2 processes whose clocks may differ | 2.6 M |
| `client` | However threads interleave, are permits accounted for, keys usable, streams complete, and does every caller hear back? | 2 threads (one chats or streams, one chats or calls from inside a loop), 1 permit, a key added meanwhile, a shutdown | 613 k |
| `client_refill` | How much do two threads between a check and its debit let go unpaid, if buckets refill at any moment? | 2 threads that chat, 1 permit, a key added meanwhile | 2.6 M |
| `standalone` | Is lazy refilling the same as eager, is nothing minted, are waits exact; do the window, the retries, the statistics, the choices of a key and the estimates keep what is relied on; does the semaphore strand no permit? | 1 bucket, 1 window with 2 callers, 1 retry loop, 2 or 3 keys, 2 messages, 4 requests at 2 permits | 357 k |
| `sdk_unpaid`, `server_jam`, `server_burst`, `client_contention` | counterexamples, see section 6 | | |

Bounds, and why they are enough:

- Buckets of two tokens (three in `redis`) and requests of one or two: a request
  may fit, may need a whole window, or may wait for one or two refills, and two
  requests may compete for the last token.
- Three requests against two permits, or one: somebody runs, somebody waits, and
  a third overtakes or is overtaken. Two keys are one to fail and one to fall
  back to.
- `MaxRetries = 1` gives two attempts (the code doubles it): first, and retry or
  fallback. `ErrorCap` and `AgeCap` saturate counters beyond which the code
  cannot tell values apart.
- A queue of one place is the smallest that can be full; three requests are one
  queued, one in a worker's hands and one waiting for room.
- `Horizon` bounds the clock. In `server_*` nothing is scheduled after it, so
  every request comes due; in `redis` it spans two windows
  and a lag. `MaxLag = 1` is half a window, `MaxExcess = 1` half the largest estimate.
- `client`: `MaxOps = 3` bounds calls, added keys and shutdowns together: two calls
  that race and a third event, or a thread that calls again after a shutdown or
  an orphan. Its buckets do not refill; those of `client_refill` do, with
  `MaxOps = 4`: two races for one bucket, with a refill between them. One permit and buckets of one request make any second request
  contend for both. `client_contention` has three threads, since it takes one to
  hold the permit, one to wait and one to be refused.
- `standalone`: windows of two ticks over five, two callers (the second passes the
  check on what the first has not added yet), four attempts (the third delay
  meets the cap), four latency samples over a window of three (one is dropped, and
  three are the code's threshold), 15 seconds between uses of a key so that
  freshness reaches its floor within the clock's six steps, keys that are new or
  start with two samples so that the third is near, keys of three providers of
  which one is in no order, texts with nothing, a few and many characters.
  Four requests at two permits are the fewest for two releases in a row with one
  waiter, and a newcomer that queues behind it beside the second permit.
- Symmetry is declared over keys, workers or processes only, in runs without
  liveness properties, and the instances treat them alike.
- `server_queue` turns deadlock checking off because the pool really can stop
  for good (finding `server_jam`); the counterexample runs stop at their error.

## 4. Fairness

`sdk_liveness` assumes that time passes, that a task that is ready runs, that a
sleep ends, and that a provider call ends: `wait_for` bounds it by the request
timeout. It assumes nothing of a stream between chunks, which the code awaits
without a timeout, nor of a caller or a cancellation, and it gives the waiters
of the semaphore no help from their own timeouts; `QueuedMovesOn` is
conditional on streams not stalling.

`server_liveness` assumes that time passes, that each worker runs and the
provider answers it or fails (litellm's own timeout), and that a blocked `put`
completes when there is room. It assumes nothing of `start`, `stop`, callers or
cancellations.

`client` assumes that threads run and timers fire, that a chat's provider call
ends (`request_timeout` bounds it), and that a stream's consumer keeps asking. It
assumes nothing of a stream between chunks. `CallersHearBack` holds under it for
everybody but a consumer whose stream stalls or is ended by something that is no
`Exception`: for the latter, the background thread puts no last item and the
consumer waits for ever. The disjunct that excepts it is the hazard, stated.

## 5. Proofs

TLAPS proves, for every value of the constants the modules' assumptions allow:

- `Admission_proofs`: `AdmissionSafety` (type, permit accounting, no stranded
  permit, totals), for whatever requests do inside. The invariant is
  one of counting: the free permits and the requests that hold or were handed
  one make up `MaxConcurrent`, and each counter is the number of requests at the
  places it counts. A permit does lie free beside a waiter for a moment, when two
  releases come in a row and the first one's waiter has not run; `NoPermitStranded`
  says that then a permit is on its way to a waiter, whose acquire wakes the next
  one when it runs, and whose timeout or cancellation gives the permit on. What bounds the counters is not assumed but follows from
  that accounting, so types alone carry no bounds in the invariant.
- `SdkScheduler_proofs`: `ImplementsAdmission` maps every step of the scheduler to
  a step of `AdmissionNext` or a stutter, and so brings `AdmissionSafety` over:
  `PermitsAreAccounted`, `NoPermitIsStranded` and `TotalsAreExact` are the scheduler's.
  `TypeCorrect` and `FallbackSafety` need each other: that an
  attempt is left when a request sleeps bounds the next one.
  `ImmediateCallSafety` is a step property that uses the type invariant only.
- `TokenBucket_proofs`: `TypeCorrect`, `LazyIsEager` (the refinement),
  `BudgetHolds`, `WaitsAreExact` and `StartsAreWithinRate`. The last needs two
  facts about the reservations still to begin: at no tick to come is more
  overdrawn than the uses that begin after it (`LentIsPaid`), and what begins from
  any tick on, with what is left, comes from one capacity and the refill since
  (`AllWithinRate`). A reservation adds its tokens to both sides at the first tick
  whose refill allows it, which is where the exactness of the wait enters.
- `ServerScheduler_proofs`, first about the queue whatever is run in it:
  `QueueKeepsRequests`, `QueueAnswersOnce`. The invariant
  (`QueueInv`) pairs the hands of workers with the stages of requests
  (`HandsAgree`), ties futures to stages, and counts: each total is the number of
  requests at the stages it counts, so a step that moves one request changes it
  by one or not at all. `ImplementsQueue` maps the scheduler's steps to the
  queue's; it needs that the wait `select_key` answers is a natural number
  (`SelectionIsCovered`). That a worker past its choice holds a request with a
  key (`KeyInHand`) is what refunds and dispatches keep their types by.
  `DispatchCovered` holds because what a key has overdrawn at any tick from now on,
  its refill until then included, is reserved by requests due only after that
  tick (`Covered`). A reservation extends this by its own wait, nothing a
  dispatch, a refund or a success does lowers a bucket, and no request is
  dispatched before it is due. A restart fills the buckets and forgets what was
  owed, so the property would be empty after it if a request of before could
  still be dispatched: that none can is its second half (`WaitingIsOwed`), and
  follows from the queue being replaced. The property speaks of the keys as
  last registered; what the provider granted before a restart the code forgets.
- `Standalone_proofs`: `RetriesSpaced` (the number of delays, of errors and of calls
  go together; delays double until the cap, and `2^n` grows because it counts the
  subsets of `n` things); `EveryWindowHolds` (what the list has dropped is outside
  every window to come, and what is in the window and granted together exceeds the
  limit by no more than one grant of every caller but the last to ask, `GrantsFit`);
  `BetterKeysAreNotPassedOver` (each strategy's figure of the better key is lower,
  term by term) and `RoundRobinTakesTurns` (who was passed by was used before the
  one that passed it); `ServerSelectionsAgree` (in an order in which any
  two keys compare, a walk that only changes for a strictly better key ends at
  the first of the least, which is what `min` returns; utilizations are such an
  order though they are compared by cross-multiplication); `StatisticsAgree` (one
  list is the mirror image of the other, so that below any value both have as
  many samples; and nothing compared with itself is ever stored); `EstimatesAreOrdered`.
- `RedisBackend_proofs` proves every property of the `redis` run, for any number of
  processes. `UsageIsCounted` needs that no stored or stamped window is one of
  the future and that what counts for the newest window outlives it.
  `ExactUnderLock` needs that whoever checks or updates has the lock, that what it
  read still holds (or has expired), and that a cleared request fits what is
  stored or starts a newer window (`FitsIn`); a count may exceed the limit by one
  excess, which only a request that found room can bring.
  `OvershootBounded` needs the processes in flight to the stored hash (`InFlight`):
  those cleared, and those whose reply will clear them, unless the window they
  stamp is newer and starts a hash of its own. `WithinBudget` says that with `F` of
  them, what one may still record, `F - 1` largest requests and the count together
  stay within the limit, one excess and `N - 1` largest requests. A process that
  was denied, or stamped a newer window, joins them only when the hash has
  expired or been replaced, and the count starts again.

- `Client_proofs` proves every safety property of `client` and `client_refill`, for
  any number of threads, keys, permits and calls. `TypeCorrect` needs that whoever is about to
  debit a bucket has the number of an existing KeyState, which holds because none
  is ever dropped. `PermitsAreConserved` counts again, and needs one fact that is
  not about counts: only the loop the semaphore is bound to waits and it has one
  request at a time, so whoever comes to wait overwrites no waiter. `KeysAreUsable`
  follows a walk over a list that grows behind the walker; `StreamIsFaithful`
  from the queue being the chunks not yet received, then at most one last item.
  `OverrunIsBounded` rests on `UnpaidInv`. A bucket can only refuse the threads
  heading for it, those that found in it what they need and have not taken it
  (`Heading`), and only while it has less than that. Nobody joins them while it has
  less; a refusal moves one of them from those refusable to `unpaid`; and a debit
  that leaves the bucket with less makes refusable the threads that head for it,
  all but the debtor at most, while it adds one to `dried`. A refill only
  lowers what is refusable. The number of KeyStates follows from
  `config.keys` naming no key twice: a walker then passes each key once.

The assumptions are the named ASSUMEs of the modules, evaluated by TLC in every
run: finite sets, positive capacities and rates, defaults within the caps. What
the code does not check of them, and of what the models take for granted:

- `Client` assumes that `key_id`s differ. A configuration file's keys do (they are
  the keys of a mapping), but generated ids are a hash modulo 10000
  (`config.py:24`) and `add_key` takes any id; a repeated one is registered, with
  full buckets, once more for each walk that meets it again.
- `RedisBackend` assumes `StateTtl >= Window`: the time to live is a field of its
  configuration, the window's minute a constant. It assumes that clocks differ by at
  most `MaxLag` and by a constant, that a request uses at most `MaxExcess` more than
  its estimate, and that no estimate exceeds the limit (`MaxTokens`).
- `SlidingWindow` assumes that a method runs to its end, which is so for tasks of
  one event loop and not for threads: the class has no lock.
- `KeyScore` assumes `Room <= 1000 * AvgScale`, a resolution: two utilizations that
  differ, differ in the model's unit.
- Clocks do not step back, in any module.

Sums and walks are data of any length, and the library's induction theorems
cannot be instantiated by the provers here. What takes their place is one lemma,
`SubsetInduction` of `Buckets_proofs`: a set of subsets of a finite `S`, that
contains a subset as soon as it contains all smaller ones, contains `S`. It
follows from the strict subset order being well-founded (`WFMin`), and carries the lemmas about sums, the
existence of least elements, the walk of `select_key` and the recursive function
of `UsedBetween`.

Only model-checked: what is temporal under fairness (`AdmittedChatSettles`,
`QueuedMovesOn`, `EnqueuedIsProcessed`, `CallersHearBack`), for which TLAPS has no
rule, and the counterexamples of section 6. Every other property of a passing
run is a theorem.

## 6. What the runs found

| run | the code | and a document says |
|---|---|---|
| `sdk_unpaid` | after a deferral's sleep the result of `consume` is ignored, so a call goes out over the limit if a newcomer took the capacity | "No 429 errors" (`README.md:33`) |
| `server_jam` | all workers may wait to put deferred requests back into a full queue | "Deferred execution", "Async worker pool" |
| `client_contention` | with several threads a client that is merely full raises `RuntimeError` ("bound to a different event loop"), from the second loop that has to wait on | "RuntimeError: If scheduler is shutting down" (`scheduler.py:184`) |
| `server_burst` | capacity is debited when a request is queued and refills while it waits, so held-up requests start together | "Never blindly hits 429 errors" |

Three disagreements that the source shows as plainly as a run would:

- nothing registers tasks with `GracefulShutdown` (`register_task` has no caller), so
  `shutdown` returns at once with requests in flight, though it "Waits for in-flight
  requests to complete" (`scheduler.py:527`): `Admission`'s `Shutdown`;
- the process whose clock is ahead wipes the usage of the minute the others are
  still in (`redis_backend.py:110, 129`), though the script is there "to ensure
  consistency across instances" (99): why `UsageIsCounted` stops at the newest window;
- the extremes of the latency samples, "Set min/max" (`redis_backend.py:245`), are
  never set.

`DispatchIsCovered` complements `server_burst`: a dispatch is never earlier than its
reservation allows, only later. The server jam needs more deferred requests than
places in the queue together with the workers: with the default 10 workers and a
queue of 20, 30 deferred requests suffice, and with room for all of them
`server_liveness` shows that every one is processed.

## 7. Not modelled, and the plan

Left out for good: configuration loading, request validation, HTTP routes,
models, logging and metrics (parsing and formatting, or counters nothing reads
back), the tokenizer (a text is a length and a count), Redis snapshots and the
`status`, `capacity` and `to_dict` reads, `TimeWindow` and `timed_operation`, the
signal handlers, and the scripts, which drive the packages and are no part of
them. A 401, which the SDK retries like any failure although
`.github/copilot-instructions.md:192` promises otherwise, is an `ErrorKind`
(`permanent`) without a run of its own: the code has no branch for it to take.

Left for the next stage, in this order:

1. How far the starts of `server_burst` can exceed a limit in a window, and the
   starts of requests that slept in `sdk_unpaid`: bounds, stated and proved.
2. Instances of the server with two keys, and with a failing key in backoff.
3. The safety half of `CallersHearBack`: in which places a caller can be stuck.
