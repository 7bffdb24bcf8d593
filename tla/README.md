# SmartStay: the distributed search, in TLA+

SmartStay searches hotels through several providers. In distributed mode the
web processes only *admit* a search: they reserve a slot in Valkey, put a BullMQ
job on a queue and tell the client which session to poll. Worker processes take
the jobs, run the provider search and write the session. Every shared datum is
in Valkey and is changed by Lua scripts that compare tokens and fencing
numbers; everything between two scripts can be interleaved, delayed, repeated
or lost. This directory models that part of the server and proves what can be
proved about it.

## Inventory

| Part (under `server/`) | State | Operations | What must hold |
| --- | --- | --- | --- |
| Admission store, `queue/searchQueueAdmission.js` scripts | three keys: lease ends (sorted set), records, fences | RESERVE, BEGIN, RENEW, RELEASE, ADOPT, RELEASE_TERMINAL, SNAPSHOT | the ceiling; the keys agree; a fence only grows under its token |
| Queue admission, `admitSearch` and `POST /search-hotels` | what one request has read so far | reserve, add, getJob, getState, release or adopt, undo, clear the session | an error leaves nothing; an answer names a search that exists |
| Queued search worker, `queue/searchQueueWorker.js` | the running attempt, its grant, `ownershipLost` | begin, claim, search, assert, persist, mark retry or failed, release, heartbeat | no late result; no lost search; no leaked slot |
| Worker runtime, `queue/searchWorkerRuntime.js` | runtime state, heartbeat record | start, heartbeat, pause, resume, stop | acquisition only while the heartbeat is owned; draining is final |
| Session store, `state/valkey/valkeySearchSessionStore.js` | sessions, tombstones, byte accounting, continuation lease and fence | save, CAS update, claim, append, acquire, renew, release, clear | fenced writes; accounting; one continuation at a time |
| Continuation, `stayService.js continueHotelSearch`, `providerContinuationState.js` | provider executions of a session | begin, success, failure, summarize | every execution ends or can be resumed |
| Idempotency store, `state/valkey/valkeySearchIdempotencyStore.js` | claim and response per key, byte totals | claim, wait, complete, release | one execution per key; replays agree |
| Provider capacity, `state/valkey/valkeyProviderCapacityCoordinator.js` | global and per-provider lease and waiter sets, rate window | acquire, wait, renew, release, snapshot | limits hold; leases go back; waiters leave |
| Local capacity, `providers/common/inMemoryProviderCapacityCoordinator.js` | two counters and a queue in one process | acquire, wait, abort, release | limits hold; no waiter is left behind |
| Provider health, `state/valkey/valkeyProviderHealthStore.js` | circuit per provider, probe token | begin attempt, success, failure, reset | one probe at a time; stale answers are ignored |
| Local idempotency, `storage/searchIdempotency.js` | a Map of records, a byte total, promises | execute, join, replay, evict, expire | one search per key; bytes counted once |
| Booking stores, `state/valkey/valkeyBookingStores.js` | verification and handoff records | store, read, consume | a handoff is consumed once |
| Rate limiter, `state/valkey/valkeyEndpointRateLimitStore.js` | counter with a window | increment, decrement | the window's bound |
| Valkey executor, `state/valkey/valkeyShared.js` | connection pool | execute with a timeout | a timed-out command may have run |

The parts call each other as the code does: the route runs its execute callback
inside the idempotency store, the callback saves a session and calls
`admitSearch`; BullMQ calls the processor; the processor calls the admission
store and, through `stayService.js`, the session store, the provider capacity
and health stores. The hard behaviours are the interleavings of web processes,
attempts and heartbeats at each `await`; redelivery of a job whose first
executor is still alive; a lease that lapses under a running execution; a
command that timed out at its caller after it took effect; crashes; caller
clocks that disagree (every script takes `Date.now()` from its caller).

`PROJECT.json` lists the components with their status and every hazard at its
line.

## Modules

| Module | Models |
| --- | --- |
| `AdmissionStore` | the three admission keys and their scripts, one action per script |
| `AdmissionStore_proof` | the theorems about it |
| `SearchQueue` | the initial search end to end, on top of `AdmissionStore` |
| `SearchQueue_proof` | the theorems about it; extends `AdmissionStore_proof`, whose theorems it carries over to the whole queue |
| `Continuation` | the continuation of one search: its polls, lease and provider executions |
| `Continuation_proof` | the theorems about it |
| `SearchSessionStore` | the keys of all sessions: expiry, caps, byte accounting |
| `IdempotencyStore` | the records of all idempotency keys and the calls that share them |
| `FiniteSums` | lemmas: sums of sizes over finite sets |
| `ProviderCircuit` | the circuit breaker of a provider and the operations that ask it and report to it |
| `ProviderCircuit_proof` | the theorems about it |
| `Semaphore` | what a lease set of the capacity coordinator promises |
| `ProviderCapacity` | the limits on concurrent provider operations, and the operations that wait, hold, renew and release; implements `Semaphore` |
| `ProviderCapacity_proof` | the theorems about it |
| `WorkerRuntime` | start, heartbeat and stop of one worker process |
| `BookingStores` | the verification and the handoff records and the redirects |
| `SharedStores_proof` | the theorems about the stores of sessions, idempotency and bookings, and about the worker's runtime |
| `LocalCapacity` | the capacity coordinator of a single process, which a deployment without Valkey has |
| `LocalIdempotency` | the idempotency store of a single process |
| `InProcess_proof` | the theorems about these two |
| `MCSearchQueue`, `MCContinuation`, `MCProviderCapacity`, `MCSharedStores` | the instances that TLC checks; the last one has the parts that share no state: the stores of sessions, idempotency and bookings, the worker's runtime, and the two of a single process |

A module also holds a few operators that no action uses, each in front of the
definition it is a faulty form of: the mistakes that the properties are shown
to detect (`mutants` in `PROJECT.json`).

### AdmissionStore

`records`, `expiry` and `fences` are the three keys; a missing field is `None`
(0 for a fence, as the scripts read it). `issued` is a history variable: the
tokens drawn so far, because `crypto.randomUUID()` never returns one twice. A
script is atomic, so a script is an action; the guard is what makes it return
success, and a script that refuses changes nothing. Two exceptions change state
without success: RESERVE sweeps lapsed admissions before it answers
`conflict` or `full` (`ReserveRejected`), and SNAPSHOT, which a readiness probe
calls, sweeps as well. The time is an argument of every action and any member of
`Clock`: nothing makes the clocks of two processes agree. BEGIN and RENEW do not
look at the lease end, so a lapsed record that nobody has swept is taken up
again, as in the code. `Adopt` requires `storedToken \in issued`: the script does
not test it, but the token it is given is read from a stored job, whose
reservation drew it.

### SearchQueue

Variables: `api` (per request: where `admitSearch` is and what it has read),
`session` (the stage, fencing number and execution token of each session),
`job` (the BullMQ record of each job id), `worker` (per execution slot: the
running `processQueuedSearch`), `now`, and the counters of the bounds. Every
action is the code between two awaits on Valkey. The correspondence:

| Actions | Code |
| --- | --- |
| `MayStart`, `CreateSession` | `createQueuedHotelSearch` inside the idempotency store's execute |
| `ReserveStep` .. `AdoptStep` | `admitSearch` from RESERVE to its answer |
| `UndoReservation`, `ClearOwnSession` | the catch of `admitSearch`, the route's `clearSearchSession` |
| `Take`, `Finish`, `Stall`, `Retire` | BullMQ: delivery under a lock, the move after the processor, the stalled check, retention |
| `BeginStep`, `ClaimStep`, `SearchProviders`, `AssertOwnership`, `Persist` | `processQueuedSearch` and `executeQueuedHotelSearch` |
| `MarkRetry`, `RenewForRetry`, `MarkFailed`, `ReleaseStep` | the catch and the finally |
| `Heartbeat` | the renewal interval |
| `*Timeout` | the same command, which fails: it took effect and its reply is lost, or it did not. A session write that the byte budget refuses is such a failure |
| `WebCrash`, `WorkerCrash`, `Tick`, `Poll` | crashes, time, the readiness probe's SNAPSHOT |

A request stands for one run of the route's callback; its name is also the name
of the session it creates and of the token it draws. The idempotency store
lets one run per key through at a time, and a later one after the first has
ended: its response may not have been stored (capacity, a lost COMPLETE, an
error) or may have expired. The provider search is a choice of three outcomes:
a result (empty or not), a retryable failure, a final failure. The revision
compare-and-swap of a session update is folded into one atomic step, because
the code retries the read and the write on a conflict and the script decides on
the fields it reads itself. An execution's token and BullMQ's lock token are
numbers not in use anywhere (`FreshExec`), which is all that a UUID is compared
for and keeps the state space finite. A job that BullMQ delays for its retry
backoff is `waiting` like any other: the delay only postpones `Take`, which is
free to come late. BEGIN's token test stands for the worker's comparison of
search ids too, since a record's token and search id are stored together. A
session does not expire while its search is under way; what the store does with
expired ones is `SearchSessionStore`. A full byte budget refuses a session write with
a retryable error and is counted with the lost replies, so that the properties
without faults do not speak of it.

### Continuation

`session` has the fields of the record that a continuation reads or writes, `lease` the
holder of the Valkey lease key, `poll` where each `continueHotelSearch` is and the
copy of the executions it works on. `asked` and `stale` are history: the calls
made for each page, and the unlocked updates that stored executions older than
the session's. An execution of `providerContinuationState.js` is its state, the
page its continuation asks for and its attempts.

| Actions | Code |
| --- | --- |
| `Read`, `Recover`, `Finish`, `Wait` | the branches before the lease, with their updates in lock mode `unlocked` |
| `Acquire`, `Lock`, `Unlock` | `tryAcquireSearchContinuation`: the lease key, the session update under it, the catch that gives the lease back |
| `Begin`, `Renew`, `Call` | the executions marked running, the two `assertContinuationLease`, the provider calls |
| `Append`, `Save`, `Release` | for each answer the hotels, then the execution; the release with the outcome |
| `Abandon` | the catch: the continuation is released with the error and nothing else |
| `LeaseEnds`, `LockEnds`, `DelayEnds`, `Crash` | the TTL of the lease key, `continuationLockExpiresAt` on the readers' clocks, `nextAttemptAt`, a process that dies |

`mutateSession` reads the session, applies its change and writes under a
compare-and-swap of the revision, up to twelve times; the script decides on the
lock mode from what it reads itself, so the update is one atomic step. A lease
is compared by its token alone: tokens are random, so the fencing number beside
it adds nothing that the comparison does not, and is left out. The initial
search has ended before the first poll (the only client polls the initial stage
first), and the session outlives its requests. A `Fault` is any command of the
continuation that fails: a lost reply, a compare-and-swap that lost twelve
times, a session that has become too large. All of them throw from the same
awaits.

### SearchSessionStore

`revision`, `tombstone`, `expiresAt`, `sizeOf` and `total` are the five keys of
`valkeySearchSessionStore.js` that hold sessions. `Write` is SESSION_WRITE with its
early returns, `Clear` and `Stats` the other two scripts, `KeyExpires` the TTLs of
the server. Every script takes its time from its caller, so `t` is any reading. The
module keeps what the code does with the total: a write sweeps expired sessions,
subtracts them from a local total and returns early without storing it, so the
stored total stays too high for ever. `DriftOnlyByRefusal` says that nothing else
makes it drift, and `SessionsBounded` that the error is on the safe side.

### IdempotencyStore

`record`, `response`, `score`, `bytes` and `stored` are the keys; `call` is each run
of `executeInitialSearchIdempotently`. `Claim`, `Complete`, `Release` and `RecordStats` are the
scripts, `Read` and `WaitEnds` the replay and the waiting loop. Clocks that
disagree make any subset of the records that have come of age expired for a
script, and eviction, which goes by the stored expiry times, meet the records in
any order. `gone` is history: how the record of a key has left. Two things the
model shows are beside its properties: a replay whose record is evicted and
claimed anew between CLAIM and the read answers with no response at all, and
the waiting loop does not look at the fingerprint again (`replay_crossed`).

### WorkerRuntime

`runtime`, `timer`, `beat`, `target`, `starting` and `stopping` are the variables of
`createSearchWorkerRuntime` and the places where its three asynchronous functions
are; `worker` is the BullMQ worker and `published` the record in the registry. The
process talks to Valkey over one connection, whose commands run in order, and
BullMQ sets its paused flag before it waits for anything, so a pause that fails
still pauses. That, and that `resume()` takes effect while a job is running and does not
fail, is how the code uses the library, which is not part of the repository:
`TakesJobsWhenReady` and `DegradedRecovers` rest on it. A start fails at any of its
awaits, `waitUntilReady` included, and the worker is then closed. `early` is history: stop was called before start had ended, in
which case start overtakes it and publishes a record that nobody removes.
`DrainIsFinal` speaks of the other stops.

### BookingStores

`kept` are the stored records, `due` the two expiry indexes, `sent` the handoff each
redirect got. `Save` is STORE_RECORD (with its sweep, its refusal at the cap and
a lost reply), `Redirect` is CONSUME_HANDOFF and the redirect that follows its
reply, `RecordLapses` the TTL of the server. Reading a verification changes
nothing and is left out.

### ProviderCircuit

`circuit`, `failures`, `wait`, `probe`, `probeLeft` and `recordLeft` are the hash
of one provider in Valkey: the state, the failure counter (counted up to the
threshold, beyond which the code does not look), the end of the delay, the probe
token, the end of its lease, and the hash's TTL. Times are what is left of them
on the server's clock, which makes the state space finite without a bound on
time; a caller's clock is up to `MaxSkew` ahead, so it stores later ends and
sees them earlier. `phase`, `held` and `retry` are the caller inside
`executeProviderOperation`; `lease` remembers what a probe was granted.

| Actions | Code |
| --- | --- |
| `BeginAttempt` (`Refuse`, `GrantProbe`, `PassClosed`) | `beginProviderAttempt` and BEGIN_ATTEMPT, with a reply that may be lost |
| `CallReturns` | the adapter call under its timeout; every outcome of `providerSearchOutcomeService.js`, among them `circuit_open`, which is reported neither as a success nor as a failure |
| `ReportHealthy`, `ReportFailed` | RECORD_SUCCESS and RECORD_FAILURE inside the try; when one fails, executed or not, the catch takes over |
| `ReportCaught` | the report of the catch, with the delay the error carries (every Valkey error carries one) |
| `Crash`, `Tick`, `ProviderChanges` | a process that dies, time and the hash's expiry, the provider |

A command that was given up has either run before the caller went on or never
runs; one that runs later still is not modelled. The destination search, the
hotel details and the offer recheck use the circuit with a subset of these
steps. `resetProviderHealth` and `resetAllProviderHealth` are called by tests only
and left out. The model shows one thing no document speaks about: a success whose
report is executed but times out is reported again by the catch, as a failure
with an explicit delay, and opens the circuit of a healthy provider.

### ProviderCapacity

`globalLeases`, `providerLeases`, `globalWaiters` and `providerWaiters` are the
sorted sets; `leaseLeft` and `waitLeft` are the scores, which a token has in
common in its two sets, as what is left of them on the server's clock; `used` and
`windowLeft` are the rate counter and its TTL. An operation (`phase`, `prov`,
`tok`, `registered`, `renewing`) is one `executeProviderOperationWithTimeout`.
One token stands for its lease token and its waiter token, which are members of
different sets and never compared.

| Actions | Code |
| --- | --- |
| `Ask` (`Acquired`, `RateLimited`, `QueueIsFull`, `Waits`) | one turn of the polling loop: ACQUIRE and what the caller makes of its reply |
| `Abort`, `Leave` | the abort between two polls, and the catch that removes the waiter |
| `Done`, `ReleaseStep` | the end of the provider call (answer, timeout or lost lease) and the finally |
| `RenewSend`, `RenewStep` | the renewal timer, its command in flight and its reply, which may come after the release |
| `Snapshot` | SNAPSHOT, of the global sets alone or with those of one provider |
| `Crash`, `Tick` | a process that dies; time and the expiry of the rate counter |

`Semaphore` is the abstract specification of a lease set: owners leave at any
time, one enters at a time and only into free room. `EntersWithRoom` says that
the global set and the set of each provider implement it. A renewed lease is
the case worth checking: it must not bring back a token that a release or a
sweep has taken out. `LimitsHold` speaks of operations, not of members: it counts
those whose lease runs on every clock. When a clock that is ahead sweeps a
lease, its operation runs on until its next renewal, and the limit is exceeded
by it; the code's lease of the operation's timeout plus ten seconds makes that
a matter of clocks that are ten seconds apart. `LeakPerFault` counts members
that no running operation will take out.

### LocalCapacity

`line` is `providerOperationQueue`, `running` and `runningOf` are the two counters and
`place` says where each operation is. Nothing in the module awaits between reading
and writing, so a call is an action: `StartsAtOnce` and `Queues` are
`acquireProviderOperationCapacity`, `Aborts` the listener of a waiter's signal,
`Releases` the release with the drain that follows it. `drainProviderOperationQueue`
searches from the head again after each grant; since grants only raise the
counters, a waiter that was passed over stays so, and one pass (`Drained`)
grants the same ones. Its test for an aborted waiter never applies, because the
listener has taken the waiter out, and is left out.

### LocalIdempotency

`shelf` is the Map in its insertion order, `postBytes` the total, `post` where each
request is. A request runs without an await until it waits for a promise
(`Arrives`), and so does the code after the search it executes (`Ends`), which also
settles the promise that joined requests wait for. `Evicted` stands for both
eviction loops. `left` is history: how the record of a request has gone. A pending
record lapses like any other, so a key can be claimed anew while its first search
runs; the code compares records by identity before it stores the late result.
`RepliesAgree` includes what the Valkey store does not keep (`replay_crossed`): here a
request that waits holds the promise of the record whose payload was compared.

## Runs

| Run | Instance | Question |
| --- | --- | --- |
| `queue` | seven kinds of load, below; 2 workers, 2 attempts, cap 1, lease 1 | does everything but liveness survive lapsed leases, late writers, lost replies and the ceiling? |
| `queue_recovery` | 2 requests of one key, 2 workers, 2 attempts, 2 crashes, fairness | does every accepted search end, and is the slot free when the job is over? |
| `circuit` | 2 callers, 3 tokens, delays 0, 1 and 3, lease 3, TTL 5, skew 1, 1 fault, fairness | are probes apart and delays kept, whatever reports come late; does a healthy provider get its traffic back? |
| `capacity` | 3 operations, 3 providers, limits 2 and 1, queues of 1, lease 1, skew 1, 1 fault | do both limits hold, and does only a fault cost a place? |
| `capacity_flow` | 2 operations, 1 provider, lease 2, rate 1 per 2, 1 fault, fairness | do operations keep getting through? |
| `continuation` | 2 polls, 2 providers with 2 and 1 pages, 2 attempts, 1 fault, crash, lapse or stale copy, fairness | is a page ever lost or asked for too often; does polling end? |
| `shared_stores` | 3 sessions (cap 2, 3 bytes), 3 calls and 3 keys (cap 2, 2 bytes), 5 bookings (cap 1), 1 worker; 6 operations of 3 providers (limits 2 and 1, queues 2 and 1); 3 posts and 3 keys (cap 2, 2 bytes) | do the keys of each store agree, do caps hold, is a search run once per key, does draining last, is every waiter served, is a search shared within a process? |

A *load* of `SearchQueue` is a set of requests and how many lost replies, crashes,
stalls and clock ticks happen among them; a behaviour stays within one of its
loads. `queue` has these: two requests of one key (`r1`, `r4`) while a lease lapses and
a live worker stalls; the same two with a lost reply; one request with a lost
reply, a crash and a stall; one request with a lost reply, a stall and a lapse;
two requests of different keys, which meet at the ceiling, with a lost reply; two
requests that use a key for different payloads, with a lost reply; and three
requests, two keys, one of them reused with another payload, without trouble.
Nothing but its name tells `r1` from `r4`, so the run permutes them (each load with
one of them has its twin with the other), and the workers too.

The bounds are small because the races need few actors: a late writer and its
successor are two workers; a lost reply and the retry that trips over it are two
requests of a key; a lease that lapses needs two clock readings. Two attempts
tell the last attempt from the others; a cap of 1 with two keys makes the
ceiling bite. `MaxFence` is 6, more executions than a run can begin.
In `circuit` a delay can be shorter than a probe's lease (so that a second probe
could overlap the first) and longer; a probe and a late reporter are two callers,
and an outcome that is late twice is a caller that asks again. In `capacity` three
providers of limit 1 make both the global limit of 2 and a provider's bind; queues
of 1 make a third operation find its queue full, and a lease shorter than an
operation makes sweeps, renewals and releases cross. `capacity_flow` has the rate
limit. In `continuation` two polls are enough for one that holds the lease and one that
is behind it, two pages for a page that could be skipped, and `MaxTroubles` lets one
trouble happen at any place. In `shared_stores` three calls are an owner, one that
waits and one that claims the key between them; three keys with a cap of two make
eviction bite; the stores that read a clock have three readings of it and a TTL of
one; six operations fill both limits and both queues with some left to be refused. The parts of `MCSharedStores` move one at a time: they share no state, so
their interleavings add nothing. They share their model values for calls, keys and
payloads, so that one permutation renames them in every part; none of them
appears in the states of the worker's runtime or of the local capacity, the parts
that the liveness properties are about.

`CHECK_DEADLOCK` is off where the system stops when its requests have been dealt
with (queue, continuation, shared stores). `circuit`, `capacity` and `capacity_flow` check deadlock.

Five runs are expected to fail; each is a disagreement between the code and its
documents or tests, reported under `findings` in `PROJECT.json`.

- `lost_search` (`NoLostSearch`; the chaos contract allows no lost job). No
  fault, no crash, one worker that stalls between receiving a job and its BEGIN.
  Fencing numbers are given out in the order of BEGIN, so the old delivery can
  get the larger one; the redelivered attempt is then refused the session, and
  its error is unrecoverable, which ends the job for both.
- `foreign_release` (`ReleasesOwnAdmission`). No fault, no crash; a lease that
  lapses. Adoption puts the old token back with fence 0, so an execution that
  runs on from before the lapse and the next one hold the same
  (token, fence) pair, and the first to finish gives away the other's admission.
  It takes a live worker that lost its job lock: before that no step of the kind
  exists (theorem `OwnReleasesOnly`).
- `continuation_stuck` (`PollingEnds`; no endless loops). One failed command after
  the executions were stored as running. The catch releases the continuation
  without them, and running executions are recovered only while the session says
  that a continuation is under way: the client polls for ever.
- `continuation_race` (`CursorRetriedOnce`). No fault, one poll whose unlocked update
  comes after the whole continuation of another and stores the older executions
  over the newer ones: the page is asked for again.
- `replay_crossed` (`AnswersOwnPayload`). No fault. The search a call waits for fails
  and its key is claimed by a call with another payload, whose search the
  waiting call is then answered with.

The passing runs say where the same properties do hold. `AnswerKeptInOrder` needs
that no reply is lost: with the load of `{r1, r4}` and one lost reply of RESERVE, TLC
refutes `AnsweredSessionKept`, because the record names a session that the route
then clears and the client's retry is answered with. `NoLostSearch` and
`AcceptedSearchEnds` need that a stalled job's old worker is dead, that replies
arrive and that leases do not lapse; BEGIN runs outside the processor's `try`, so a
lost reply or a swept record on the last attempt fails the job without a word
to the session. `DistinctGrants` needs that no admission is adopted anew while
an execution of it runs. `FailedLeavesNothing` says itself that no reply was lost.
`NoLeakedSlot` has an exception that the code has: a request of the key that
arrives between the worker's release and BullMQ's move to completed adopts a job
that is over, and its slot stays taken until the lease lapses. `TerminalIsFinal` and `NoLateResult`, the promises of the fenced
session writes, hold with lapsed leases, stalls, lost replies and crashes.
`PollingEndsInOrder` needs that no command fails, no lease lapses early and no stale
copy is stored, but allows crashes; `AttemptsBounded` and `EndedStaysEnded` allow all
of them except a stale copy; `NoPageLost` allows even that. `AnswersAgree` is stated
for keys whose record stayed, `OneExecution` for records that did not come of age.

### Fairness

`FairQueueSpec` assumes weak fairness of each request's next step, of each worker
slot's next step (which includes taking a waiting job) and of the stalled check.
Node runs a continuation whose await has settled, BullMQ's workers block on the
queue, and its stalled check runs on a timer. Nothing is assumed of faults,
crashes, heartbeats, lapses, retention or the readiness probe.

`FairCircuitSpec` assumes that operations keep coming, that every call ends (its
timeout aborts it), that the orchestrator goes on to report, and that time
passes. `Recovers` assumes of the provider that it stays healthy and of the probes
that from some time on they are reported before their lease ends
(`ProbesInTime`). The default lease of 30 s is the longest default operation
timeout, so a healthy answer arrives within it. Without the assumption TLC
shows callers that take the probe over from each other for ever, each outcome
ignored because a newer token is in the hash: a configuration whose operation
timeout exceeds the lease can keep a healthy provider out.

`FairCapacitySpec` assumes that time passes, that operations keep coming and go on
after every await, and that a waiting operation is not aborted before every
single poll (strong fairness of `Ask`: it polls every 25 ms and is aborted by a
timeout of seconds). Nothing is assumed of snapshots or renewals being sent.

`FairContinuationSpec` assumes that a client which is not told that its search is
complete polls again (`LoadingScreen.tsx` does, on a timer), that a request that has
begun runs on, and that leases without a live owner, locks and retry delays run
out. It assumes nothing of failed commands, crashes and leases that end under a
live poll. The worker's runtime has weak fairness of each asynchronous function and
of the interval timer while it is set; nothing makes anyone stop the worker. In
`LocalCapacity` a provider call ends, by its timer if by nothing else; nothing makes
an operation begin or be aborted.

## Proofs

`AdmissionStore_proof` proves, for every set of jobs, tokens and clock readings, every cap
and every lease:

- `StoreTyped`: `StoreSpec => []StoreTypeOK`;
- `StoreKeysAgree`: `StoreSpec => []KeysAgree`;
- `AdmissionCapHolds`: `StoreSpec => []AdmissionCap`;
- `FencesGrow`: `StoreSpec => FenceGrowsWithToken`.

The inductive invariant is `IInv`: the types, `KeysAgree`, and that every token in
a record has been issued. The last part is what the fencing property needs: a
RESERVE that replaces a swept record draws a token outside `issued`, so it
differs from the one that was there. The cap is a second induction over
cardinalities: only RESERVE adds a member of the sorted set, and it does so
only where the swept set is below the cap; every other step leaves the set as
it is or shrinks it (Renew, Begin and Adopt re-add a member, and `KeysAgree`
says it was one). The assumptions are the named ASSUMEs of `AdmissionStore`: a
finite set of jobs, natural numbers, and that `None` is neither a number nor a
record.

`ProviderCircuit_proof` proves, for any callers, tokens, threshold, delays, lease,
TTL, skew and number of faults:

- `CircuitTyped`: `CircuitSpec => []CircuitTypeOK`;
- `ProbesStayApart`: `CircuitSpec => []ProbesApart`;
- `CooldownIsKept`: `CircuitSpec => CooldownHolds`.

The inductive invariant `Inv` adds three parts to the types. `OneHolder`: a probe
whose lease runs is the one the hash names, for at least as long, and no two
callers hold one token. `HalfOpenOnly`: no other state has a probe token, so a
late outcome always mismatches in an open circuit. `RecordOutlives`: the hash
lives longer than the lease and the delay in it, without which an expiry would
let a second probe through. The assumption that the TTL exceeds the lease and
every delay (`LifetimeAssumption`) is true of the defaults; the code does not
enforce it on configured values.

`SearchQueue_proof` proves, for any requests, keys, workers, attempts and loads, with
lost replies, crashes, stalls, lapses and redelivery:

- `QueueImplementsStore`: `QueueSpec => StoreSpec`. Every step of the queue is a step of the
  admission store or leaves it alone; the guards that `SearchQueue` repeats (that an
  adopted token was drawn, above all) follow from the invariant. `QueueCapHolds`,
  `QueueKeysAgree` and `QueueFencesGrow` are its consequences: `AdmissionCap`, `KeysAgree` and
  `FenceGrowsWithToken` of the whole queue;
- `TerminalsAreFinal`: `QueueSpec => TerminalIsFinal`;
- `LateResultsRefused`: `QueueSpec => []NoLateResult`;
- `GrantsDistinct`: `QueueSpec => []DistinctGrants`;
- `FailuresLeaveNothing`: `QueueSpec => []FailedLeavesNothing`;
- `AnswersKept`: `QueueSpec => []AnswerKeptInOrder`;
- `JobsRunOnce`: `QueueSpec => [](pauses = 0 => SlotsAlone)`;
- `OwnReleasesOnly`: before the first stall of a live worker no step is a `ForeignRelease`;
- `SearchesNotLost`: `QueueSpec /\ []NotGivenUp => [](InTime => NoLostSearch)`;
- `SlotsNotLeaked`: `QueueSpec /\ []NotGivenUp => [](InTime => NoLeakedSlot)`;
- `FewDeathsLoseNothing`: `QueueSpec => [](InTime /\ crashes <= MaxStalled => NoLostSearch /\ NoLeakedSlot)`.

`QueueInv` (`QueueAlways`) has the types and where tokens come from: every token in a
record, a job, a slot or a request's reads belongs to a request of that job.
`ClaimsOK` ties a session to the executions that hold its fencing number, which
is what a late writer trips over. `FencesHeld` and `FencesDiffer` say that a grant is at
most the fence of its token's record, and that two grants of a record that
was never adopted anew differ. `InOrder` (`InOrderAlways`) is a second invariant, for behaviours
without a lost reply: whoever keeps a token, the store, BullMQ, a slot or
another request, keeps that of a request that stands behind it: it is still
admitting with a reservation of its own, has answered with its own search, or has died, and
its session is there. `AnswerKeptInOrder` needs it because it speaks about two requests,
and the second learns the token of the first from the record or from the job.

`JobsRunOnce` is what BullMQ's locks are worth: until a live worker loses its job lock
(`pauses`), every execution has its job's lock and is alone with it
(`SlotsAlone`), whatever replies are lost, leases lapse and processes die.
`OwnReleasesOnly` follows, and delimits the finding `foreign_release`: `ReleasesOwnAdmission`
can fail only after such a stall.

The last three theorems are about behaviours in time. `InTime` says that so far no
reply was lost, no live worker lost its job lock, and less time has passed than an
admission's lease lasts; `NotGivenUp`, that no job has stalled more often than
`MaxStalled`. Each part is needed for a reason the code gives: BEGIN outside the
processor's `try` loses the search to a lost reply or a swept record, a
stalled worker that lives takes the fence from its successor (`lost_search`),
and the stalled check fails a job that stalled too often without a word to the
session. Requests and workers may still crash between any two of their
steps, any number of times, twins may race, and time may pass. A job
stalls only when its worker died, and once for each death (`StallsCounted`), so that
`NotGivenUp` holds by itself as long as no more processes died than `MaxStalled`: that is
`FewDeathsLoseNothing`, of which the run `queue_recovery` (two crashes, `MaxStalled` 2, no
ticks) is an instance. Outside these conditions nothing is claimed. `Served`
(`ServedAlways`) is a third inductive invariant on top of `QueueInv` and `InOrder`:

- `SlotsAlone`: an execution has its job's lock, and no other works on the job;
- `JobsServed`: the search of a pending job is over, or its admission is there and the
  session's fence is not ahead of it, so that the next BEGIN and claim succeed;
  the search of a job that is done is over;
- `SlotsServed`: at each place of the processor, what the execution knows of its session and
  admission; it ends without a retry only when the search is over and the
  admission given back;
- `RequestsServed`, `RecordsServed`, `LeasesRun`: what a request has reserved stays until
  its search is over, and no lease lapses in time;
- `BegunPending`, `ToldTokens`, `LeftToAdopters`: an admission that was begun is of a
  pending job, and one that outlives its job unbegun was left to a request that
  adopted it.

It is proved part by part, each against a summary of what a step in time does to the records,
the jobs and the sessions, so that the actions are expanded once.

`SharedStores_proof` proves of the session store, for any ids, sizes, limits and
readings of clocks, `SessionKeysAlwaysAgree`, `SessionsStayBounded` (`SessionsBounded`: the cap and
the byte budget) and `DriftIsRefusal` (`DriftOnlyByRefusal`); and of the idempotency store,
for any calls, keys, payloads, sizes and numbers of faults, `RecordsAlwaysAgree` (`RecordsAgree`),
`RecordsStayBounded` (`RecordsBounded`), `ExecutedByOne` (`OneExecution`), `RecordsNotAbandoned`
(`NoAbandonedRecord`) and `AnswersAlwaysAgree` (`AnswersAgree`). The invariant of the first is
`SessionInv`; its budget is an induction over sums of sizes: a sweep takes from the
local total what it takes from the set, and a write adds what it adds. The
lemmas on sums are those of `FiniteSums`: a sum over a finite set does not depend on the
order in which its elements are taken, grows by an added element and shrinks
by a removed one. They are proved by the smallest counterexample among the
subsets of a finite set, since the library's induction rules are out of the
prover's reach. The invariant of the second (`StoreOK`, `CallsOK`, `OwnersLinked` and one part per
place of a call) says what a call knows of the record of its key unless the
record has gone, and how it has gone: a call that executes owns its pending
record, and only age takes it away.

`Continuation_proof` proves, for any polls, providers, pages and numbers of troubles,
`ContinuationTypes` (`ContinuationTypeOK`), `PagesKept` (`NoPageLost`), `EndedForGood`
(`EndedStaysEnded`) and `CallsBounded` (`AttemptsBounded`). `ContinuationInv` says that the copy of every poll is of
some earlier state of the session and so fits its hotels (every page before an execution's was
found), however old it is, and that a poll that works under the lease has the session's executions, since nobody else
writes them meanwhile. The bound on calls is a counting argument: while no stale copy is
stored, the calls for a page that have been made or are about to be made are at most
the attempts recorded for it and the troubles so far, and one trouble lets one
more attempt through.

The same module proves `BookingCapHolds` (`BookingCap`), `HandoffsUsedOnce` (`HandoffUsedOnce`),
`ReadyWorkersTakeJobs` (`TakesJobsWhenReady`) and `DrainsForGood` (`DrainIsFinal`). `RuntimeInv` says what each
place of start, heartbeat and stop implies for the worker, the timer and the
record in the registry.

`ProviderCapacity_proof` proves, for any operations, providers, tokens, limits, queue
lengths, lease, rate limit, skew and number of faults:

- `EntersOnlyWithRoom`: `CapacitySpec => EntersWithRoom`, the refinement of `Semaphore` by the
  global set and by the set of every provider;
- `LimitsAlwaysHold`: `CapacitySpec => []LimitsHold`;
- `PlacesGivenBack`: `CapacitySpec => []LeakPerFault`;
- `CapacityTyped`: `CapacitySpec => []CapacityTypeOK`.

`CapacityInv` says that operations have different tokens and in which sets the token of an
operation is not, by the operation's place; and that a lease which runs on
every clock is in both its sets. A command is summed up once (`CommandFor`: it
puts no other token anywhere, and takes out none whose lease runs on every
clock), so that the operations that do not move are one lemma. `LimitsHold` follows from
the refinement: a semaphore has at most `Limit` owners, and operations map one
to one to members. `LeakPerFault` alone is not inductive: when the reply of a granted
ACQUIRE is lost, the operation leaves the queue with a lease it knows nothing of,
and the orphan appears one step later, at no further fault. `LostPerFault` counts such
leases from the fault on.

`InProcess_proof` proves of the two stores of a single process, for any operations,
providers, limits and queues, and for any posts, keys, payloads, sizes and
numbers of lapses:

- `CapacityKept`: `LocalSpec => []CapacityInUse`;
- `ServedInOrder`: `LocalSpec => [][WaitersInOrder]_localVars`;
- `LocalSearchesKept`: `PostSpec => []LocalSearchesShared`.

What these stores do in one call is a loop over a queue or a Map: `Drained` and `Keep` are
folds over a sequence. The proof needs what a fold leaves behind for every
length, which is an induction, and the induction rules of the library are out
of the prover's reach. So a fold is first shown to be a table over the sets of
positions of the sequence (`TableFolds`, `TableIs`), whose entry for the first positions is
what the loop has come to (`FoldRun`). A claim about a loop is then proved for the
least number of steps at which it would fail: the step before it is sound, and
one more step keeps it.

- `DrainServes` is the claim about the drain. After each step the counters are
  those of the operations that run and of those granted so far, both limits
  hold, what was waiting is split into granted and still waiting without a
  double, and whoever still waits cannot start: he could not when he was passed
  over, and the counters have only grown since. The last part is the one that a
  drain which stops at the first blocked waiter breaks. With it, `LocalInv` (the types and
  `CapacityInUse`) is inductive.
- `OrderSoFar` is the claim about its order: if a waiter was passed over and a later one
  granted, the two are of different providers and the first one's is at its
  limit, and those passed over keep their order. With it, nobody is overtaken
  but by an operation of another provider while his own is full
  (`WaitersInOrder`): the waiters of one provider start first come, first served, and a
  newcomer starts ahead of a waiter only when that one's own provider is full.
- `KeepHolds` says what a filter of the Map holds and that its order and
  distinctness stay; the lemmas on sums of `FiniteSums` then say that the total follows.
- `LocalSearchInv` is the invariant of the posts. `TableOK`: no two records have a key or an owner
  in common, the total is the size of what is stored, both caps hold. `Linked`: a record
  is of its owner's key and payload, and pending exactly while its owner
  executes; an executing post owns a record unless that has lapsed; a post that waits does so
  for one that executes and has its payload; an answer names a post that ended
  with a search of the same payload. `LocalSearchesShared` is no invariant by itself: who waits for whom, and
  how a record has gone, is what the next replies rest on.

The assumptions of all proofs are the named ASSUMEs of the modules: constants that
are numbers, finite sets of jobs, tokens, requests, workers, polls, calls, keys
and sessions, and null values that differ from the values. Except for `SearchQueue`,
with one `now` for all processes, the theorems hold for clocks that disagree.

Only model-checked is what rests on fairness, which is out of the prover's reach:
`AcceptedSearchEnds`, `Recovers`, `Throughput`, `PollingEndsInOrder`, `DegradedRecovers` and `WaitersServed`. Every safety
invariant and action property of a passing run is a theorem. The properties of the violation runs
are refuted, and have none.

## Plan

The modules were written in the order of the table above, the admission store and
the queue first. All of it is written, and every safety property of a passing
run is proved. What the proofs leave open is liveness, which stays with TLC.
`PROJECT.json` names two hazards that no property covers, each with its reason: an
adapter that goes on after its timeout, and a continue request before the
initial search has ended.

## Not modelled

- The frontend (a browser application) and the ranking, comfort and comparison
  engines: scoring over large numeric data without concurrency or state, whose
  results are a matter of weights and wording and not of protocol. They, and the
  validation and collection scripts, are most of the repository's lines.
- Provider adapters, merging, presenters, validation, authentication, logging and
  analytics: mapping of data around HTTP calls, a choice of outcomes in the
  models.
- The in-process stores of sessions and bookings: Maps whose operations run without an
  await, so that nothing comes between a read and its write.
- The rate limiter: one counter incremented by one atomic script with its window;
  nothing calls its decrement.
- The synchronous search of the route (queue disabled), which uses the same
  session store without an admission.
- The client pool of the Valkey executor; its contract, that a command which timed
  out may have run, is in every module.
- `resetProviderHealth`, `resetAllProviderHealth` and `clearSearchIdempotencyRecords`,
  which only tests call.
