----------------------------- MODULE SearchQueue -----------------------------
(***************************************************************************)
(* The durable initial search, end to end: the web process that admits a   *)
(* search (server/routes/search.js, searchQueueAdmission.js admitSearch),  *)
(* the admission store (AdmissionStore), BullMQ, the worker that executes  *)
(* a job (searchQueueWorker.js, stayService.js executeQueuedHotelSearch)   *)
(* and the fields of the shared session that the execution writes          *)
(* (valkeySearchSessionStore.js).                                          *)
(*                                                                         *)
(* Every await on Valkey is a step of its own, so web requests, executions *)
(* and heartbeats interleave at each of them.  A command can time out at   *)
(* the caller, before or after it took effect.  Loads bounds what happens. *)
(* A request stands for one run of the route's execute callback; it names  *)
(* the session it creates and the admission token it draws.                *)
(*                                                                         *)
(* AdmitErrorWithoutUndo, AnswerAlwaysDrops, EndsWithoutRelease,           *)
(* RetriesForever, AnyAttemptOwns, ClaimsTerminal and NeverRedelivers are  *)
(* faulty forms of the definition that follows each of them; no action     *)
(* uses them.  They show which mistakes the properties detect.             *)
(***************************************************************************)
EXTENDS AdmissionStore

CONSTANTS
    Requests,     \* runs of the route; SearchIds and Tokens are this set too
    Workers,      \* execution slots of the worker processes
    KeyOf,        \* request -> job id of its idempotency key
    FpOf,         \* request -> fingerprint of its payload
    MaxAttempts,  \* config.jobAttempts
    MaxStalled,   \* maxStalledCount of the BullMQ worker
    Loads         \* bound: what may happen together, a set of records with
                  \* requests, faults (lost replies), crashes, pauses (live
                  \* workers that fail to keep their job lock) and time

ASSUME RequestsAssumption ==
    /\ IsFiniteSet(Requests) /\ SearchIds = Requests /\ Tokens = Requests
    /\ KeyOf \in [Requests -> Jobs] /\ FpOf \in [Requests -> Fingerprints]
    /\ None \notin Requests
ASSUME QueueBoundsAssumption ==
    /\ IsFiniteSet(Workers)
    /\ MaxAttempts \in Nat \ {0} /\ MaxStalled \in Nat
    /\ 0 \in Clock
    /\ \A l \in Loads : /\ l.requests \subseteq Requests /\ l.time \in Nat
                       /\ {l.faults, l.crashes, l.pauses} \subseteq Nat

VARIABLES
    api,       \* per request: where admitSearch is and what it has read
    session,   \* per request: the initial-search fields of its session
    job,       \* BullMQ: per job id, the stored job
    worker,    \* per execution slot: the running processQueuedSearch
    now, faults, crashes, pauses

queueVars == <<storeVars, api, session, job, worker, now, faults, crashes, pauses>>

Terminal == {"complete", "failed"}
Stages   == {"none", "queued", "running", "retrying", "cleared"} \cup Terminal

NewRequest == [pc |-> "new", outcome |-> "none", reserved |-> None, stored |-> None, answer |-> None]
NoSession  == [stage |-> "none", fence |-> 0, exec |-> 0]
NoJob      == [state |-> "none", owner |-> None, attempts |-> 0, stalls |-> 0, lock |-> 0]
Idle       == [pc |-> "idle", job |-> None, owner |-> None, exec |-> 0, fence |-> 0,
               attempt |-> 0, lost |-> FALSE, outcome |-> "none"]

(* One more of something still fits one of the loads. *)
Fits(requests, fault, crash, pause, tick) ==
    LET begun == requests \cup {r \in Requests : api[r].pc # "new"} IN
    \E l \in Loads :
        /\ faults + fault <= l.faults /\ crashes + crash <= l.crashes
        /\ pauses + pause <= l.pauses /\ now + tick <= l.time
        /\ begun \subseteq l.requests

Fault   == Fits({}, 1, 0, 0, 0) /\ faults' = faults + 1
NoFault == UNCHANGED faults

(* A command whose reply is lost took effect or did not. *)
MayCommit(effect) == effect \/ UNCHANGED storeVars

-----------------------------------------------------------------------------
(* The web process: POST /search-hotels and admitSearch. *)

InProgress(r) == api[r].pc \notin {"new", "answered", "failed", "crashed"}

Goto(r, pc) == api' = [api EXCEPT ![r].pc = pc]

(* The request has ended; what admitSearch had read is forgotten. *)
End(r, pc, s) == api' = [api EXCEPT ![r] = [NewRequest EXCEPT !.pc = pc, !.answer = s]]

AdmitErrorWithoutUndo(r) == End(r, "clear", None)

(* catch of admitSearch: give back a reservation this call created, then    *)
(* the route's catch clears its session.                                    *)
AdmitError(r) == End(r, IF api[r].outcome = "created" THEN "undo" ELSE "clear", None)

AnswerAlwaysDrops(r, s) == End(r, "dropOwn", s)

Answer(r, s) == End(r, IF s = r THEN "answered" ELSE "dropOwn", s)

UnchangedByWeb == UNCHANGED <<worker, now, crashes, pauses>>

(* executeInitialSearchIdempotently runs execute for one request of a key   *)
(* at a time.                                                               *)
MayStart(r) == api[r].pc = "new" /\ \A q \in Requests : KeyOf[q] = KeyOf[r] => ~InProgress(q)

(* createQueuedHotelSearch saves the session that the request starts from. *)
CreateSession(r) ==
    /\ MayStart(r) /\ Fits({r}, 0, 0, 0, 0)
    /\ session' = [session EXCEPT ![r].stage = "queued"]
    /\ Goto(r, "reserve")
    /\ NoFault /\ UnchangedByWeb /\ UNCHANGED <<storeVars, job>>

(* The route saves the session outside the try whose catch clears it: one   *)
(* whose reply is lost is left to expire.                                   *)
CreateTimeout(r) ==
    /\ MayStart(r) /\ Fits({r}, 1, 0, 0, 0)
    /\ session' \in {session, [session EXCEPT ![r].stage = "queued"]}
    /\ End(r, "failed", None)
    /\ Fault /\ UnchangedByWeb /\ UNCHANGED <<storeVars, job>>

ReserveStep(r) ==
    LET j == KeyOf[r]
        reply == ReserveReply(j, FpOf[r], now) IN
    /\ api[r].pc = "reserve"
    /\ Reserve(j, r, r, FpOf[r], now)
    /\ \/ /\ reply \in {"created", "existing"}
          /\ api' = [api EXCEPT ![r].pc = "add", ![r].outcome = reply,
                                ![r].reserved = IF reply = "created" THEN r ELSE records[j].token]
       \/ reply \in {"full", "conflict"} /\ Goto(r, "clear")
    /\ NoFault /\ UnchangedByWeb /\ UNCHANGED <<session, job>>

ReserveTimeout(r) ==
    /\ api[r].pc = "reserve"
    /\ MayCommit(Reserve(KeyOf[r], r, r, FpOf[r], now))
    /\ Goto(r, "clear")
    /\ Fault /\ UnchangedByWeb /\ UNCHANGED <<session, job>>

(* queue.add with a deterministic jobId: a job that is still stored, in any *)
(* state, is left as it is.                                                 *)
JobAdded(r) ==
    IF job[KeyOf[r]].state # "none" THEN job
    ELSE [job EXCEPT ![KeyOf[r]] = [NoJob EXCEPT !.state = "waiting", !.owner = api[r].reserved]]

AddJob(r) ==
    /\ api[r].pc = "add"
    /\ job' = JobAdded(r)
    /\ Goto(r, "get")
    /\ NoFault /\ UnchangedByWeb /\ UNCHANGED <<storeVars, session>>

AddTimeout(r) ==
    /\ api[r].pc = "add"
    /\ job' \in {job, JobAdded(r)}
    /\ AdmitError(r)
    /\ Fault /\ UnchangedByWeb /\ UNCHANGED <<storeVars, session>>

SamePayload(r, stored) == stored # None /\ FpOf[stored] = FpOf[r]

(* queue.getJob and the comparison of what it carries with the reservation. *)
GetJob(r) ==
    LET stored == job[KeyOf[r]].owner IN
    /\ api[r].pc = "get"
    /\ \/ ~SamePayload(r, stored) /\ AdmitError(r)
       \/ /\ SamePayload(r, stored)
          /\ IF stored = api[r].reserved
             THEN Answer(r, stored)
             ELSE api' = [api EXCEPT ![r].pc = "state", ![r].stored = stored]
    /\ NoFault /\ UnchangedByWeb /\ UNCHANGED <<storeVars, session, job>>

(* storedJob.getState of a retained job. *)
GetState(r) ==
    LET state == job[KeyOf[r]].state IN
    /\ api[r].pc = "state"
    /\ \/ state \in {"completed", "failed"} /\ Goto(r, "releaseTerminal")
       \/ state \in {"waiting", "active"} /\ Goto(r, "adopt")
       \/ state = "none" /\ AdmitError(r)
    /\ NoFault /\ UnchangedByWeb /\ UNCHANGED <<storeVars, session, job>>

ReadTimeout(r) ==
    /\ api[r].pc \in {"get", "state"}
    /\ AdmitError(r)
    /\ Fault /\ UnchangedByWeb /\ UNCHANGED <<storeVars, session, job>>

(* The retained job has ended: its search is the answer, the reservation    *)
(* goes back (a record that is already gone counts as given back).          *)
ReleaseTerminalStep(r) ==
    LET j == KeyOf[r] token == api[r].reserved IN
    /\ api[r].pc = "releaseTerminal"
    /\ \/ /\ ReleaseTerminal(j, token) \/ (records[j] = None /\ UNCHANGED storeVars)
          /\ Answer(r, api[r].stored)
       \/ /\ records[j] # None /\ ~Holds(j, token) /\ UNCHANGED storeVars
          /\ AdmitError(r)
    /\ NoFault /\ UnchangedByWeb /\ UNCHANGED <<session, job>>

AdoptReservation(r, effect) ==
    LET j == KeyOf[r] s == api[r].stored IN
    IF effect THEN Adopt(j, api[r].reserved, s, s, FpOf[r], now) ELSE UNCHANGED storeVars

(* The retained job is live: the reservation takes over its search.         *)
AdoptStep(r) ==
    LET j == KeyOf[r]
        adopted == HoldsFenced(j, api[r].reserved, 0) IN
    /\ api[r].pc = "adopt"
    /\ AdoptReservation(r, adopted)
    /\ IF adopted THEN Answer(r, api[r].stored) ELSE AdmitError(r)
    /\ NoFault /\ UnchangedByWeb /\ UNCHANGED <<session, job>>

RetainedTimeout(r) ==
    /\ \/ /\ api[r].pc = "releaseTerminal"
          /\ MayCommit(ReleaseTerminal(KeyOf[r], api[r].reserved))
       \/ /\ api[r].pc = "adopt"
          /\ MayCommit(AdoptReservation(r, TRUE))
    /\ AdmitError(r)
    /\ Fault /\ UnchangedByWeb /\ UNCHANGED <<session, job>>

(* releaseReservation with fencing number 0, its own errors swallowed.      *)
UndoReservation(r) ==
    LET j == KeyOf[r] IN
    /\ api[r].pc = "undo"
    /\ \/ HoldsFenced(j, r, 0) /\ Release(j, r, 0) /\ NoFault
       \/ ~HoldsFenced(j, r, 0) /\ UNCHANGED storeVars /\ NoFault
       \/ MayCommit(Release(j, r, 0)) /\ Fault
    /\ Goto(r, "clear")
    /\ UnchangedByWeb /\ UNCHANGED <<session, job>>

(* clearSearchSession of the request's own session: in the route's catch    *)
(* before the error is answered, or because another search is the answer.   *)
ClearOwnSession(r) ==
    /\ api[r].pc \in {"clear", "dropOwn"}
    /\ session' = [session EXCEPT ![r] = [NoSession EXCEPT !.stage = "cleared"]]
    /\ IF api[r].pc = "clear" THEN End(r, "failed", None) ELSE Goto(r, "answered")
    /\ NoFault /\ UnchangedByWeb /\ UNCHANGED <<storeVars, job>>

ClearTimeout(r) ==
    /\ api[r].pc \in {"clear", "dropOwn"}
    /\ session' \in {session, [session EXCEPT ![r] = [NoSession EXCEPT !.stage = "cleared"]]}
    /\ End(r, IF api[r].pc = "clear" THEN "failed" ELSE "clear", None)
    /\ Fault /\ UnchangedByWeb /\ UNCHANGED <<storeVars, job>>

WebCrash(r) ==
    /\ InProgress(r) /\ Fits({}, 0, 1, 0, 0)
    /\ End(r, "crashed", None)
    /\ crashes' = crashes + 1
    /\ NoFault /\ UNCHANGED <<storeVars, session, job, worker, now, pauses>>

Web(r) ==
    \/ CreateSession(r) \/ ReserveStep(r) \/ AddJob(r) \/ GetJob(r) \/ GetState(r)
    \/ ReleaseTerminalStep(r) \/ AdoptStep(r) \/ UndoReservation(r) \/ ClearOwnSession(r)

WebFault(r) ==
    \/ CreateTimeout(r) \/ ReserveTimeout(r) \/ AddTimeout(r) \/ ReadTimeout(r)
    \/ RetainedTimeout(r) \/ ClearTimeout(r) \/ WebCrash(r)

-----------------------------------------------------------------------------
(* The worker: one processQueuedSearch per slot. *)

UnchangedByWorker == UNCHANGED <<api, now, crashes, pauses>>

At(w, pc) == worker[w].pc = pc

Become(w, pc) == worker' = [worker EXCEPT ![w].pc = pc]

(* The processor has thrown or returned; BullMQ records the outcome next.   *)
Settle(w, outcome) == worker' = [worker EXCEPT ![w].pc = "finish", ![w].outcome = outcome]

EndsWithoutRelease(w, outcome) == Settle(w, outcome)

(* finally: a processor that reached a terminal outcome first gives its     *)
(* admission back.                                                          *)
ReleaseThen(w, outcome) == worker' = [worker EXCEPT ![w].pc = "release", ![w].outcome = outcome]

RetriesForever(w) == Become(w, "retry")

(* catch of processQueuedSearch for a retryable error. *)
CatchRetryable(w) == Become(w, IF worker[w].attempt < MaxAttempts THEN "retry" ELSE "fail")

(* The heartbeat interval runs from the granted execution to the finally.   *)
Executing(w) == worker[w].pc \in {"claim", "search", "assert", "persist", "retry", "renew", "fail"}

Owned(w) == HoldsFenced(worker[w].job, worker[w].owner, worker[w].fence)

RenewOwned(w) == Renew(worker[w].job, worker[w].owner, worker[w].fence, now)

AnyAttemptOwns(w) == session[worker[w].owner].stage # "cleared"

(* updateInitialSearchExecution: refused unless the session still carries   *)
(* the token and the fence of this execution; a terminal stage clears the   *)
(* token.                                                                   *)
SessionOwned(w) ==
    LET s == session[worker[w].owner] IN s.exec = worker[w].exec /\ s.fence = worker[w].fence

SessionGone(w) == session[worker[w].owner].stage = "cleared"

Written(w, stage) ==
    [session EXCEPT ![worker[w].owner].stage = stage,
                    ![worker[w].owner].exec = IF stage \in Terminal THEN 0 ELSE @]

(* A new identity for an execution: its executionToken (randomUUID) and the *)
(* token of its job lock.  Any number no session, lock or execution refers  *)
(* to will do, and taking the least keeps the state space small.            *)
ExecsInUse ==
    {session[r].exec : r \in Requests} \cup {job[j].lock : j \in Jobs} \cup {worker[w].exec : w \in Workers}

FreshExec == CHOOSE n \in 1..(Cardinality(ExecsInUse) + 1) :
                /\ n \notin ExecsInUse
                /\ \A m \in 1..(n - 1) : m \in ExecsInUse

(* BullMQ hands a waiting job to a free slot under a lock of its own.       *)
Take(w, j) ==
    /\ At(w, "idle") /\ job[j].state = "waiting"
    /\ job' = [job EXCEPT ![j].state = "active", ![j].lock = FreshExec]
    /\ worker' = [worker EXCEPT ![w] = [Idle EXCEPT !.pc = "begin", !.job = j, !.owner = job[j].owner,
                                                    !.exec = FreshExec, !.attempt = job[j].attempts + 1]]
    /\ NoFault /\ UnchangedByWorker /\ UNCHANGED <<storeVars, session>>

(* beginSearchExecution runs before the try: a missing or foreign record    *)
(* leaves as a plain error, which BullMQ counts as a failed attempt.        *)
BeginStep(w) ==
    LET j == worker[w].job o == worker[w].owner IN
    /\ At(w, "begin")
    /\ \/ /\ Begin(j, o, now)
          /\ worker' = [worker EXCEPT ![w].pc = "claim", ![w].fence = fences[j] + 1]
       \/ ~Holds(j, o) /\ Settle(w, "error") /\ UNCHANGED storeVars
    /\ NoFault /\ UnchangedByWorker /\ UNCHANGED <<session, job>>

BeginTimeout(w) ==
    /\ At(w, "begin")
    /\ MayCommit(Begin(worker[w].job, worker[w].owner, now))
    /\ Settle(w, "error")
    /\ Fault /\ UnchangedByWorker /\ UNCHANGED <<session, job>>

ClaimsTerminal(w) ==
    LET s == session[worker[w].owner] IN s.stage # "cleared" /\ worker[w].fence > s.fence

(* claimInitialSearchExecution: the CAS refuses a terminal session and a    *)
(* fencing number that is not greater than the session's.                   *)
MayClaim(w) ==
    LET s == session[worker[w].owner] IN
    s.stage \notin Terminal \cup {"cleared"} /\ worker[w].fence > s.fence

Claimed(w) ==
    [session EXCEPT ![worker[w].owner] =
        [stage |-> "running", fence |-> worker[w].fence, exec |-> worker[w].exec]]

ClaimStep(w) ==
    LET s == session[worker[w].owner] IN
    /\ At(w, "claim")
    /\ \/ MayClaim(w) /\ session' = Claimed(w) /\ Become(w, "search")
       \/ ~MayClaim(w) /\ UNCHANGED session
          /\ \/ s.stage \in Terminal /\ ReleaseThen(w, "completed")
             \/ s.stage = "cleared" /\ Become(w, "fail")
             \/ s.stage \notin Terminal \cup {"cleared"} /\ Settle(w, "unrecoverable")
    /\ NoFault /\ UnchangedByWorker /\ UNCHANGED <<storeVars, job>>

ClaimTimeout(w) ==
    /\ At(w, "claim")
    /\ UNCHANGED session \/ (MayClaim(w) /\ session' = Claimed(w))
    /\ CatchRetryable(w)
    /\ Fault /\ UnchangedByWorker /\ UNCHANGED <<storeVars, job>>

(* searchHotels: the provider answers with hotels or none (both persist),   *)
(* with a retryable failure or with a final one.                            *)
SearchProviders(w) ==
    /\ At(w, "search")
    /\ Become(w, "assert") \/ CatchRetryable(w) \/ Become(w, "fail")
    /\ NoFault /\ UnchangedByWorker /\ UNCHANGED <<storeVars, session, job>>

(* assertInitialSearchOwnership before the result is written.               *)
AssertOwnership(w) ==
    /\ At(w, "assert")
    /\ \/ Owned(w) /\ ~worker[w].lost /\ RenewOwned(w) /\ Become(w, "persist")
       \/ /\ ~Owned(w) \/ worker[w].lost
          /\ Settle(w, "unrecoverable") /\ UNCHANGED storeVars
    /\ NoFault /\ UnchangedByWorker /\ UNCHANGED <<session, job>>

AssertTimeout(w) ==
    /\ At(w, "assert") /\ ~worker[w].lost
    /\ MayCommit(RenewOwned(w))
    /\ CatchRetryable(w)
    /\ Fault /\ UnchangedByWorker /\ UNCHANGED <<session, job>>

(* persistInitialSession.  The write on a session that is gone returns null *)
(* and reading its searchId throws, a final failure, as is a result too     *)
(* large for a session, which is found before anything is written.          *)
Persist(w) ==
    /\ At(w, "persist")
    /\ \/ SessionOwned(w) /\ session' = Written(w, "complete") /\ ReleaseThen(w, "completed")
       \/ Become(w, "fail") /\ UNCHANGED session
       \/ ~SessionOwned(w) /\ ~SessionGone(w) /\ Settle(w, "unrecoverable") /\ UNCHANGED session
    /\ NoFault /\ UnchangedByWorker /\ UNCHANGED <<storeVars, job>>

PersistTimeout(w) ==
    /\ At(w, "persist")
    /\ UNCHANGED session \/ (SessionOwned(w) /\ session' = Written(w, "complete"))
    /\ CatchRetryable(w)
    /\ Fault /\ UnchangedByWorker /\ UNCHANGED <<storeVars, job>>

(* markQueuedHotelSearchRetry, in the catch: a refused write is thrown from *)
(* there and ends the attempt.                                              *)
MarkRetry(w) ==
    /\ At(w, "retry")
    /\ \/ SessionOwned(w) /\ session' = Written(w, "retrying") /\ Become(w, "renew")
       \/ SessionGone(w) /\ UNCHANGED session /\ Become(w, "renew")
       \/ ~SessionOwned(w) /\ ~SessionGone(w) /\ UNCHANGED session /\ Settle(w, "error")
    /\ NoFault /\ UnchangedByWorker /\ UNCHANGED <<storeVars, job>>

(* The renewal after it; the attempt ends with an error either way.         *)
RenewForRetry(w) ==
    /\ At(w, "renew")
    /\ IF Owned(w) /\ ~worker[w].lost THEN RenewOwned(w) ELSE UNCHANGED storeVars
    /\ Settle(w, "error")
    /\ NoFault /\ UnchangedByWorker /\ UNCHANGED <<session, job>>

RenewTimeout(w) ==
    /\ At(w, "renew") /\ ~worker[w].lost
    /\ MayCommit(RenewOwned(w))
    /\ Settle(w, "error")
    /\ Fault /\ UnchangedByWorker /\ UNCHANGED <<session, job>>

(* markQueuedHotelSearchFailed *)
MarkFailed(w) ==
    /\ At(w, "fail")
    /\ \/ SessionOwned(w) /\ session' = Written(w, "failed") /\ ReleaseThen(w, "unrecoverable")
       \/ SessionGone(w) /\ UNCHANGED session /\ ReleaseThen(w, "unrecoverable")
       \/ ~SessionOwned(w) /\ ~SessionGone(w) /\ UNCHANGED session /\ Settle(w, "error")
    /\ NoFault /\ UnchangedByWorker /\ UNCHANGED <<storeVars, job>>

MarkTimeout(w) ==
    /\ At(w, "retry") \/ At(w, "fail")
    /\ \/ UNCHANGED session
       \/ SessionOwned(w) /\ session' = Written(w, IF At(w, "retry") THEN "retrying" ELSE "failed")
    /\ Settle(w, "error")
    /\ Fault /\ UnchangedByWorker /\ UNCHANGED <<storeVars, job>>

(* releaseSearchAdmission in the finally; its result is not looked at.      *)
ReleaseStep(w) ==
    /\ At(w, "release")
    /\ IF Owned(w) THEN Release(worker[w].job, worker[w].owner, worker[w].fence) ELSE UNCHANGED storeVars
    /\ Become(w, "finish")
    /\ NoFault /\ UnchangedByWorker /\ UNCHANGED <<session, job>>

(* An error of that command replaces the processor's result.                *)
ReleaseTimeout(w) ==
    /\ At(w, "release")
    /\ MayCommit(Release(worker[w].job, worker[w].owner, worker[w].fence))
    /\ Settle(w, "error")
    /\ Fault /\ UnchangedByWorker /\ UNCHANGED <<session, job>>

(* The interval's renewal: ownership is lost for good once one is refused.  *)
Heartbeat(w) ==
    /\ Executing(w) /\ ~worker[w].lost
    /\ \/ Owned(w) /\ RenewOwned(w) /\ UNCHANGED worker
       \/ ~Owned(w) /\ worker' = [worker EXCEPT ![w].lost = TRUE] /\ UNCHANGED storeVars
    /\ NoFault /\ UnchangedByWorker /\ UNCHANGED <<session, job>>

(* BullMQ moves the job on, if the attempt still has the job's lock.        *)
Finish(w) ==
    LET j == worker[w].job
        retry == worker[w].outcome = "error" /\ worker[w].attempt < MaxAttempts
        next == IF worker[w].outcome = "completed" THEN "completed"
                ELSE IF retry THEN "waiting" ELSE "failed" IN
    /\ At(w, "finish")
    /\ IF job[j].state = "active" /\ job[j].lock = worker[w].exec
       THEN job' = [job EXCEPT ![j].state = next, ![j].lock = 0, ![j].attempts = worker[w].attempt]
       ELSE UNCHANGED job
    /\ worker' = [worker EXCEPT ![w] = Idle]
    /\ NoFault /\ UnchangedByWorker /\ UNCHANGED <<storeVars, session>>

Work(w) ==
    \/ \E j \in Jobs : Take(w, j)
    \/ BeginStep(w) \/ ClaimStep(w) \/ SearchProviders(w) \/ AssertOwnership(w) \/ Persist(w)
    \/ MarkRetry(w) \/ RenewForRetry(w) \/ MarkFailed(w) \/ ReleaseStep(w) \/ Finish(w)

WorkerCrash(w) ==
    /\ ~At(w, "idle") /\ Fits({}, 0, 1, 0, 0)
    /\ worker' = [worker EXCEPT ![w] = Idle]
    /\ crashes' = crashes + 1
    /\ NoFault /\ UNCHANGED <<storeVars, api, session, job, now, pauses>>

WorkFault(w) ==
    \/ BeginTimeout(w) \/ ClaimTimeout(w) \/ AssertTimeout(w) \/ PersistTimeout(w)
    \/ MarkTimeout(w) \/ RenewTimeout(w) \/ ReleaseTimeout(w) \/ WorkerCrash(w)

-----------------------------------------------------------------------------
(* BullMQ, the readiness polls and time. *)

UnchangedByEnvironment == UNCHANGED <<api, session, faults, crashes>>

LockHeld(j) == \E w \in Workers : worker[w].job = j /\ worker[w].exec = job[j].lock

NeverRedelivers(j) == FALSE /\ UNCHANGED queueVars

(* The lock of an active job has run out: its worker died, or is alive but  *)
(* could not renew it.  The stalled check redelivers the job until it has   *)
(* stalled too often.                                                       *)
Stall(j) ==
    /\ job[j].state = "active"
    /\ IF LockHeld(j) THEN Fits({}, 0, 0, 1, 0) /\ pauses' = pauses + 1 ELSE UNCHANGED pauses
    /\ job' = [job EXCEPT ![j].state = IF job[j].stalls < MaxStalled THEN "waiting" ELSE "failed",
                          ![j].stalls = @ + 1, ![j].lock = 0]
    /\ UnchangedByEnvironment /\ UNCHANGED <<storeVars, worker, now>>

(* removeOnComplete / removeOnFail: a finished job is kept for a while,     *)
(* longer than the request that added it lasts.                             *)
Retire(j) ==
    /\ job[j].state \in {"completed", "failed"} /\ ~InProgress(job[j].owner)
    /\ job' = [job EXCEPT ![j] = NoJob]
    /\ UnchangedByEnvironment /\ UNCHANGED <<storeVars, worker, now, pauses>>

(* getSearchQueueAdmissionSnapshot of a readiness probe or worker metric.   *)
Poll ==
    /\ Lapsed(now) # {} /\ Snapshot(now)
    /\ UnchangedByEnvironment /\ UNCHANGED <<job, worker, now, pauses>>

Tick ==
    /\ now + 1 \in Clock /\ Fits({}, 0, 0, 0, 1) /\ now' = now + 1
    /\ UnchangedByEnvironment /\ UNCHANGED <<storeVars, job, worker, pauses>>

QueueInit ==
    /\ StoreInit
    /\ api = [r \in Requests |-> NewRequest]
    /\ session = [r \in Requests |-> NoSession]
    /\ job = [j \in Jobs |-> NoJob]
    /\ worker = [w \in Workers |-> Idle]
    /\ now = 0 /\ faults = 0 /\ crashes = 0 /\ pauses = 0

QueueNext ==
    \/ \E r \in Requests : Web(r) \/ WebFault(r)
    \/ \E w \in Workers : Work(w) \/ Heartbeat(w) \/ WorkFault(w)
    \/ \E j \in Jobs : Stall(j) \/ Retire(j)
    \/ Poll \/ Tick

QueueSpec == QueueInit /\ [][QueueNext]_queueVars

-----------------------------------------------------------------------------
(* A search that has completed, failed or been cleared is never written     *)
(* again by an execution, whatever attempts are still running or            *)
(* redelivered (the SESSION_WRITE checks and the tombstone): only the route *)
(* that created the session may still clear it.                             *)
TerminalIsFinal ==
    [][\A r \in Requests :
          session[r].stage \in Terminal \cup {"cleared"}
             => session'[r].stage \in {session[r].stage, "cleared"}]_queueVars

(* No late result: the execution that writes a session is the newest one    *)
(* that has claimed it; the write of an attempt that stalled, crashed its   *)
(* lease or was redelivered is refused once a successor has claimed.        *)
Claimant(v, r) == worker[v].owner = r /\ worker[v].pc \in {"search", "assert", "persist"}

NoLateResult ==
    [][\A w, v \in Workers : \A r \in Requests :
          (/\ At(w, "persist") \/ At(w, "retry") \/ At(w, "fail")
           /\ worker'[w].pc # worker[w].pc /\ worker[w].owner = r
           /\ session'[r] # session[r] /\ session'[r].stage # "cleared"
           /\ v # w /\ Claimant(v, r))
          => worker[w].exec = session[r].exec /\ session[r].fence >= worker[v].fence]_queueVars

(* Two executions that run at the same time never hold the same admission   *)
(* grant, so that neither can renew or release the other's, as long as no   *)
(* second request under the key can have adopted the admission.             *)
OnlyRequest(r) == \A q \in Requests \ {r} : KeyOf[q] = KeyOf[r] => api[q].pc = "new"

DistinctGrants ==
    \A v, w \in Workers :
        v # w /\ Executing(v) /\ Executing(w) /\ worker[v].job = worker[w].job
              /\ worker[v].owner = worker[w].owner /\ OnlyRequest(worker[v].owner)
           => worker[v].fence # worker[w].fence

(* The search a client is told to poll is there: answering a request and    *)
(* clearing the sessions that lost the race never removes the answered one. *)
AnsweredSessionKept ==
    \A r \in Requests : api[r].pc = "answered" => session[api[r].answer].stage \notin {"none", "cleared"}

(* The same, as long as no reply is lost: a request that is answered with   *)
(* another's search, adopted or retained, is answered with one that stays.  *)
AnswerKeptInOrder == faults = 0 => AnsweredSessionKept

(* No accepted search is lost: when BullMQ is done with a job and no        *)
(* execution of it is left, the search it was for has a terminal stage.     *)
Settled(j) == job[j].state \in {"completed", "failed"} /\ \A w \in Workers : worker[w].job # j

NoLostSearch ==
    \A j \in Jobs : Settled(j) => session[job[j].owner].stage \in Terminal \cup {"cleared"}

(* Request r is answered with the search s. *)
Told(r, s) == api[r].pc = "answered" /\ api[r].answer = s

(* No leaked slot: when BullMQ is done with a job and nobody is working on  *)
(* it or admitting under its key, the admission of its executions has been  *)
(* given back and no lease has to run out for it, unless a web process died *)
(* on the way.  What can be left is one that nobody has begun: a second     *)
(* request adopted it while the worker was finishing.                       *)
NoLeakedSlot ==
    \A j \in Jobs :
        /\ Settled(j)
        /\ \A r \in Requests : KeyOf[r] = j => ~InProgress(r) /\ api[r].pc # "crashed"
        => \/ records[j] = None
           \/ /\ fences[j] = 0
              /\ \E q, r \in Requests : q # r /\ Told(q, job[j].owner) /\ Told(r, job[j].owner)

(* The admission a finishing execution removes is its own: nobody else that *)
(* is executing the job holds it.                                           *)
ForeignRelease(w, v) ==
    /\ At(w, "release") /\ worker'[w].pc = "finish" /\ records' # records
    /\ v # w /\ Executing(v) /\ worker[v].job = worker[w].job /\ Owned(v)

ReleasesOwnAdmission == [][\A w, v \in Workers : ~ForeignRelease(w, v)]_queueVars

(* Unless a reply was lost, a request that is answered with an error leaves *)
(* nothing behind: its session is cleared and no admission is held under    *)
(* its token.                                                               *)
FailedLeavesNothing ==
    faults = 0 => \A r \in Requests : api[r].pc = "failed" =>
        /\ session[r].stage = "cleared"
        /\ \A j \in Jobs : ~Holds(j, r)

(* Every search a client was told to poll ends. *)
AcceptedSearchEnds ==
    \A r, s \in Requests :
        Told(r, s) ~> session[s].stage \in Terminal

(* Fairness: the web process and the workers keep running the steps they    *)
(* are at, BullMQ hands out waiting jobs and its stalled check keeps        *)
(* looking.  Nothing is assumed of faults, crashes, lapses or retention.    *)
FairQueueSpec ==
    /\ QueueSpec
    /\ \A r \in Requests : WF_queueVars(Web(r))
    /\ \A w \in Workers : WF_queueVars(Work(w))
    /\ \A j \in Jobs : WF_queueVars(Stall(j))
=============================================================================
