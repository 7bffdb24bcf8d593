---------------------------- MODULE Continuation ----------------------------
(***************************************************************************)
(* The continuation of one search: POST /search-hotels/continue            *)
(* (stayService.js continueHotelSearch), the state of each provider's      *)
(* execution (providerContinuationState.js), and the session record with   *)
(* its continuation lease (valkeySearchSessionStore.js).                   *)
(*                                                                         *)
(* A poll is one run of continueHotelSearch; every await on Valkey or on   *)
(* the providers is a step.  mutateSession re-reads the session and        *)
(* applies its updates to what it reads until the revision matches, so an  *)
(* update is one atomic step on the fields it names.  A lease is known by  *)
(* its random token, that is, by its poll.                                 *)
(*                                                                         *)
(* RecoversNothing, AppendReplaces, AttemptsForgotten, OwnedByAnyone and   *)
(* KeepsLease are faulty forms of the definition that follows each of      *)
(* them; no action uses them.  They show which mistakes the properties     *)
(* detect.                                                                 *)
(***************************************************************************)
EXTENDS Naturals, FiniteSets

CONSTANTS
    Polls,        \* continuation requests in flight; each may be sent again
    Providers,
    LastPage,     \* provider -> number of pages it has
    MaxAttempts,  \* maxAttemptsPerCursor
    MaxFaults,    \* bound: commands that fail or whose reply is lost
    MaxCrashes,   \* bound: web processes that die
    MaxLapses,    \* bound: leases that run out under a live poll
    MaxTroubles,  \* bound: all of these together, and stale copies stored
    None,         \* no lease
    Orphan        \* the lease of a poll that has ended without giving it back

ASSUME PollsAssumption == IsFiniteSet(Polls) /\ {None, Orphan} \cap Polls = {} /\ None # Orphan
ASSUME ContinuationBounds ==
    /\ LastPage \in [Providers -> Nat \ {0}] /\ MaxAttempts \in Nat \ {0}
    /\ {MaxFaults, MaxCrashes, MaxLapses, MaxTroubles} \subseteq Nat

VARIABLES
    session,     \* the fields of the session that a continuation reads or writes
    lease,       \* the Valkey lease key: the poll that holds it
    poll,        \* per poll: where continueHotelSearch is, what it has in memory
    asked,       \* history: calls made per provider and page
    stale,       \* history: unlocked updates that stored executions older than the session's
    faults, crashes, lapses

continuationVars == <<session, lease, poll, asked, stale, faults, crashes, lapses>>

-----------------------------------------------------------------------------
(* A provider's execution.  page is the one its continuation asks for; a    *)
(* retryable failure is "waiting" until its nextAttemptAt and "due" after.  *)

States == {"pending", "running", "waiting", "due", "completed", "failed"}
Ended  == {"completed", "failed"}
Execution == [state : States, page : Nat \ {0}, attempts : Nat]

FirstPage == [state |-> "pending", page |-> 1, attempts |-> 0]

In(execs, states) == {q \in DOMAIN execs : execs[q].state \in states}

Runnable(execs) == In(execs, {"pending", "due"})

(* searchIncomplete of getContinuationSessionOutcome *)
Incomplete(execs) == Runnable(execs) \cup In(execs, {"running", "waiting"}) # {}

MustWait(execs) == Runnable(execs) = {} /\ In(execs, {"waiting"}) # {}

RecoversNothing(execs) == execs

(* recoverStaleProviderExecutions *)
Recovered(execs) ==
    [q \in DOMAIN execs |->
        IF execs[q].state = "running" THEN [execs[q] EXCEPT !.state = "pending"] ELSE execs[q]]

AttemptsForgotten(e) == [e EXCEPT !.state = "running", !.attempts = 1]

(* beginProviderExecutionAttempt *)
Begun(e) == [e EXCEPT !.state = "running", !.attempts = @ + 1]

(* What a provider can answer: the page (the last one without a             *)
(* continuation, or with the one it was asked for), no results, or an error.*)
Answers == {"page", "stalled", "empty", "retryable", "fatal"}
HasHotels(answer) == answer \in {"page", "stalled"}

(* applyProviderExecutionSuccess and applyProviderExecutionFailure *)
Applied(e, answer, last) ==
    CASE answer = "page" /\ e.page < last -> [state |-> "pending", page |-> e.page + 1, attempts |-> 0]
      [] answer = "page" /\ e.page >= last -> [e EXCEPT !.state = "completed", !.page = last + 1]
      [] answer = "empty" -> [e EXCEPT !.state = "completed"]
      [] answer = "retryable" /\ e.attempts < MaxAttempts -> [e EXCEPT !.state = "waiting"]
      [] OTHER -> [e EXCEPT !.state = "failed"]

-----------------------------------------------------------------------------
(* The session store. *)

Nobody == [pc |-> "idle", execs |-> <<>>, answers |-> <<>>, behind |-> FALSE]

(* The steps of a poll that has a copy of the session and no lease. *)
BeforeLock == {"recover", "finish", "wait", "acquire"}

At(p, pc) == poll[p].pc = pc

Goto(p, pc) == [poll[p] EXCEPT !.pc = pc]

(* Where an error leaves the poll: the catch of tryAcquire gives the lease  *)
(* back, that of continueHotelSearch releases the continuation.             *)
OnError(p) ==
    IF At(p, "lock") THEN Goto(p, "unlock")
    ELSE IF poll[p].pc \in {"begin", "renew", "assert", "apply", "save"}
         THEN [Nobody EXCEPT !.pc = "abandon"]
    ELSE Nobody

Become(p, next) == poll' = [poll EXCEPT ![p] = next]

NoMore == faults + crashes + lapses + stale >= MaxTroubles

Fault   == faults < MaxFaults /\ ~NoMore /\ faults' = faults + 1
NoFault == UNCHANGED faults

UnchangedByPoll == UNCHANGED <<crashes, lapses>>

(* An update of the session in lock mode 'unlocked': refused while there is *)
(* a lease.  The command may fail, before or after it took effect.          *)
UnlockedWrite(p, s, next) ==
    /\ \/ lease = None /\ session' = s /\ Become(p, next) /\ NoFault
       \/ lease # None /\ UNCHANGED session /\ Become(p, OnError(p)) /\ NoFault
       \/ session' \in {session, IF lease = None THEN s ELSE session} /\ Become(p, OnError(p)) /\ Fault
    /\ IF session'.execs \in {session.execs, Recovered(session.execs)} THEN UNCHANGED stale
       ELSE ~NoMore /\ stale' = stale + 1
    /\ UNCHANGED <<lease, asked>> /\ UnchangedByPoll

OwnedByAnyone(p) == lease # None

Owned(p) == lease = p

(* An update in lock mode 'owned': refused when the lease is not the poll's. *)
OwnedWrite(p, s, l, next) ==
    /\ \/ Owned(p) /\ session' = s /\ lease' = l /\ Become(p, next) /\ NoFault
       \/ ~Owned(p) /\ UNCHANGED <<session, lease>> /\ Become(p, OnError(p)) /\ NoFault
       \/ /\ \/ Owned(p) /\ session' = s /\ lease' = l
             \/ UNCHANGED <<session, lease>>
          /\ Become(p, OnError(p)) /\ Fault
    /\ UNCHANGED <<asked, stale>> /\ UnchangedByPoll

-----------------------------------------------------------------------------
(* continueHotelSearch *)

Branch(execs) ==
    [Nobody EXCEPT !.execs = execs,
                   !.pc = IF ~Incomplete(execs) THEN "finish"
                          ELSE IF MustWait(execs) THEN "wait" ELSE "acquire"]

(* While the session says that a continuation holds it, and its lock has    *)
(* not run out, a poll is answered at once; otherwise it takes a copy.      *)
Read(p) ==
    /\ At(p, "idle") /\ ~(session.continuing /\ session.fresh)
    /\ Become(p, IF session.continuing
                 THEN [Nobody EXCEPT !.execs = Recovered(session.execs), !.pc = "recover"]
                 ELSE [Branch(session.execs) EXCEPT !.behind = lease \in Polls])
    /\ NoFault /\ UnchangedByPoll /\ UNCHANGED <<session, lease, asked, stale>>

(* A continuation that stopped: its running executions are tried again. *)
Recover(p) ==
    /\ At(p, "recover")
    /\ UnlockedWrite(p, [session EXCEPT !.execs = poll[p].execs, !.continuing = FALSE],
                     [Branch(poll[p].execs) EXCEPT !.behind = poll[p].behind])

Finish(p) ==
    /\ At(p, "finish")
    /\ UnlockedWrite(p, [session EXCEPT !.execs = poll[p].execs, !.continuing = FALSE,
                                        !.incomplete = FALSE], Nobody)

Wait(p) ==
    /\ At(p, "wait")
    /\ UnlockedWrite(p, [session EXCEPT !.execs = poll[p].execs, !.continuing = FALSE,
                                        !.incomplete = TRUE], Nobody)

(* A new lease: the polls that copied the session before are behind it. *)
Granted(p, l, next) ==
    /\ lease = None /\ lease' = l
    /\ poll' = [q \in Polls |->
                  IF q = p THEN next
                  ELSE [poll[q] EXCEPT !.behind = @ \/ poll[q].pc \in BeforeLock]]

(* ACQUIRE_LEASE_SCRIPT: a lease whose reply is lost has no owner. *)
Acquire(p) ==
    /\ At(p, "acquire")
    /\ \/ Granted(p, p, Goto(p, "lock")) /\ NoFault
       \/ lease # None /\ UNCHANGED lease /\ Become(p, Nobody) /\ NoFault
       \/ Granted(p, Orphan, Nobody) /\ Fault
       \/ UNCHANGED lease /\ Become(p, Nobody) /\ Fault
    /\ UnchangedByPoll /\ UNCHANGED <<session, asked, stale>>

(* The rest of tryAcquireSearchContinuation: the executions are those of    *)
(* the session that was locked.                                             *)
Lock(p) ==
    /\ At(p, "lock")
    /\ OwnedWrite(p, [session EXCEPT !.continuing = TRUE, !.fresh = TRUE], lease,
                  [Goto(p, "begin") EXCEPT !.execs = session.execs])

GivenBack(p) == IF Owned(p) THEN None ELSE lease

(* RELEASE_LEASE_ONLY_SCRIPT *)
Unlock(p) ==
    /\ At(p, "unlock")
    /\ \/ lease' = GivenBack(p) /\ NoFault
       \/ lease' \in {GivenBack(p), IF Owned(p) THEN Orphan ELSE lease} /\ Fault
    /\ Become(p, Nobody)
    /\ UnchangedByPoll /\ UNCHANGED <<session, asked, stale>>

Begin(p) ==
    LET calls == Runnable(poll[p].execs)
        execs == [q \in Providers |-> IF q \in calls THEN Begun(poll[p].execs[q]) ELSE poll[p].execs[q]] IN
    /\ At(p, "begin")
    /\ OwnedWrite(p, [session EXCEPT !.execs = execs, !.incomplete = TRUE, !.continuing = TRUE], lease,
                  [pc |-> "renew", execs |-> execs, answers |-> [q \in calls |-> "none"], behind |-> FALSE])

(* assertContinuationLease, before and after the provider calls *)
Renew(p) ==
    /\ poll[p].pc \in {"renew", "assert"}
    /\ OwnedWrite(p, [session EXCEPT !.continuing = TRUE, !.fresh = TRUE], lease,
                  Goto(p, IF At(p, "renew") THEN "call" ELSE "apply"))

(* Calls that MaxAttempts and the troubles explain; asked stops one above. *)
MaxAsked == MaxAttempts + MaxFaults + MaxCrashes + MaxLapses

(* Promise.all over the runnable executions: every call settles. *)
Call(p) ==
    LET calls == DOMAIN poll[p].answers IN
    /\ At(p, "call")
    /\ \E answers \in [calls -> Answers] :
          Become(p, [Goto(p, "assert") EXCEPT !.answers = answers])
    /\ asked' = [q \in Providers |-> [c \in 1..LastPage[q] |->
                    IF q \in calls /\ poll[p].execs[q].page = c /\ asked[q][c] <= MaxAsked
                    THEN asked[q][c] + 1 ELSE asked[q][c]]]
    /\ NoFault /\ UnchangedByPoll /\ UNCHANGED <<session, lease, stale>>

(* The answers that have not been applied are those in the domain. *)
Without(f, q) == [x \in DOMAIN f \ {q} |-> f[x]]

AppendReplaces(hotels, q, e) == {<<q, e.page>>} \cup {h \in hotels : h[1] # q}

(* appendHotelsToSearchSession merges by hotel id. *)
WithHotels(hotels, q, e) == hotels \cup {<<q, e.page>>}

NextAnswer(p) == CHOOSE q \in DOMAIN poll[p].answers : TRUE

Append(p) ==
    LET q == NextAnswer(p) IN
    /\ At(p, "apply") /\ DOMAIN poll[p].answers # {} /\ HasHotels(poll[p].answers[q])
    /\ OwnedWrite(p, [session EXCEPT !.hotels = WithHotels(@, q, poll[p].execs[q])], lease, Goto(p, "save"))

Save(p) ==
    LET q == NextAnswer(p)
        execs == [poll[p].execs EXCEPT ![q] = Applied(@, poll[p].answers[q], LastPage[q])] IN
    /\ \/ At(p, "save")
       \/ At(p, "apply") /\ DOMAIN poll[p].answers # {} /\ ~HasHotels(poll[p].answers[q])
    /\ OwnedWrite(p, [session EXCEPT !.execs = execs, !.continuing = TRUE], lease,
                  [Goto(p, "apply") EXCEPT !.execs = execs, !.answers = Without(@, q)])

(* releaseSearchContinuation with the executions and the outcome *)
Release(p) ==
    /\ At(p, "apply") /\ DOMAIN poll[p].answers = {}
    /\ OwnedWrite(p, [session EXCEPT !.execs = poll[p].execs, !.continuing = FALSE,
                                     !.incomplete = Incomplete(poll[p].execs)], None, Nobody)

KeepsLease(p) ==
    /\ At(p, "abandon")
    /\ UNCHANGED <<session, lease>> /\ Become(p, Nobody)
    /\ NoFault /\ UnchangedByPoll /\ UNCHANGED <<asked, stale>>

(* The catch: the continuation is released with the error and nothing else, *)
(* so the executions stay as they were last written.                        *)
Abandon(p) ==
    /\ At(p, "abandon")
    /\ \/ session' = (IF Owned(p) THEN [session EXCEPT !.continuing = FALSE] ELSE session)
          /\ lease' = GivenBack(p) /\ NoFault
       \/ UNCHANGED session /\ lease' = (IF Owned(p) THEN Orphan ELSE lease) /\ Fault
    /\ Become(p, Nobody)
    /\ UnchangedByPoll /\ UNCHANGED <<asked, stale>>

Poll(p) ==
    \/ Read(p) \/ Recover(p) \/ Finish(p) \/ Wait(p) \/ Acquire(p) \/ Lock(p) \/ Unlock(p)
    \/ Begin(p) \/ Renew(p) \/ Call(p) \/ Append(p) \/ Save(p) \/ Release(p) \/ Abandon(p)

-----------------------------------------------------------------------------
(* Processes, time. *)

Crash(p) ==
    /\ ~At(p, "idle") /\ crashes < MaxCrashes /\ ~NoMore
    /\ crashes' = crashes + 1
    /\ Become(p, Nobody)
    /\ lease' = IF lease = p THEN Orphan ELSE lease
    /\ NoFault /\ UNCHANGED <<session, asked, stale, lapses>>

(* The owner of a lease, and a request that copied the session before the   *)
(* owner marked it, are faster than its TTL (5 minutes): a lease or lock    *)
(* that runs out all the same is a lapse.                                   *)
Early == lease \in Polls \/ \E p \in Polls : poll[p].behind

Lapse == IF Early THEN lapses < MaxLapses /\ ~NoMore /\ lapses' = lapses + 1 ELSE UNCHANGED lapses

(* The lease key expires: after its poll has gone, or under it. *)
LeaseEnds ==
    /\ lease # None /\ Lapse
    /\ lease' = None
    /\ NoFault /\ UNCHANGED <<session, poll, asked, stale, crashes>>

(* continuationLockExpiresAt passes on the readers' clocks, which need not  *)
(* agree with the lease key.                                                *)
LockEnds ==
    /\ session.continuing /\ session.fresh /\ Lapse
    /\ session' = [session EXCEPT !.fresh = FALSE]
    /\ NoFault /\ UNCHANGED <<lease, poll, asked, stale, crashes>>

Due(execs) ==
    [q \in DOMAIN execs |->
        IF execs[q].state = "waiting" THEN [execs[q] EXCEPT !.state = "due"] ELSE execs[q]]

(* nextAttemptAt is a time: it passes for the session and for every copy. *)
DelayEnds ==
    /\ In(session.execs, {"waiting"}) # {}
    /\ session' = [session EXCEPT !.execs = Due(@)]
    /\ poll' = [p \in Polls |-> [poll[p] EXCEPT !.execs = Due(@)]]
    /\ NoFault /\ UNCHANGED <<lease, asked, stale, crashes, lapses>>

ContinuationInit ==
    /\ session = [execs |-> [q \in Providers |-> FirstPage], hotels |-> {},
                  incomplete |-> TRUE, continuing |-> FALSE, fresh |-> FALSE]
    /\ lease = None
    /\ poll = [p \in Polls |-> Nobody]
    /\ asked = [q \in Providers |-> [c \in 1..LastPage[q] |-> 0]]
    /\ stale = 0 /\ faults = 0 /\ crashes = 0 /\ lapses = 0

ContinuationNext ==
    \/ \E p \in Polls : Poll(p) \/ Crash(p)
    \/ LeaseEnds \/ LockEnds \/ DelayEnds

ContinuationSpec == ContinuationInit /\ [][ContinuationNext]_continuationVars

(* Fairness: a client that is not told the search is complete polls again   *)
(* and its requests are run to their end; leases, locks and retry delays    *)
(* run out.  Nothing is assumed of faults, crashes and early lapses.        *)
FairContinuationSpec ==
    /\ ContinuationSpec
    /\ \A p \in Polls : WF_continuationVars(Poll(p))
    /\ WF_continuationVars(LeaseEnds /\ ~Early)
    /\ WF_continuationVars(LockEnds /\ ~Early)
    /\ WF_continuationVars(DelayEnds)

-----------------------------------------------------------------------------
(* The lease belongs to a poll that is using it, to nobody, or to a poll    *)
(* that ended without giving it back.                                       *)
ContinuationTypeOK ==
    /\ session.execs \in [Providers -> Execution]
    /\ \A h \in session.hotels : h[1] \in Providers /\ h[2] \in 1..LastPage[h[1]]
    /\ {session.incomplete, session.continuing, session.fresh} \subseteq BOOLEAN
    /\ lease \in Polls => poll[lease].pc \in
          {"lock", "unlock", "begin", "renew", "call", "assert", "apply", "save", "abandon"}
    /\ lease \in Polls \cup {None, Orphan}

(* No page is skipped: whatever crashed, lapsed or was written late, the    *)
(* hotels of every page before the one an execution will ask for are in     *)
(* the session (append comes before the cursor moves, and merges).          *)
NoPageLost ==
    \A q \in Providers : \A c \in 1..LastPage[q] :
        c < session.execs[q].page => <<q, c>> \in session.hotels

(* Each provider cursor is retried at most once. *)
CursorRetriedOnce == \A q \in Providers : \A c \in 1..LastPage[q] : asked[q][c] <= MaxAttempts

(* Each interruption of a continuation costs a provider at most one more    *)
(* call for the same page, unless a stale copy gave attempts back.          *)
AttemptsBounded ==
    stale = 0 => \A q \in Providers : \A c \in 1..LastPage[q] :
        asked[q][c] <= MaxAttempts + faults + crashes + lapses

(* A poll that lost its lease cannot bring back an execution that another   *)
(* poll has ended: its owned updates are refused.                           *)
EndedStaysEnded ==
    [][\A q \in Providers : stale' = 0 /\ session.execs[q].state \in Ended
          => session'.execs[q].state = session.execs[q].state]_continuationVars

(* A client that keeps polling is told that its search is complete. *)
PollingEnds == <>~session.incomplete

(* It is told so even when web processes die on the way, as long as no      *)
(* command fails, no lease lapses early and no stale copy is stored.        *)
PollingEndsInOrder == <>(~session.incomplete \/ faults + lapses + stale > 0)
=============================================================================
