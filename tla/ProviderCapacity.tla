-------------------------- MODULE ProviderCapacity --------------------------
(***************************************************************************)
(* The limits on concurrent provider operations: the sorted sets and rate  *)
(* counters that server/state/valkey/valkeyProviderCapacityCoordinator.js  *)
(* keeps in Valkey, its Lua scripts (one script, one action), and the      *)
(* operations of server/providers/common/providerOperationTimeoutService.js*)
(* that acquire, renew and release a lease around a provider call.         *)
(*                                                                         *)
(* Scores are kept relative to the server's clock: what is left of a lease.*)
(* A caller's clock (Date.now()) is up to MaxSkew ahead of it, so it stores*)
(* scores that lie s further away and sweeps members with at most s left;  *)
(* a command that is late, and so carries an older time, has a smaller s.  *)
(* An operation uses one token where the code draws two, for its lease and *)
(* for its place in the queue: they are never compared with each other.    *)
(*                                                                         *)
(* ProviderRoomOnly, SpentOneLate, WindowNeverEnds, AcquireKeepsWaiter and *)
(* RenewRestores are faulty forms of the definition that follows each of   *)
(* them; no action uses them.                                              *)
(***************************************************************************)
EXTENDS Naturals, FiniteSets

CONSTANTS
    Ops,            \* slots for concurrent operations, of any process
    Providers,
    Tokens,         \* crypto.randomUUID() of an operation
    None,           \* no token, no provider
    GlobalLimit,    \* globalActiveLimit
    ProviderLimit,  \* perProviderActiveLimit
    GlobalQueue,    \* globalQueuedLimit
    ProviderQueue,  \* perProviderQueuedLimit
    LeaseTtl,       \* leaseTtlMs, of leases and of places in the queue
    RateMax,        \* the account's maxRequests; 0 when there is no limit
    RateWindow,     \* the account's windowMs
    MaxSkew,        \* bound: how far a caller's clock is ahead
    MaxFaults       \* bound: lost commands, lost replies and crashes

ASSUME TokensAssumption == IsFiniteSet(Tokens) /\ None \notin Tokens \cup Providers
ASSUME LimitAssumption  ==
    /\ {GlobalLimit, ProviderLimit, GlobalQueue, ProviderQueue} \subseteq Nat \ {0}
    /\ ProviderLimit <= GlobalLimit /\ ProviderQueue <= GlobalQueue
ASSUME DurationAssumption ==
    /\ {LeaseTtl, RateWindow} \subseteq Nat \ {0}
    /\ {RateMax, MaxSkew, MaxFaults} \subseteq Nat

VARIABLES
    globalLeases,     \* the members of the global lease set
    providerLeases,   \* provider -> the members of its lease set
    leaseLeft,        \* token -> its score in both, ahead of now; 0 without
    globalWaiters,    \* the members of the global queue
    providerWaiters,  \* provider -> the members of its queue
    waitLeft,         \* token -> its score in both, ahead of now; 0 without
    used,             \* provider -> the rate counter; 0 when it has expired
    windowLeft,       \* provider -> the TTL of the rate counter
    phase,            \* operation -> where it is
    prov,             \* operation -> the provider it calls
    tok,              \* operation -> its token
    registered,       \* operation -> waiterRegistered
    renewing,         \* operation -> a RENEW is on its way (renewalInFlight)
    faults            \* lost commands, lost replies and crashes so far

leaseVars  == <<globalLeases, providerLeases, leaseLeft>>
waiterVars == <<globalWaiters, providerWaiters, waitLeft>>
rateVars   == <<used, windowLeft>>
storeVars  == <<leaseVars, waiterVars, rateVars>>
opVars     == <<phase, prov, tok, registered, renewing>>
vars       == <<storeVars, opVars, faults>>

Skews == 0..MaxSkew

(* ZREMRANGEBYSCORE -inf now, by a caller whose clock is s ahead. *)
Swept(set, left, s) == {t \in set : left[t] > s}

-----------------------------------------------------------------------------
(* ACQUIRE_SCRIPT *)

ProviderRoomOnly(p, s) == Cardinality(Swept(providerLeases[p], leaseLeft, s)) < ProviderLimit

Room(p, s) ==
    /\ Cardinality(Swept(globalLeases, leaseLeft, s)) < GlobalLimit
    /\ Cardinality(Swept(providerLeases[p], leaseLeft, s)) < ProviderLimit

SpentOneLate(p) == RateMax > 0 /\ used[p] > RateMax

RateSpent(p) == RateMax > 0 /\ used[p] >= RateMax

QueueFull(p, t, s) ==
    /\ t \notin Swept(globalWaiters, waitLeft, s)
    /\ \/ Cardinality(Swept(globalWaiters, waitLeft, s)) >= GlobalQueue
       \/ Cardinality(Swept(providerWaiters[p], waitLeft, s)) >= ProviderQueue

AcquireReply(p, t, s) ==
    CASE Room(p, s) /\ ~RateSpent(p) -> "acquired"
      [] Room(p, s) /\ RateSpent(p)  -> "rate-limited"
      [] ~Room(p, s) /\ QueueFull(p, t, s)  -> "queue-full"
      [] ~Room(p, s) /\ ~QueueFull(p, t, s) -> "waiting"

WindowNeverEnds(p) ==
    IF RateMax = 0 THEN UNCHANGED rateVars
    ELSE /\ used' = [used EXCEPT ![p] = @ + 1]
         /\ UNCHANGED windowLeft

CountRequest(p) ==
    IF RateMax = 0 THEN UNCHANGED rateVars
    ELSE /\ used' = [used EXCEPT ![p] = @ + 1]
         /\ windowLeft' = IF used[p] = 0 THEN [windowLeft EXCEPT ![p] = RateWindow] ELSE windowLeft

SweepLeases(p, s, added) ==
    /\ globalLeases' = Swept(globalLeases, leaseLeft, s) \cup added
    /\ providerLeases' = [providerLeases EXCEPT ![p] = Swept(@, leaseLeft, s) \cup added]

SweepWaiters(p, s, added, removed) ==
    /\ globalWaiters' = (Swept(globalWaiters, waitLeft, s) \ removed) \cup added
    /\ providerWaiters' = [providerWaiters EXCEPT ![p] = (Swept(@, waitLeft, s) \ removed) \cup added]

AcquireKeepsWaiter(p, t, s) ==
    /\ SweepLeases(p, s, {t})
    /\ leaseLeft' = [leaseLeft EXCEPT ![t] = LeaseTtl + s]
    /\ SweepWaiters(p, s, {}, {})
    /\ UNCHANGED waitLeft
    /\ CountRequest(p)

Acquired(p, t, s) ==
    /\ SweepLeases(p, s, {t})
    /\ leaseLeft' = [leaseLeft EXCEPT ![t] = LeaseTtl + s]
    /\ SweepWaiters(p, s, {}, {t})
    /\ waitLeft' = [waitLeft EXCEPT ![t] = 0]
    /\ CountRequest(p)

RateLimited(p, t, s) ==
    /\ SweepLeases(p, s, {})
    /\ SweepWaiters(p, s, {}, {t})
    /\ waitLeft' = [waitLeft EXCEPT ![t] = 0]
    /\ UNCHANGED <<leaseLeft, rateVars>>

QueueIsFull(p, s) ==
    /\ SweepLeases(p, s, {})
    /\ SweepWaiters(p, s, {}, {})
    /\ UNCHANGED <<leaseLeft, waitLeft, rateVars>>

Waits(p, t, s) ==
    /\ SweepLeases(p, s, {})
    /\ SweepWaiters(p, s, {t}, {})
    /\ waitLeft' = [waitLeft EXCEPT ![t] = LeaseTtl + s]
    /\ UNCHANGED <<leaseLeft, rateVars>>

Acquire(p, t, s) ==
    \/ AcquireReply(p, t, s) = "acquired" /\ Acquired(p, t, s)
    \/ AcquireReply(p, t, s) = "rate-limited" /\ RateLimited(p, t, s)
    \/ AcquireReply(p, t, s) = "queue-full" /\ QueueIsFull(p, s)
    \/ AcquireReply(p, t, s) = "waiting" /\ Waits(p, t, s)

(* RENEW_SCRIPT: only a token that both sets still have is renewed, even   *)
(* when its lease has ended and no sweep has come by.                      *)
Renewable(p, t) == t \in globalLeases /\ t \in providerLeases[p]

RenewRestores(p, t, s) ==
    /\ globalLeases' = globalLeases \cup {t}
    /\ providerLeases' = [providerLeases EXCEPT ![p] = @ \cup {t}]
    /\ leaseLeft' = [leaseLeft EXCEPT ![t] = LeaseTtl + s]
    /\ UNCHANGED <<waiterVars, rateVars>>

Renew(p, t, s) ==
    /\ leaseLeft' = IF Renewable(p, t) THEN [leaseLeft EXCEPT ![t] = LeaseTtl + s] ELSE leaseLeft
    /\ UNCHANGED <<globalLeases, providerLeases, waiterVars, rateVars>>

(* RELEASE_SCRIPT *)
Release(p, t) ==
    /\ globalLeases' = globalLeases \ {t}
    /\ providerLeases' = [providerLeases EXCEPT ![p] = @ \ {t}]
    /\ leaseLeft' = [leaseLeft EXCEPT ![t] = 0]
    /\ UNCHANGED <<waiterVars, rateVars>>

(* REMOVE_WAITER_SCRIPT *)
RemoveWaiter(p, t) ==
    /\ globalWaiters' = globalWaiters \ {t}
    /\ providerWaiters' = [providerWaiters EXCEPT ![p] = @ \ {t}]
    /\ waitLeft' = [waitLeft EXCEPT ![t] = 0]
    /\ UNCHANGED <<leaseVars, rateVars>>

(* SNAPSHOT_SCRIPT, of the global sets alone or with those of a provider. *)
Snapshot(s) ==
    /\ \E P \in SUBSET Providers :
          /\ Cardinality(P) <= 1
          /\ providerLeases' = [p \in Providers |->
                IF p \in P THEN Swept(providerLeases[p], leaseLeft, s) ELSE providerLeases[p]]
          /\ providerWaiters' = [p \in Providers |->
                IF p \in P THEN Swept(providerWaiters[p], waitLeft, s) ELSE providerWaiters[p]]
    /\ globalLeases' = Swept(globalLeases, leaseLeft, s)
    /\ globalWaiters' = Swept(globalWaiters, waitLeft, s)
    /\ UNCHANGED <<leaseLeft, waitLeft, rateVars, opVars, faults>>

-----------------------------------------------------------------------------
(* One operation: executeProviderOperationWithTimeout and, inside it,      *)
(* acquireProviderOperationCapacity and the lease's renew and release.     *)

Fault == faults < MaxFaults /\ faults' = faults + 1

Goes(o, next) == phase' = [phase EXCEPT ![o] = next]

(* The slot is used again once its last RENEW is answered too. *)
Ends(o) ==
    /\ Goes(o, "idle")
    /\ registered' = [registered EXCEPT ![o] = FALSE]
    /\ tok'  = [tok EXCEPT ![o] = IF renewing[o] THEN @ ELSE None]
    /\ prov' = [prov EXCEPT ![o] = IF renewing[o] THEN @ ELSE None]
    /\ UNCHANGED renewing

(* The catch of acquireProviderOperationCapacity. *)
Quits(o) ==
    \/ registered[o] /\ Goes(o, "leaving") /\ UNCHANGED <<prov, tok, registered, renewing>>
    \/ ~registered[o] /\ Ends(o)

InSets == globalLeases \cup globalWaiters
          \cup UNION {providerLeases[p] \cup providerWaiters[p] : p \in Providers}

Start(o) ==
    /\ phase[o] = "idle" /\ ~renewing[o]
    /\ \E p \in Providers, t \in Tokens \ (InSets \cup {tok[x] : x \in Ops}) :
          /\ prov' = [prov EXCEPT ![o] = p]
          /\ tok'  = [tok EXCEPT ![o] = t]
    /\ Goes(o, "asking")
    /\ UNCHANGED <<registered, renewing, storeVars, faults>>

Answered(o, reply) ==
    \/ /\ reply = "acquired"
       /\ Goes(o, "holding") /\ registered' = [registered EXCEPT ![o] = FALSE]
       /\ UNCHANGED <<prov, tok, renewing>>
    \/ reply = "rate-limited" /\ Ends(o)
    \/ reply = "queue-full" /\ Quits(o)
    \/ /\ reply = "waiting"
       /\ registered' = [registered EXCEPT ![o] = TRUE]
       /\ UNCHANGED <<phase, prov, tok, renewing>>

(* One turn of the polling loop. *)
Ask(o) ==
    /\ phase[o] = "asking"
    /\ \/ \E s \in Skews : /\ Acquire(prov[o], tok[o], s)
                           /\ \/ Answered(o, AcquireReply(prov[o], tok[o], s)) /\ UNCHANGED faults
                              \/ Fault /\ Quits(o)
       \/ UNCHANGED storeVars /\ Fault /\ Quits(o)

(* The operation's timeout, or its caller, aborts it between two polls. *)
Abort(o) ==
    /\ phase[o] = "asking"
    /\ Quits(o)
    /\ UNCHANGED <<storeVars, faults>>

Leave(o) ==
    /\ phase[o] = "leaving"
    /\ \/ RemoveWaiter(prov[o], tok[o]) /\ UNCHANGED faults
       \/ (RemoveWaiter(prov[o], tok[o]) \/ UNCHANGED storeVars) /\ Fault
    /\ Ends(o)

(* The provider answers, or the timeout or the lease's loss aborts it. *)
Done(o) ==
    /\ phase[o] = "holding"
    /\ Goes(o, "releasing")
    /\ UNCHANGED <<storeVars, prov, tok, registered, renewing, faults>>

ReleaseStep(o) ==
    /\ phase[o] = "releasing"
    /\ \/ Release(prov[o], tok[o]) /\ UNCHANGED faults
       \/ (Release(prov[o], tok[o]) \/ UNCHANGED storeVars) /\ Fault
    /\ Ends(o)

(* The renewal timer.  The command is on its way while the operation goes  *)
(* on, and can reach Valkey after the RELEASE.                             *)
RenewSend(o) ==
    /\ phase[o] = "holding" /\ ~renewing[o]
    /\ renewing' = [renewing EXCEPT ![o] = TRUE]
    /\ UNCHANGED <<storeVars, phase, prov, tok, registered, faults>>

Settles(o, lost) ==
    /\ renewing' = [renewing EXCEPT ![o] = FALSE]
    /\ Goes(o, IF lost /\ phase[o] = "holding" THEN "releasing" ELSE phase[o])
    /\ tok'  = [tok EXCEPT ![o] = IF phase[o] = "idle" THEN None ELSE @]
    /\ prov' = [prov EXCEPT ![o] = IF phase[o] = "idle" THEN None ELSE @]
    /\ UNCHANGED registered

RenewStep(o) ==
    /\ renewing[o]
    /\ \/ \E s \in Skews : /\ Renew(prov[o], tok[o], s)
                           /\ \/ Settles(o, ~Renewable(prov[o], tok[o])) /\ UNCHANGED faults
                              \/ Settles(o, TRUE) /\ Fault
       \/ UNCHANGED storeVars /\ Settles(o, TRUE) /\ Fault

Crash(o) ==
    /\ phase[o] # "idle" /\ Fault
    /\ Goes(o, "idle")
    /\ registered' = [registered EXCEPT ![o] = FALSE]
    /\ tok' = [tok EXCEPT ![o] = None] /\ prov' = [prov EXCEPT ![o] = None]
    /\ renewing' = [renewing EXCEPT ![o] = FALSE]
    /\ UNCHANGED storeVars

Sooner(n) == IF n > 0 THEN n - 1 ELSE 0

(* A tick of the server's clock; the rate counter expires with its TTL. *)
Tick ==
    /\ leaseLeft' = [t \in Tokens |-> Sooner(leaseLeft[t])]
    /\ waitLeft' = [t \in Tokens |-> Sooner(waitLeft[t])]
    /\ windowLeft' = [p \in Providers |-> Sooner(windowLeft[p])]
    /\ used' = [p \in Providers |-> IF windowLeft[p] = 1 THEN 0 ELSE used[p]]
    /\ UNCHANGED <<globalLeases, providerLeases, globalWaiters, providerWaiters, opVars, faults>>

CapacityInit ==
    /\ globalLeases = {} /\ providerLeases = [p \in Providers |-> {}]
    /\ globalWaiters = {} /\ providerWaiters = [p \in Providers |-> {}]
    /\ leaseLeft = [t \in Tokens |-> 0] /\ waitLeft = [t \in Tokens |-> 0]
    /\ used = [p \in Providers |-> 0] /\ windowLeft = [p \in Providers |-> 0]
    /\ phase = [o \in Ops |-> "idle"]
    /\ prov = [o \in Ops |-> None] /\ tok = [o \in Ops |-> None]
    /\ registered = [o \in Ops |-> FALSE] /\ renewing = [o \in Ops |-> FALSE]
    /\ faults = 0

OpStep(o) ==
    \/ Start(o) \/ Ask(o) \/ Abort(o) \/ Leave(o) \/ Done(o) \/ ReleaseStep(o)
    \/ RenewSend(o) \/ RenewStep(o) \/ Crash(o)

CapacityNext == (\E o \in Ops : OpStep(o)) \/ (\E s \in Skews : Snapshot(s)) \/ Tick

CapacitySpec == CapacityInit /\ [][CapacityNext]_vars

(* Operations keep coming and go on after every await; time passes.  A     *)
(* waiting operation polls every 25 ms and is aborted after 12 seconds at  *)
(* the earliest, so that not every turn of its loop is cut off.            *)
FairCapacitySpec ==
    /\ CapacitySpec
    /\ WF_vars(Tick)
    /\ \A o \in Ops : /\ WF_vars(Start(o)) /\ SF_vars(Ask(o))
                      /\ WF_vars(Leave(o) \/ Done(o) \/ ReleaseStep(o))
                      /\ WF_vars(RenewStep(o))

-----------------------------------------------------------------------------
(* The sets, scores, counters and operations hold what the code puts there. *)
CapacityTypeOK ==
    /\ globalLeases \subseteq Tokens /\ globalWaiters \subseteq Tokens
    /\ providerLeases \in [Providers -> SUBSET Tokens]
    /\ providerWaiters \in [Providers -> SUBSET Tokens]
    /\ leaseLeft \in [Tokens -> Nat] /\ waitLeft \in [Tokens -> Nat]
    /\ used \in [Providers -> 0..RateMax] /\ windowLeft \in [Providers -> Nat]
    /\ phase \in [Ops -> {"idle", "asking", "leaving", "holding", "releasing"}]
    /\ prov \in [Ops -> Providers \cup {None}]
    /\ tok \in [Ops -> Tokens \cup {None}]
    /\ registered \in [Ops -> BOOLEAN] /\ renewing \in [Ops -> BOOLEAN]
    /\ faults \in 0..MaxFaults

(* o calls the provider, and no clock has its lease ended yet. *)
Working(o) == phase[o] = "holding" /\ leaseLeft[tok[o]] > MaxSkew

(* Whatever processes call providers, the operations with a running lease  *)
(* stay within the global limit and within the limit of each provider,     *)
(* with sweeps by any clock, late renewals, lost replies and crashes.      *)
LimitsHold ==
    /\ Cardinality({o \in Ops : Working(o)}) <= GlobalLimit
    /\ \A p \in Providers : Cardinality({o \in Ops : Working(o) /\ prov[o] = p}) <= ProviderLimit

(* Members of a set that no running operation will take out. *)
Orphans == InSets \ {tok[o] : o \in {x \in Ops : phase[x] # "idle"}}

(* Every path out of an operation gives back its lease and its place in    *)
(* the queue: a lost command, a lost reply or a crash costs at most one of *)
(* them, and nothing else costs any.                                       *)
LeakPerFault == Cardinality(Orphans) <= faults

(* The lease sets are semaphores: a member enters only into free room.     *)
GlobalSemaphore == INSTANCE Semaphore WITH Limit <- GlobalLimit, owners <- globalLeases
ProviderSemaphore(p) == INSTANCE Semaphore WITH Limit <- ProviderLimit, owners <- providerLeases[p]

(* A full provider never admits one more operation, though the global and  *)
(* the provider's set are swept by different commands and a renewal that   *)
(* is late can follow the release or the sweep of its lease.               *)
EntersWithRoom ==
    [][/\ GlobalSemaphore!SemaphoreNext
       /\ \A p \in Providers : ProviderSemaphore(p)!SemaphoreNext]_vars

(* Operations keep getting through: lost leases, full queues of waiters    *)
(* that nobody polls for and spent rate windows hold them up only for a    *)
(* time.                                                                   *)
Throughput == []<>(\E o \in Ops : phase[o] = "holding")
=============================================================================
