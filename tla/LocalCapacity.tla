---------------------------- MODULE LocalCapacity ----------------------------
(***************************************************************************)
(* The capacity coordinator of a single process                            *)
(* (inMemoryProviderCapacityCoordinator.js), which a deployment without    *)
(* Valkey has in place of ProviderCapacity's: two counters of operations   *)
(* that run, and a queue that is served in its order whenever one of them  *)
(* ends.  An operation is one executeProviderOperationWithTimeout; its     *)
(* timer aborts it while it waits, and ends it while it runs.              *)
(*                                                                         *)
(* Every function of the module runs to its end without an await, so that  *)
(* each call is one action.                                                *)
(*                                                                         *)
(* ServesHeadOnly and ReleasesOnly are faulty forms of the definition that *)
(* follows each of them; no action uses them.  They show which mistakes    *)
(* the properties detect.                                                  *)
(***************************************************************************)
EXTENDS Naturals, FiniteSets, Sequences, SequencesExt

CONSTANTS
    Operations,
    ProviderOf,           \* operation -> its provider
    MaxRunning,           \* MAX_PROVIDER_CONCURRENT_OPERATIONS
    MaxRunningOf,         \* ... _PER_PROVIDER
    MaxQueued,            \* MAX_PROVIDER_QUEUED_OPERATIONS
    MaxQueuedOf           \* ... _PER_PROVIDER

ASSUME LocalAssumption ==
    /\ IsFiniteSet(Operations) /\ DOMAIN ProviderOf = Operations
    /\ {MaxRunning, MaxRunningOf, MaxQueued, MaxQueuedOf} \subseteq Nat \ {0}

VARIABLES
    place,      \* operation -> "out", "queued" or "running"
    line,       \* providerOperationQueue
    running,    \* activeProviderOperationCount
    runningOf   \* activeProviderOperationCounts

localVars == <<place, line, running, runningOf>>

-----------------------------------------------------------------------------
LocalProviders == {ProviderOf[o] : o \in Operations}

OfProvider(p, os) == {o \in os : ProviderOf[o] = p}
OpsIn(where) == {o \in Operations : place[o] = where}

(* canStartProviderOperation *)
CanStart(p, all, each) == all < MaxRunning /\ each[p] < MaxRunningOf

(* What drainProviderOperationQueue has come to: who is still waiting, who  *)
(* has been granted, and the counters.                                      *)
Undrained(all, each) == [line |-> <<>>, granted |-> {}, all |-> all, each |-> each]

Skips(d, o) == [d EXCEPT !.line = Append(@, o)]

Grants(d, o) ==
    [line |-> d.line, granted |-> d.granted \cup {o}, all |-> d.all + 1,
     each |-> [d.each EXCEPT ![ProviderOf[o]] = @ + 1]]

ServesHeadOnly(d, o) ==
    IF d.line = <<>> /\ CanStart(ProviderOf[o], d.all, d.each) THEN Grants(d, o) ELSE Skips(d, o)

Serves(d, o) == IF CanStart(ProviderOf[o], d.all, d.each) THEN Grants(d, o) ELSE Skips(d, o)

(* The first waiter that can start is granted until none is left.  The      *)
(* counters only grow on the way, so that one pass finds them all.          *)
Drained(queued, all, each) == FoldLeft(Serves, Undrained(all, each), queued)

(* A waiter is resumed, or its place is left, by the outcome of a drain.    *)
After(d, places) ==
    /\ line' = d.line /\ running' = d.all /\ runningOf' = d.each
    /\ place' = [o \in Operations |-> IF o \in d.granted THEN "running" ELSE places[o]]

-----------------------------------------------------------------------------
(* acquireProviderOperationCapacity *)
StartsAtOnce(o) ==
    LET p == ProviderOf[o] IN
    /\ place[o] = "out" /\ CanStart(p, running, runningOf)
    /\ place' = [place EXCEPT ![o] = "running"]
    /\ running' = running + 1 /\ runningOf' = [runningOf EXCEPT ![p] = @ + 1]
    /\ UNCHANGED line

HasRoom(p) == Len(line) < MaxQueued /\ Cardinality(OfProvider(p, OpsIn("queued"))) < MaxQueuedOf

Queues(o) ==
    LET p == ProviderOf[o] IN
    /\ place[o] = "out" /\ ~CanStart(p, running, runningOf) /\ HasRoom(p)
    /\ After(Drained(Append(line, o), running, runningOf), [place EXCEPT ![o] = "queued"])

(* The listener of the waiter's signal. *)
Aborts(o) ==
    /\ place[o] = "queued"
    /\ place' = [place EXCEPT ![o] = "out"]
    /\ \E i \in DOMAIN line : line[i] = o /\ line' = RemoveAt(line, i)
    /\ UNCHANGED <<running, runningOf>>

Fewer(n) == IF n > 0 THEN n - 1 ELSE 0

ReleasesOnly(o) ==
    /\ place[o] = "running"
    /\ running' = Fewer(running) /\ runningOf' = [runningOf EXCEPT ![ProviderOf[o]] = Fewer(@)]
    /\ place' = [place EXCEPT ![o] = "out"] /\ UNCHANGED line

(* The provider call settles or is given up, and the finally releases.      *)
Releases(o) ==
    /\ place[o] = "running"
    /\ After(Drained(line, Fewer(running), [runningOf EXCEPT ![ProviderOf[o]] = Fewer(@)]),
             [place EXCEPT ![o] = "out"])

LocalInit ==
    /\ place = [o \in Operations |-> "out"]
    /\ line = <<>> /\ running = 0 /\ runningOf = [p \in LocalProviders |-> 0]

LocalNext ==
    \E o \in Operations : StartsAtOnce(o) \/ Queues(o) \/ Aborts(o) \/ Releases(o)

LocalSpec == LocalInit /\ [][LocalNext]_localVars

(* A provider call ends, by its timer if by nothing else; nothing makes an  *)
(* operation begin or be aborted.                                           *)
FairLocalSpec == LocalSpec /\ \A o \in Operations : WF_localVars(Releases(o))

-----------------------------------------------------------------------------
(* The counters are those of the operations that run and keep both limits;  *)
(* the queue holds those that wait, each once; and nobody waits who could   *)
(* start, so that a newcomer that starts at once overtakes nobody.          *)
CapacityInUse ==
    /\ running = Cardinality(OpsIn("running")) /\ running <= MaxRunning
    /\ \A p \in LocalProviders :
          runningOf[p] = Cardinality(OfProvider(p, OpsIn("running"))) /\ runningOf[p] <= MaxRunningOf
    /\ ToSet(line) = OpsIn("queued") /\ Len(line) = Cardinality(OpsIn("queued"))
    /\ \A o \in OpsIn("queued") : ~CanStart(ProviderOf[o], running, runningOf)

(* No waiter is overtaken for ever, neither by newcomers nor by waiters for *)
(* other providers.                                                         *)
WaitersServed == \A o \in Operations : []<>(place[o] # "queued")
=============================================================================
