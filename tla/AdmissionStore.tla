--------------------------- MODULE AdmissionStore ---------------------------
(***************************************************************************)
(* The shared admission store of the search queue: the Valkey keys         *)
(* expiry (sorted set), records (hash) and fences (hash) that              *)
(* server/queue/searchQueueAdmission.js keeps under config.admissionPrefix,*)
(* and the Lua scripts that read and write them.  A script runs atomically *)
(* inside Valkey, so one script is one action.                             *)
(*                                                                         *)
(* Every script takes the time from its caller (Date.now() of a web or     *)
(* worker process), so nothing orders the times of two commands: t is any  *)
(* member of Clock.  Leases have no Valkey TTL; a lapsed record stays      *)
(* until a RESERVE or a SNAPSHOT sweeps it.                                *)
(*                                                                         *)
(* ReplyAllowsOneMore, ExistingTakesNewToken, BeginKeepsFence and          *)
(* RemoveLeavesFence are faulty forms of the definition that follows each  *)
(* of them; no action uses them.  They show which mistakes the properties  *)
(* detect.                                                                 *)
(***************************************************************************)
EXTENDS Naturals, FiniteSets

CONSTANTS
    Jobs,          \* deterministic job ids, one per idempotency key
    SearchIds,     \* search session ids
    Tokens,        \* admission tokens, crypto.randomUUID() each
    Fingerprints,  \* payload fingerprints
    MaxAdmitted,   \* config.maxAdmittedJobs
    Lease,         \* config.admissionLeaseMs, in ticks
    Clock,         \* the readings the callers' clocks can have
    MaxFence,      \* bound: executions begun per record
    None           \* an absent field

ASSUME JobsAssumption  == IsFiniteSet(Jobs)
ASSUME CapAssumption   == MaxAdmitted \in Nat
ASSUME ClockAssumption == Clock \subseteq Nat /\ Lease \in Nat
ASSUME FenceAssumption == MaxFence \in Nat
ASSUME NoneAssumption  == /\ None \notin Nat
                          /\ None \notin [searchId : SearchIds, token : Tokens, fp : Fingerprints]

VARIABLES
    records,   \* KEYS[2]: job id -> admission record, None when there is no field
    expiry,    \* KEYS[1]: job id -> lease end, None when it is not a member
    fences,    \* KEYS[3]: job id -> fencing number; an absent field reads as 0
    issued     \* history: the tokens drawn so far (randomUUID never repeats)

storeVars == <<records, expiry, fences, issued>>

Record == [searchId : SearchIds, token : Tokens, fp : Fingerprints]

-----------------------------------------------------------------------------
(* Reading the store. *)

Admitted == {j \in Jobs : expiry[j] # None}

(* ZRANGEBYSCORE expiry -inf t: the members whose lease has ended at t. *)
Lapsed(t) == {j \in Admitted : expiry[j] <= t}

Holds(j, token) == records[j] # None /\ records[j].token = token

HoldsFenced(j, token, fence) == Holds(j, token) /\ fences[j] = fence

(* The sweep that opens RESERVE and SNAPSHOT: HDEL the record and the fence *)
(* of every lapsed member, then ZREMRANGEBYSCORE.                           *)
Swept(f, t, absent) == [j \in Jobs |-> IF j \in Lapsed(t) THEN absent ELSE f[j]]

SweepOnly(t) ==
    /\ records' = Swept(records, t, None)
    /\ expiry'  = Swept(expiry, t, None)
    /\ fences'  = Swept(fences, t, 0)
    /\ UNCHANGED issued

ReplyAllowsOneMore(j, fp, t) ==
    LET present == records[j] # None /\ j \notin Lapsed(t) IN
    IF present THEN (IF records[j].fp = fp THEN "existing" ELSE "conflict")
    ELSE IF Cardinality(Admitted \ Lapsed(t)) > MaxAdmitted THEN "full"
    ELSE "created"

(* What RESERVE answers at time t, after its sweep. *)
ReserveReply(j, fp, t) ==
    LET present == records[j] # None /\ j \notin Lapsed(t) IN
    IF present THEN (IF records[j].fp = fp THEN "existing" ELSE "conflict")
    ELSE IF Cardinality(Admitted \ Lapsed(t)) >= MaxAdmitted THEN "full"
    ELSE "created"

-----------------------------------------------------------------------------
(* RESERVE_ADMISSION_SCRIPT: one action per outcome.  Every call draws a   *)
(* fresh token (requestedAdmissionToken), whether or not it is stored.     *)

Draw(token) == token \in Tokens \ issued /\ issued' = issued \cup {token}

ReserveRejected(j, token, fp, t) ==
    /\ Draw(token)
    /\ ReserveReply(j, fp, t) \in {"conflict", "full"}
    /\ records' = Swept(records, t, None)
    /\ expiry'  = Swept(expiry, t, None)
    /\ fences'  = Swept(fences, t, 0)

ExistingTakesNewToken(j, token, fp, t) ==
    /\ Draw(token)
    /\ ReserveReply(j, fp, t) = "existing"
    /\ records' = [Swept(records, t, None) EXCEPT ![j].token = token]
    /\ expiry'  = [Swept(expiry, t, None) EXCEPT ![j] = t + Lease]
    /\ fences'  = Swept(fences, t, 0)

ReserveExisting(j, token, fp, t) ==
    /\ Draw(token)
    /\ ReserveReply(j, fp, t) = "existing"
    /\ records' = Swept(records, t, None)
    /\ expiry'  = [Swept(expiry, t, None) EXCEPT ![j] = t + Lease]
    /\ fences'  = Swept(fences, t, 0)

ReserveCreated(j, s, token, fp, t) ==
    /\ Draw(token)
    /\ ReserveReply(j, fp, t) = "created"
    /\ records' = [Swept(records, t, None) EXCEPT ![j] = [searchId |-> s, token |-> token, fp |-> fp]]
    /\ expiry'  = [Swept(expiry, t, None) EXCEPT ![j] = t + Lease]
    /\ fences'  = Swept(fences, t, 0)

Reserve(j, s, token, fp, t) ==
    \/ ReserveRejected(j, token, fp, t)
    \/ ReserveExisting(j, token, fp, t)
    \/ ReserveCreated(j, s, token, fp, t)

BeginKeepsFence(j, token, t) ==
    /\ Holds(j, token)
    /\ expiry' = [expiry EXCEPT ![j] = t + Lease]
    /\ UNCHANGED <<records, fences, issued>>

(* BEGIN_EXECUTION_SCRIPT: a worker starts an execution and is granted the *)
(* next fencing number.  The lease end is not compared with t: a lapsed    *)
(* record that no sweep has removed is taken up again.                     *)
Begin(j, token, t) ==
    /\ Holds(j, token)
    /\ fences[j] < MaxFence
    /\ fences' = [fences EXCEPT ![j] = @ + 1]
    /\ expiry' = [expiry EXCEPT ![j] = t + Lease]
    /\ UNCHANGED <<records, issued>>

(* RENEW_ADMISSION_SCRIPT *)
Renew(j, token, fence, t) ==
    /\ HoldsFenced(j, token, fence)
    /\ expiry' = [expiry EXCEPT ![j] = t + Lease]
    /\ UNCHANGED <<records, fences, issued>>

RemoveLeavesFence(j) ==
    /\ records' = [records EXCEPT ![j] = None]
    /\ expiry'  = [expiry EXCEPT ![j] = None]
    /\ UNCHANGED <<fences, issued>>

(* ZREM and the two HDELs that both releases do. *)
Remove(j) ==
    /\ records' = [records EXCEPT ![j] = None]
    /\ expiry'  = [expiry EXCEPT ![j] = None]
    /\ fences'  = [fences EXCEPT ![j] = 0]
    /\ UNCHANGED issued

(* RELEASE_ADMISSION_SCRIPT *)
Release(j, token, fence) == HoldsFenced(j, token, fence) /\ Remove(j)

(* ADOPT_STORED_RESERVATION_SCRIPT: a reservation that found a live job    *)
(* under its id gives its slot to the search and the token the job carries.*)
Adopt(j, token, storedSearchId, storedToken, fp, t) ==
    /\ HoldsFenced(j, token, 0)
    /\ records[j].fp = fp
    /\ storedToken \in issued
    /\ records' = [records EXCEPT ![j] = [searchId |-> storedSearchId, token |-> storedToken, fp |-> fp]]
    /\ expiry'  = [expiry EXCEPT ![j] = t + Lease]
    /\ fences'  = [fences EXCEPT ![j] = 0]
    /\ UNCHANGED issued

(* RELEASE_TERMINAL_RESERVATION_SCRIPT, when the record is there. *)
ReleaseTerminal(j, token) == Holds(j, token) /\ Remove(j)

(* ADMISSION_SNAPSHOT_SCRIPT: counting the admissions sweeps them. *)
Snapshot(t) == SweepOnly(t)

-----------------------------------------------------------------------------
StoreInit ==
    /\ records = [j \in Jobs |-> None]
    /\ expiry  = [j \in Jobs |-> None]
    /\ fences  = [j \in Jobs |-> 0]
    /\ issued  = {}

StoreStep(j, t) ==
    \/ \E s \in SearchIds, token \in Tokens, fp \in Fingerprints : Reserve(j, s, token, fp, t)
    \/ \E token \in Tokens : Begin(j, token, t)
    \/ \E token \in Tokens, fence \in 0..MaxFence : Renew(j, token, fence, t)
    \/ \E token \in Tokens, fence \in 0..MaxFence : Release(j, token, fence)
    \/ \E token, storedToken \in Tokens, s \in SearchIds, fp \in Fingerprints :
          Adopt(j, token, s, storedToken, fp, t)
    \/ \E token \in Tokens : ReleaseTerminal(j, token)

StoreNext == \E t \in Clock : Snapshot(t) \/ \E j \in Jobs : StoreStep(j, t)

StoreSpec == StoreInit /\ [][StoreNext]_storeVars

-----------------------------------------------------------------------------
(* The hashes and the sorted set hold what the scripts put there. *)
StoreTypeOK ==
    /\ records \in [Jobs -> Record \cup {None}]
    /\ expiry \in [Jobs -> Nat \cup {None}]
    /\ fences \in [Jobs -> 0..MaxFence]
    /\ issued \subseteq Tokens

(* The queue admits at most maxAdmittedJobs searches at any time, counted   *)
(* by ZCARD, however the callers' clocks disagree and however many web      *)
(* processes reserve at once.                                               *)
AdmissionCap == Cardinality(Admitted) <= MaxAdmitted

(* The three keys describe the same admissions: the sorted set that is      *)
(* counted and swept has exactly the jobs of the records hash, and no fence *)
(* outlives its record, so that a new record starts at fencing number 0,    *)
(* the number its reservation is released with.                             *)
KeysAgree ==
    \A j \in Jobs : /\ records[j] # None <=> expiry[j] # None
                    /\ records[j] = None => fences[j] = 0

(* A token identifies one life of an admission: while a job's record keeps  *)
(* its token, the fencing numbers granted for it only grow; and a record    *)
(* replaced by a new reservation starts again at 0 with a token of its own. *)
FenceStep ==
    \A j \in Jobs :
       records[j] # None /\ records'[j] # None =>
          \/ records'[j].token = records[j].token /\ fences'[j] >= fences[j]
          \/ records'[j].token # records[j].token /\ fences'[j] = 0

FenceGrowsWithToken == [][FenceStep]_storeVars
=============================================================================
