-------------------------- MODULE SearchQueue_proof --------------------------
(***************************************************************************)
(* Proofs about the durable initial search, for any requests, keys,        *)
(* payloads, slots, cap, lease, number of attempts and loads.              *)
(***************************************************************************)
EXTENDS SearchQueue, AdmissionStore_proof, FiniteSums

(* The records that the four variables of the queue hold. *)
ApiPcs  == {"new", "reserve", "add", "get", "state", "releaseTerminal", "adopt", "undo", "clear",
            "dropOwn", "answered", "failed", "crashed"}
SlotPcs == {"idle", "begin", "claim", "search", "assert", "persist", "retry", "renew", "fail",
            "release", "finish"}
JobStates == {"none", "waiting", "active", "completed", "failed"}

SomeRequest == Requests \cup {None}

Admitting == [pc : ApiPcs, outcome : {"none", "created", "existing"},
              reserved : SomeRequest, stored : SomeRequest, answer : SomeRequest]
Session   == [stage : Stages, fence : Nat, exec : Nat]
StoredJob == [state : JobStates, owner : SomeRequest, attempts : Nat, stalls : Nat, lock : Nat]
Slot      == [pc : SlotPcs, job : Jobs \cup {None}, owner : SomeRequest, exec : Nat, fence : Nat,
              attempt : Nat, lost : BOOLEAN, outcome : {"none", "completed", "error", "unrecoverable"}]

QueueTypeOK ==
    /\ api \in [Requests -> Admitting]
    /\ session \in [Requests -> Session]
    /\ job \in [Jobs -> StoredJob]
    /\ worker \in [Workers -> Slot]
    /\ now \in Clock /\ faults \in Nat /\ crashes \in Nat /\ pauses \in Nat

(* Token t was drawn by a request for job id j. *)
Names(t, j) == t \in issued /\ KeyOf[t] = j

(* Wherever an admission token is kept, it is the token of a request for    *)
(* the job id it is kept under.                                             *)
RecordsNamed == \A j \in Jobs : records[j] # None => Names(records[j].token, j)
JobsNamed    == \A j \in Jobs : IF job[j].state = "none" THEN job[j].owner = None
                                ELSE Names(job[j].owner, j)
SlotsNamed   == \A w \in Workers : ~At(w, "idle") =>
                   /\ worker[w].job \in Jobs /\ Names(worker[w].owner, worker[w].job)
                   /\ worker[w].exec # 0

(* The reservation of a request is its own exactly if it created it, and a  *)
(* retained job it compares it with carries another one.                    *)
Reserved == {"add", "get", "state", "releaseTerminal", "adopt"}
Comparing == {"state", "releaseTerminal", "adopt"}

AdmittingNamed ==
    \A r \in Requests :
        /\ api[r].pc \in {"new", "reserve"} => r \notin issued
        /\ api[r].pc \in Reserved =>
              /\ Names(api[r].reserved, KeyOf[r])
              /\ api[r].outcome = IF api[r].reserved = r THEN "created" ELSE "existing"
        /\ api[r].pc \in Comparing => Names(api[r].stored, KeyOf[r]) /\ api[r].stored # api[r].reserved

(* A session that no execution may write carries no execution's token.      *)
SessionsClosed ==
    \A r \in Requests :
        /\ api[r].pc = "new" => session[r].stage = "none"
        /\ session[r].stage \in Terminal \cup {"none", "cleared"} => session[r].exec = 0

QueueInv ==
    /\ QueueTypeOK /\ IInv
    /\ RecordsNamed /\ JobsNamed /\ SlotsNamed /\ AdmittingNamed /\ SessionsClosed

-----------------------------------------------------------------------------
(* What a finite set is mapped to is finite.                                *)
LEMMA FiniteImage ==
  ASSUME NEW S, IsFiniteSet(S), NEW f
  PROVE  IsFiniteSet({f[x] : x \in S})
<1> DEFINE g == [x \in S |-> f[x]]
           T == {f[x] : x \in S}
<1>1. g \in Surjection(S, T)
  BY DEF Surjection
<1> QED BY <1>1, FS_Surjection

(* The number that CHOOSE takes for a new execution is one that nothing     *)
(* refers to: of one more number than are in use, one is free.              *)
LEMMA FreshExecIsFree ==
  FreshExec \in Nat \ {0} /\ FreshExec \notin ExecsInUse
<1> DEFINE E == ExecsInUse
           c == Cardinality(E)
           N == 1..(c + 1)
<1>1. IsFiniteSet(E) /\ c \in Nat
  <2>1. IsFiniteSet({session[r].exec : r \in Requests})
    <3> DEFINE f == [r \in Requests |-> session[r].exec]
    <3>1. {f[r] : r \in Requests} = {session[r].exec : r \in Requests}
      OBVIOUS
    <3>2. IsFiniteSet(Requests)
      BY RequestsAssumption
    <3> HIDE DEF f
    <3> QED BY <3>1, <3>2, FiniteImage
  <2>2. IsFiniteSet({job[j].lock : j \in Jobs})
    <3> DEFINE f == [j \in Jobs |-> job[j].lock]
    <3>1. {f[j] : j \in Jobs} = {job[j].lock : j \in Jobs}
      OBVIOUS
    <3> HIDE DEF f
    <3> QED BY <3>1, JobsAssumption, FiniteImage
  <2>3. IsFiniteSet({worker[w].exec : w \in Workers})
    <3> DEFINE f == [w \in Workers |-> worker[w].exec]
    <3>1. {f[w] : w \in Workers} = {worker[w].exec : w \in Workers}
      OBVIOUS
    <3>2. IsFiniteSet(Workers)
      BY QueueBoundsAssumption
    <3> HIDE DEF f
    <3> QED BY <3>1, <3>2, FiniteImage
  <2>4. IsFiniteSet({session[r].exec : r \in Requests} \cup {job[j].lock : j \in Jobs})
    BY <2>1, <2>2, FS_Union
  <2>5. IsFiniteSet(E)
    BY <2>3, <2>4, FS_Union DEF ExecsInUse
  <2> QED BY <2>5, FS_CardinalityType
<1> HIDE DEF E
<1>2. N \ E \in SUBSET Nat /\ N \ E # {}
  <2>1. ASSUME N \subseteq E PROVE FALSE
    <3>1. Cardinality(N) = c + 1
      BY <1>1, FS_Interval
    <3>2. Cardinality(N) <= c
      BY <1>1, <2>1, FS_Subset
    <3> HIDE DEF N, c
    <3> QED BY <1>1, <3>1, <3>2
  <2> QED BY <2>1, <1>1
<1>3. PICK m \in N \ E : \A k \in N \ E : m <= k
  <2> HIDE DEF N
  <2> QED BY <1>2, LeastNumber
<1>4. \A k \in 1..(m - 1) : k \in E
  <2> SUFFICES ASSUME NEW k \in 1..(m - 1), k \notin E PROVE FALSE
    OBVIOUS
  <2>1. m \in Nat /\ m <= c + 1
    BY <1>1, <1>3
  <2>2. k \in N /\ k < m
    BY <1>1, <2>1
  <2>3. m <= k
    BY <1>3, <2>2
  <2> QED BY <2>1, <2>2, <2>3
<1>5. FreshExec = CHOOSE n \in N : n \notin E /\ \A k \in 1..(n - 1) : k \in E
  BY DEF FreshExec, E
<1>6. FreshExec \in N /\ FreshExec \notin E
  <2> HIDE DEF N
  <2> QED BY <1>3, <1>4, <1>5
<1> QED BY <1>1, <1>6 DEF E

-----------------------------------------------------------------------------
(* Each script that the queue calls is a step of the store.                 *)
LEMMA Keys ==
  ASSUME NEW r \in Requests
  PROVE  KeyOf[r] \in Jobs /\ FpOf[r] \in Fingerprints /\ r \in Tokens /\ r \in SearchIds /\ r # None
BY RequestsAssumption

LEMMA ScriptIsStoreStep ==
  ASSUME QueueInv, NEW j \in Jobs, NEW token, NEW fence, NEW s, NEW fp \in Fingerprints,
         \/ Begin(j, token, now)
         \/ Renew(j, token, fence, now)
         \/ Release(j, token, fence)
         \/ ReleaseTerminal(j, token)
         \/ Adopt(j, token, s, s, fp, now)
  PROVE  StoreNext
<1>1. Holds(j, token)
  BY DEF Begin, Renew, Release, ReleaseTerminal, Adopt, HoldsFenced
<1>2. StoreTypeOK /\ now \in Clock
  BY DEF QueueInv, QueueTypeOK, IInv
<1>3. token \in Tokens /\ fences[j] \in 0..MaxFence
  BY <1>1, <1>2 DEF StoreTypeOK, Holds, Record
<1>4. StoreStep(j, now)
  <2>1. CASE Begin(j, token, now)
    BY <1>3, <2>1 DEF StoreStep
  <2>2. CASE Renew(j, token, fence, now)
    BY <1>3, <2>2 DEF StoreStep, Renew, HoldsFenced
  <2>3. CASE Release(j, token, fence)
    BY <1>3, <2>3 DEF StoreStep, Release, HoldsFenced
  <2>4. CASE ReleaseTerminal(j, token)
    BY <1>3, <2>4 DEF StoreStep
  <2>5. CASE Adopt(j, token, s, s, fp, now)
    <3>1. s \in Tokens /\ s \in SearchIds
      BY <1>2, <2>5, RequestsAssumption DEF Adopt, StoreTypeOK
    <3> QED BY <1>3, <2>5, <3>1 DEF StoreStep
  <2> QED BY <2>1, <2>2, <2>3, <2>4, <2>5
<1> QED BY <1>2, <1>4 DEF StoreNext

LEMMA ReserveIsStoreStep ==
  ASSUME QueueInv, NEW r \in Requests, Reserve(KeyOf[r], r, r, FpOf[r], now)
  PROVE  StoreNext
<1>1. now \in Clock
  BY DEF QueueInv, QueueTypeOK
<1>2. StoreStep(KeyOf[r], now)
  BY Keys DEF StoreStep
<1> QED BY <1>1, <1>2, Keys DEF StoreNext

(* Every step of the queue is a step of the store or leaves it alone.       *)
LEMMA QueueIsStoreStep == QueueInv /\ [QueueNext]_queueVars => [StoreNext]_storeVars
<1> SUFFICES ASSUME QueueInv, [QueueNext]_queueVars, ~UNCHANGED storeVars PROVE StoreNext
  OBVIOUS
<1>1. CASE UNCHANGED queueVars
  BY <1>1 DEF queueVars, storeVars
<1>2. ASSUME NEW r \in Requests, Web(r) \/ WebFault(r) PROVE StoreNext
  <2> USE Keys
  <2>1. CASE ReserveStep(r) \/ ReserveTimeout(r)
    BY <2>1, ReserveIsStoreStep DEF ReserveStep, ReserveTimeout, MayCommit
  <2>2. CASE ReleaseTerminalStep(r)
    BY <2>2, ScriptIsStoreStep DEF ReleaseTerminalStep
  <2>3. CASE AdoptStep(r)
    BY <2>3, ScriptIsStoreStep DEF AdoptStep, AdoptReservation
  <2>4. CASE RetainedTimeout(r)
    BY <2>4, ScriptIsStoreStep DEF RetainedTimeout, AdoptReservation, MayCommit
  <2>5. CASE UndoReservation(r)
    BY <2>5, ScriptIsStoreStep DEF UndoReservation, MayCommit
  <2>6. CASE \/ CreateSession(r) \/ AddJob(r) \/ GetJob(r) \/ GetState(r) \/ ClearOwnSession(r)
             \/ CreateTimeout(r) \/ AddTimeout(r) \/ ReadTimeout(r) \/ ClearTimeout(r) \/ WebCrash(r)
    BY <2>6 DEF CreateSession, AddJob, GetJob, GetState, ClearOwnSession, CreateTimeout, AddTimeout,
                ReadTimeout, ClearTimeout, WebCrash
  <2> QED BY <1>2, <2>1, <2>2, <2>3, <2>4, <2>5, <2>6 DEF Web, WebFault
<1>3. ASSUME NEW w \in Workers, Work(w) \/ Heartbeat(w) \/ WorkFault(w) PROVE StoreNext
  <2>1. ASSUME ~At(w, "idle") PROVE worker[w].job \in Jobs
    BY <2>1 DEF QueueInv, SlotsNamed
  <2>2. ASSUME ~At(w, "idle") PROVE \E r \in Requests : FpOf[r] \in Fingerprints
    BY <2>2, Keys, RequestsAssumption DEF QueueInv, SlotsNamed, Names, IInv, StoreTypeOK
  <2>4. CASE BeginStep(w) \/ BeginTimeout(w)
    BY <2>1, <2>2, <2>4, ScriptIsStoreStep DEF BeginStep, BeginTimeout, MayCommit, At
  <2>5. CASE AssertOwnership(w) \/ AssertTimeout(w) \/ RenewForRetry(w) \/ RenewTimeout(w) \/ Heartbeat(w)
    BY <2>1, <2>2, <2>5, ScriptIsStoreStep
    DEF AssertOwnership, AssertTimeout, RenewTimeout, RenewForRetry, Heartbeat, RenewOwned, MayCommit, At, Executing
  <2>6. CASE ReleaseStep(w) \/ ReleaseTimeout(w)
    BY SMTT(30), <2>1, <2>2, <2>6, ScriptIsStoreStep DEF ReleaseStep, ReleaseTimeout, MayCommit, At
  <2>7. CASE \/ \E j \in Jobs : Take(w, j)
             \/ ClaimStep(w) \/ SearchProviders(w) \/ Persist(w) \/ MarkRetry(w) \/ MarkFailed(w)
             \/ Finish(w) \/ ClaimTimeout(w) \/ PersistTimeout(w) \/ MarkTimeout(w) \/ WorkerCrash(w)
    BY <2>7 DEF Take, ClaimStep, SearchProviders, Persist, MarkRetry, MarkFailed, Finish, ClaimTimeout,
                PersistTimeout, MarkTimeout, WorkerCrash
  <2> QED BY <1>3, <2>4, <2>5, <2>6, <2>7 DEF Work, WorkFault
<1>4. ASSUME NEW j \in Jobs, Stall(j) \/ Retire(j) PROVE StoreNext
  BY <1>4 DEF Stall, Retire
<1>5. CASE Poll
  BY <1>5 DEF Poll, StoreNext, QueueInv, QueueTypeOK
<1>6. CASE Tick
  BY <1>6 DEF Tick
<1> QED BY <1>1, <1>2, <1>3, <1>4, <1>5, <1>6 DEF QueueNext

-----------------------------------------------------------------------------
(* What the web process does to its own record of a request r. *)
OthersSame(r) == \A q \in Requests \ {r} : api'[q] = api[q]

LEMMA GotoTyped ==
  ASSUME QueueTypeOK, NEW r \in Requests, NEW pc \in ApiPcs, Goto(r, pc)
  PROVE  /\ api' \in [Requests -> Admitting] /\ OthersSame(r)
         /\ api'[r].pc = pc /\ api'[r].outcome = api[r].outcome
         /\ api'[r].reserved = api[r].reserved /\ api'[r].stored = api[r].stored
         /\ api'[r].answer = api[r].answer
<1>1. api' \in [Requests -> Admitting]
  BY DEF QueueTypeOK, Goto, Admitting
<1>2. api[r] \in Admitting /\ api'[r] = [api[r] EXCEPT !.pc = pc] /\ OthersSame(r)
  BY DEF QueueTypeOK, Goto, OthersSame
<1> QED BY <1>1, <1>2 DEF Admitting

Ended(r, pc, s) ==
    /\ api' \in [Requests -> Admitting] /\ OthersSame(r)
    /\ api'[r].pc = pc /\ api'[r].outcome = "none" /\ api'[r].answer = s
    /\ api'[r].reserved = None /\ api'[r].stored = None

LEMMA EndTyped ==
  ASSUME QueueTypeOK, NEW r \in Requests, NEW pc \in ApiPcs, NEW s \in SomeRequest, End(r, pc, s)
  PROVE  Ended(r, pc, s)
<1> DEFINE x == [NewRequest EXCEPT !.pc = pc]
           y == [x EXCEPT !.answer = s]
<1>1. NewRequest \in Admitting
  BY DEF NewRequest, Admitting, ApiPcs, SomeRequest
<1>2. x \in Admitting /\ x.pc = pc /\ x.outcome = "none" /\ x.reserved = None /\ x.stored = None
  BY DEF NewRequest, Admitting, ApiPcs, SomeRequest
<1>3. y \in Admitting /\ y.pc = pc /\ y.outcome = "none" /\ y.answer = s
      /\ y.reserved = None /\ y.stored = None
  <2> HIDE DEF x
  <2> QED BY <1>2 DEF Admitting
<1>4. api' = [api EXCEPT ![r] = y]
  BY DEF End
<1> HIDE DEF y
<1> QED BY <1>3, <1>4 DEF QueueTypeOK, Ended, OthersSame

LEMMA AdmitErrorTyped ==
  ASSUME QueueTypeOK, NEW r \in Requests, AdmitError(r)
  PROVE  Ended(r, IF api[r].outcome = "created" THEN "undo" ELSE "clear", None)
BY EndTyped DEF AdmitError, ApiPcs, SomeRequest

LEMMA AnswerTyped ==
  ASSUME QueueTypeOK, NEW r \in Requests, NEW s \in Requests, Answer(r, s)
  PROVE  Ended(r, IF s = r THEN "answered" ELSE "dropOwn", s)
BY EndTyped DEF Answer, ApiPcs, SomeRequest

(* RESERVE's reply as ReserveStep stores it. *)
Reserving(r, o, t) ==
    /\ o = ReserveReply(KeyOf[r], FpOf[r], now)
    /\ t = IF o = "created" THEN r ELSE records[KeyOf[r]].token
    /\ api' \in [Requests -> Admitting] /\ OthersSame(r)
    /\ api'[r].pc = "add" /\ api'[r].outcome = o /\ api'[r].reserved = t

LEMMA ReserveTyped ==
  ASSUME QueueInv, NEW r \in Requests, ReserveStep(r)
  PROVE  \/ Goto(r, "clear") /\ ReserveReply(KeyOf[r], FpOf[r], now) \in {"full", "conflict"}
         \/ \E t \in Requests, o \in {"created", "existing"} : Reserving(r, o, t)
<1> DEFINE o == ReserveReply(KeyOf[r], FpOf[r], now)
           t == IF o = "created" THEN r ELSE records[KeyOf[r]].token
<1>1. CASE o \in {"full", "conflict"}
  BY <1>1 DEF ReserveStep
<1>2. CASE o \in {"created", "existing"}
  <2>1. api' = [api EXCEPT ![r].pc = "add", ![r].outcome = o, ![r].reserved = t]
    BY <1>2 DEF ReserveStep
  <2>2. api[r] \in Admitting /\ api \in [Requests -> Admitting]
    BY DEF QueueInv, QueueTypeOK
  <2>3. t \in Requests
    <3>1. CASE o = "created"
      BY <3>1
    <3>2. CASE o = "existing"
      <4>1. records[KeyOf[r]] # None
        BY <3>2 DEF ReserveReply
      <4>2. records[KeyOf[r]] \in Record
        BY <4>1, Keys DEF QueueInv, IInv, StoreTypeOK
      <4> QED BY <3>2, <4>2, RequestsAssumption DEF Record
    <3> QED BY <1>2, <3>1, <3>2
  <2> HIDE DEF o, t
  <2> DEFINE a == [api EXCEPT ![r].pc = "add"]
             b == [a EXCEPT ![r].outcome = o]
  <2>4. a \in [Requests -> Admitting] /\ a[r].pc = "add" /\ \A q \in Requests \ {r} : a[q] = api[q]
    BY <2>2 DEF Admitting, ApiPcs
  <2>5. b \in [Requests -> Admitting] /\ b[r].pc = "add" /\ b[r].outcome = o
        /\ \A q \in Requests \ {r} : b[q] = api[q]
    <3> HIDE DEF a
    <3> QED BY <1>2, <2>4 DEF Admitting
  <2>6. api' = [b EXCEPT ![r].reserved = t]
    BY <2>1
  <2>7. api' \in [Requests -> Admitting] /\ api'[r].pc = "add" /\ api'[r].outcome = o
        /\ api'[r].reserved = t /\ \A q \in Requests \ {r} : api'[q] = api[q]
    <3> HIDE DEF b
    <3> QED BY <2>3, <2>5, <2>6 DEF Admitting, SomeRequest
  <2>8. Reserving(r, o, t)
    BY <2>7 DEF Reserving, OthersSame, o, t
  <2> QED BY <1>2, <2>3, <2>8
<1>3. o \in {"created", "existing", "full", "conflict"}
  BY DEF ReserveReply
<1> QED BY <1>1, <1>2, <1>3

(* GetJob keeps a retained job's token to go on with. *)
Retained(r, s) ==
    /\ api' \in [Requests -> Admitting] /\ OthersSame(r)
    /\ api'[r].pc = "state" /\ api'[r].stored = s /\ api'[r].answer = api[r].answer
    /\ api'[r].outcome = api[r].outcome /\ api'[r].reserved = api[r].reserved

Keeps(r, s) == api' = [api EXCEPT ![r].pc = "state", ![r].stored = s]

LEMMA RetainedTyped ==
  ASSUME QueueTypeOK, NEW r \in Requests, NEW s \in Requests, Keeps(r, s)
  PROVE  Retained(r, s)
<1> DEFINE a == [api EXCEPT ![r].pc = "state"]
<1>1. /\ a \in [Requests -> Admitting] /\ a[r].pc = "state"
      /\ a[r].outcome = api[r].outcome /\ a[r].reserved = api[r].reserved /\ a[r].answer = api[r].answer
      /\ \A q \in Requests \ {r} : a[q] = api[q]
  BY DEF QueueTypeOK, Admitting, ApiPcs
<1>2. api' = [a EXCEPT ![r].stored = s]
  BY DEF Keeps
<1> HIDE DEF a
<1>3. api' \in [Requests -> Admitting]
  BY <1>1, <1>2 DEF Admitting, SomeRequest
<1>4. /\ api'[r].pc = "state" /\ api'[r].stored = s /\ api'[r].answer = api[r].answer
      /\ api'[r].outcome = api[r].outcome /\ api'[r].reserved = api[r].reserved
      /\ \A q \in Requests \ {r} : api'[q] = api[q]
  BY <1>1, <1>2 DEF Admitting
<1> QED BY <1>3, <1>4 DEF Retained, OthersSame

(* A job that is stored has an owner. *)
LEMMA StoredOwner ==
  ASSUME QueueInv, NEW j \in Jobs
  PROVE  /\ job[j].owner \in SomeRequest
         /\ job[j].owner # None => job[j].owner \in Requests /\ job[j].state # "none"
                                   /\ Names(job[j].owner, j)
         /\ job[j].state = "none" => job[j].owner = None
<1>1. job[j] \in StoredJob
  BY DEF QueueInv, QueueTypeOK
<1> QED BY <1>1, RequestsAssumption DEF QueueInv, JobsNamed, StoredJob, SomeRequest

(* What an admission in progress has read names requests.                   *)
LEMMA AdmittingRead ==
  ASSUME QueueInv, NEW r \in Requests
  PROVE  /\ api[r] \in Admitting
         /\ api[r].pc \in Reserved => api[r].reserved \in Requests
         /\ api[r].pc \in Comparing => api[r].stored \in Requests
BY RequestsAssumption DEF QueueInv, QueueTypeOK, AdmittingNamed, Names, IInv, StoreTypeOK

(* The request that takes a step is the only one whose record changes.      *)
LEMMA WebTyped ==
  ASSUME QueueInv, NEW r \in Requests, Web(r) \/ WebFault(r)
  PROVE  api' \in [Requests -> Admitting] /\ OthersSame(r) /\ api'[r].pc # "new"
<1> USE AdmittingRead
<1> DEFINE Goal == api' \in [Requests -> Admitting] /\ OthersSame(r) /\ api'[r].pc # "new"
<1>q. QueueTypeOK
  BY DEF QueueInv
<1>1. ASSUME NEW pc \in ApiPcs \ {"new"}, Goto(r, pc) PROVE Goal
  BY <1>1, <1>q, GotoTyped
<1>2. ASSUME NEW pc \in ApiPcs \ {"new"}, NEW s \in SomeRequest, End(r, pc, s) PROVE Goal
  BY <1>2, <1>q, EndTyped DEF Ended
<1>3. ASSUME AdmitError(r) PROVE Goal
  BY <1>3, <1>q, AdmitErrorTyped DEF Ended
<1>4. ASSUME NEW s \in Requests, Answer(r, s) PROVE Goal
  BY <1>4, <1>q, AnswerTyped DEF Ended
<1>5. CASE CreateSession(r) \/ ReserveTimeout(r) \/ AddJob(r) \/ UndoReservation(r)
  BY <1>1, <1>5 DEF CreateSession, ReserveTimeout, AddJob, UndoReservation, ApiPcs
<1>6. CASE AddTimeout(r) \/ ReadTimeout(r) \/ RetainedTimeout(r)
  BY <1>3, <1>6 DEF AddTimeout, ReadTimeout, RetainedTimeout
<1>7. CASE ReserveStep(r)
  BY <1>1, <1>7, ReserveTyped DEF Reserving, ApiPcs
<1>8. CASE GetJob(r)
  <2> DEFINE stored == job[KeyOf[r]].owner
  <2>1. CASE ~SamePayload(r, stored)
    BY <1>3, <1>8, <2>1 DEF GetJob
  <2>2. CASE SamePayload(r, stored)
    <3>1. stored \in Requests
      BY <2>2, Keys, StoredOwner DEF SamePayload
    <3>2. Answer(r, stored) \/ Keeps(r, stored)
      BY <1>8, <2>2 DEF GetJob, Keeps
    <3> HIDE DEF stored
    <3> QED BY <1>4, <1>q, <3>1, <3>2, RetainedTyped DEF Retained
  <2> QED BY <2>1, <2>2
<1>9. CASE GetState(r)
  BY <1>1, <1>3, <1>9 DEF GetState, ApiPcs
<1>10. CASE ReleaseTerminalStep(r) \/ AdoptStep(r)
  <2>1. api[r].stored \in Requests
    BY <1>10 DEF ReleaseTerminalStep, AdoptStep, Comparing
  <2> QED BY <1>3, <1>4, <1>10, <2>1 DEF ReleaseTerminalStep, AdoptStep
<1>11. CASE CreateTimeout(r) \/ ClearOwnSession(r) \/ ClearTimeout(r) \/ WebCrash(r)
  BY <1>1, <1>2, <1>11 DEF CreateTimeout, ClearOwnSession, ClearTimeout, WebCrash, ApiPcs, SomeRequest
<1> QED BY <1>5, <1>6, <1>7, <1>8, <1>9, <1>10, <1>11 DEF Web, WebFault

-----------------------------------------------------------------------------
(* What a slot's own steps do to it: it takes a job, is granted an          *)
(* execution, goes on with both, or is free again.                          *)
OtherSlotsSame(w) == \A v \in Workers \ {w} : worker'[v] = worker[v]

Running  == {"claim", "search", "assert", "persist", "retry", "renew", "fail"}
Claiming == {"search", "assert", "persist"}

Taken(w) ==
    \E j \in Jobs :
       /\ At(w, "idle") /\ job[j].state = "waiting"
       /\ job' = [job EXCEPT ![j].state = "active", ![j].lock = FreshExec]
       /\ worker'[w].pc = "begin" /\ worker'[w].job = j /\ worker'[w].owner = job[j].owner
       /\ worker'[w].exec = FreshExec

Granted(w) ==
    /\ At(w, "begin") /\ Begin(worker[w].job, worker[w].owner, now)
    /\ worker'[w].pc = "claim" /\ worker'[w].fence = fences[worker[w].job] + 1
    /\ worker'[w].job = worker[w].job /\ worker'[w].owner = worker[w].owner
    /\ worker'[w].exec = worker[w].exec

SameExecution(w) ==
    /\ worker'[w].job = worker[w].job /\ worker'[w].owner = worker[w].owner
    /\ worker'[w].exec = worker[w].exec /\ worker'[w].fence = worker[w].fence

GoesOn(w) ==
    /\ ~At(w, "idle") /\ worker'[w].pc # "idle"
    /\ SameExecution(w)
    /\ worker'[w].pc \in Running => worker[w].pc \in Running
    /\ worker'[w].pc \in Claiming =>
          \/ worker[w].pc \in Claiming /\ session' = session
          \/ At(w, "claim") /\ MayClaim(w) /\ session' = Claimed(w)

Freed(w) == worker'[w].pc = "idle"

LEMMA BecomeTyped ==
  ASSUME QueueTypeOK, NEW w \in Workers, NEW pc \in SlotPcs, Become(w, pc)
  PROVE  /\ worker' \in [Workers -> Slot] /\ OtherSlotsSame(w)
         /\ worker'[w].pc = pc /\ SameExecution(w)
<1>1. worker \in [Workers -> Slot] /\ worker[w] \in Slot
  BY DEF QueueTypeOK
<1>2. worker' \in [Workers -> Slot]
  BY <1>1, Zenon DEF Become, Slot
<1> QED BY <1>1, <1>2 DEF Become, Slot, OtherSlotsSame, SameExecution

Outcomes == {"none", "completed", "error", "unrecoverable"}

Marked(w, pc, outcome) == worker' = [worker EXCEPT ![w].pc = pc, ![w].outcome = outcome]

LEMMA MarkedTyped ==
  ASSUME QueueTypeOK, NEW w \in Workers, NEW pc \in {"finish", "release"}, NEW outcome \in Outcomes,
         Marked(w, pc, outcome)
  PROVE  /\ worker' \in [Workers -> Slot] /\ OtherSlotsSame(w)
         /\ worker'[w].pc = pc /\ SameExecution(w)
<1> DEFINE a == [worker EXCEPT ![w].pc = pc]
<1>1. /\ a \in [Workers -> Slot] /\ a[w].pc = pc
      /\ a[w].job = worker[w].job /\ a[w].owner = worker[w].owner
      /\ a[w].exec = worker[w].exec /\ a[w].fence = worker[w].fence
      /\ \A v \in Workers \ {w} : a[v] = worker[v]
  BY DEF QueueTypeOK, Slot, SlotPcs
<1>2. worker' = [a EXCEPT ![w].outcome = outcome]
  BY DEF Marked
<1> HIDE DEF a
<1>3. worker' \in [Workers -> Slot]
  BY <1>1, <1>2 DEF Slot, Outcomes
<1> QED BY <1>1, <1>2, <1>3 DEF Slot, OtherSlotsSame, SameExecution

Starts(w, n) == worker' = [worker EXCEPT ![w].pc = "claim", ![w].fence = n]

LEMMA GrantTyped ==
  ASSUME QueueTypeOK, NEW w \in Workers, NEW n \in Nat, Starts(w, n)
  PROVE  /\ worker' \in [Workers -> Slot] /\ OtherSlotsSame(w)
         /\ worker'[w].pc = "claim" /\ worker'[w].fence = n
         /\ worker'[w].job = worker[w].job /\ worker'[w].owner = worker[w].owner
         /\ worker'[w].exec = worker[w].exec
<1> DEFINE a == [worker EXCEPT ![w].pc = "claim"]
<1>1. /\ a \in [Workers -> Slot] /\ a[w].pc = "claim"
      /\ a[w].job = worker[w].job /\ a[w].owner = worker[w].owner /\ a[w].exec = worker[w].exec
      /\ \A v \in Workers \ {w} : a[v] = worker[v]
  BY DEF QueueTypeOK, Slot, SlotPcs
<1>2. worker' = [a EXCEPT ![w].fence = n]
  BY DEF Starts
<1> HIDE DEF a
<1>3. worker' \in [Workers -> Slot]
  BY <1>1, <1>2 DEF Slot
<1> QED BY <1>1, <1>2, <1>3 DEF Slot, OtherSlotsSame

LEMMA TakeTyped ==
  ASSUME QueueInv, NEW w \in Workers, NEW j \in Jobs, Take(w, j)
  PROVE  worker' \in [Workers -> Slot] /\ OtherSlotsSame(w) /\ Taken(w)
<1> DEFINE o == job[j].owner
           n == FreshExec
           t == job[j].attempts + 1
           s1 == [Idle EXCEPT !.pc = "begin"]
           s2 == [s1 EXCEPT !.job = j]
           s3 == [s2 EXCEPT !.owner = o]
           s4 == [s3 EXCEPT !.exec = n]
           s5 == [s4 EXCEPT !.attempt = t]
<1>1. o \in SomeRequest /\ n \in Nat /\ t \in Nat
  BY FreshExecIsFree, StoredOwner DEF QueueInv, QueueTypeOK, StoredJob
<1>2. worker' = [worker EXCEPT ![w] = s5]
  BY DEF Take
<1> HIDE DEF o, n, t
<1>3. s1 \in Slot /\ s1.pc = "begin"
  BY DEF Idle, Slot, SlotPcs, SomeRequest
<1>4. s2 \in Slot /\ s2.pc = "begin" /\ s2.job = j
  <2> HIDE DEF s1
  <2> QED BY <1>3 DEF Slot
<1>5. s3 \in Slot /\ s3.pc = "begin" /\ s3.job = j /\ s3.owner = o
  <2> HIDE DEF s2
  <2> QED BY <1>1, <1>4 DEF Slot
<1>6. s4 \in Slot /\ s4.pc = "begin" /\ s4.job = j /\ s4.owner = o /\ s4.exec = n
  <2> HIDE DEF s3
  <2> QED BY <1>1, <1>5 DEF Slot
<1>7. s5 \in Slot /\ s5.pc = "begin" /\ s5.job = j /\ s5.owner = o /\ s5.exec = n
  <2> HIDE DEF s4
  <2> QED BY <1>1, <1>6 DEF Slot
<1>8. worker' \in [Workers -> Slot] /\ OtherSlotsSame(w) /\ worker'[w] = s5
  <2> HIDE DEF s5
  <2> QED BY <1>2, <1>7 DEF QueueInv, QueueTypeOK, OtherSlotsSame
<1>9. worker'[w].pc = "begin" /\ worker'[w].job = j /\ worker'[w].owner = o /\ worker'[w].exec = n
  <2> HIDE DEF s5
  <2> QED BY <1>7, <1>8
<1> HIDE DEF s5
<1>10. At(w, "idle") /\ job[j].state = "waiting"
       /\ job' = [job EXCEPT ![j].state = "active", ![j].lock = FreshExec]
  BY DEF Take
<1> QED BY <1>8, <1>9, <1>10 DEF Taken, o, n

(* Every step of a slot is one of the four. *)
LEMMA WorkTyped ==
  ASSUME QueueInv, NEW w \in Workers, Work(w) \/ Heartbeat(w) \/ WorkFault(w)
  PROVE  /\ worker' \in [Workers -> Slot] /\ OtherSlotsSame(w)
         /\ Taken(w) \/ Granted(w) \/ GoesOn(w) \/ Freed(w)
<1> DEFINE Goal == /\ worker' \in [Workers -> Slot] /\ OtherSlotsSame(w)
                   /\ Taken(w) \/ Granted(w) \/ GoesOn(w) \/ Freed(w)
<1>q. QueueTypeOK
  BY DEF QueueInv
<1>0. /\ worker \in [Workers -> Slot] /\ Idle \in Slot /\ Idle.pc = "idle"
  BY <1>q DEF QueueTypeOK, Idle, Slot, SlotPcs, SomeRequest
<1>1. ASSUME ~At(w, "idle"), NEW pc \in {"finish", "release"}, NEW outcome \in Outcomes,
             Marked(w, pc, outcome)
      PROVE  Goal
  BY <1>1, <1>q, MarkedTyped DEF GoesOn, Running, Claiming
<1>2. ASSUME ~At(w, "idle"), NEW outcome \in Outcomes,
             Settle(w, outcome) \/ ReleaseThen(w, outcome)
      PROVE  Goal
  BY <1>1, <1>2 DEF Settle, ReleaseThen, Marked
<1>3. ASSUME ~At(w, "idle"), NEW pc \in {"retry", "renew", "fail", "release", "finish"}, Become(w, pc),
             pc \in Running => worker[w].pc \in Running
      PROVE  Goal
  BY <1>3, <1>q, BecomeTyped DEF GoesOn, Running, Claiming, SlotPcs
<1>4. ASSUME NEW pc \in Claiming, Become(w, pc), worker[w].pc \in Running,
             \/ worker[w].pc \in Claiming /\ session' = session
             \/ At(w, "claim") /\ MayClaim(w) /\ session' = Claimed(w)
      PROVE  Goal
  BY <1>4, <1>q, BecomeTyped DEF GoesOn, Running, Claiming, SlotPcs, At
<1>5. ASSUME worker[w].pc \in Running, CatchRetryable(w) PROVE Goal
  BY <1>3, <1>5 DEF CatchRetryable, At, Running
<1>6. ASSUME worker' = [worker EXCEPT ![w] = Idle] PROVE Goal
  BY <1>0, <1>6 DEF OtherSlotsSame, Freed
<1>7. ASSUME NEW j \in Jobs, Take(w, j) PROVE Goal
  BY <1>7, TakeTyped
<1>8. CASE BeginStep(w)
  <2>1. CASE Begin(worker[w].job, worker[w].owner, now) /\ Starts(w, fences[worker[w].job] + 1)
    <3>1. fences[worker[w].job] + 1 \in Nat
      BY <1>8, FenceAssumption DEF BeginStep, At, QueueInv, SlotsNamed, IInv, StoreTypeOK
    <3> QED BY <1>8, <1>q, <2>1, <3>1, GrantTyped DEF BeginStep, Granted
  <2>2. CASE Settle(w, "error")
    BY <1>2, <1>8, <2>2 DEF BeginStep, At, Outcomes
  <2> QED BY <1>8, <2>1, <2>2 DEF BeginStep, Starts
<1>9. CASE BeginTimeout(w)
  BY <1>2, <1>9 DEF BeginTimeout, At, Outcomes
<1>10. CASE ClaimStep(w)
  <2>1. At(w, "claim") /\ ~At(w, "idle") /\ worker[w].pc \in Running
    BY <1>10 DEF ClaimStep, At, Running
  <2>2. CASE MayClaim(w) /\ session' = Claimed(w) /\ Become(w, "search")
    BY <1>4, <2>1, <2>2 DEF Claiming
  <2>3. CASE ReleaseThen(w, "completed") \/ Settle(w, "unrecoverable")
    BY <1>2, <2>1, <2>3 DEF Outcomes
  <2>4. CASE Become(w, "fail")
    BY <1>3, <2>1, <2>4
  <2> QED BY <1>10, <2>2, <2>3, <2>4 DEF ClaimStep
<1>11. CASE ClaimTimeout(w) \/ PersistTimeout(w) \/ AssertTimeout(w)
  BY <1>5, <1>11 DEF ClaimTimeout, PersistTimeout, AssertTimeout, At, Running
<1>12. CASE SearchProviders(w)
  BY <1>3, <1>4, <1>5, <1>12 DEF SearchProviders, At, Running, Claiming
<1>13. CASE AssertOwnership(w)
  BY <1>2, <1>4, <1>13 DEF AssertOwnership, At, Running, Claiming, Outcomes
<1>14. CASE Persist(w) \/ MarkFailed(w)
  BY <1>2, <1>3, <1>14 DEF Persist, MarkFailed, At, Running, Outcomes
<1>15. CASE MarkRetry(w)
  BY <1>2, <1>3, <1>15 DEF MarkRetry, At, Running, Outcomes
<1>16. CASE RenewForRetry(w) \/ RenewTimeout(w) \/ MarkTimeout(w) \/ ReleaseTimeout(w)
  BY <1>2, <1>16 DEF RenewForRetry, RenewTimeout, MarkTimeout, ReleaseTimeout, At, Outcomes
<1>17. CASE ReleaseStep(w)
  BY <1>3, <1>17 DEF ReleaseStep, At, Running
<1>18. CASE Heartbeat(w)
  <2>1. CASE UNCHANGED worker
    BY <1>0, <1>18, <2>1 DEF Heartbeat, Executing, At, GoesOn, Running, Claiming, OtherSlotsSame, SameExecution
  <2>2. CASE worker' = [worker EXCEPT ![w].lost = TRUE]
    <3>1. worker' \in [Workers -> Slot]
      BY <1>0, <2>2, Zenon DEF Slot
    <3> QED BY <1>0, <1>18, <2>2, <3>1
            DEF Heartbeat, Executing, At, GoesOn, Running, Claiming, OtherSlotsSame, SameExecution, Slot
  <2> QED BY <1>18, <2>1, <2>2 DEF Heartbeat
<1>19. CASE Finish(w) \/ WorkerCrash(w)
  BY <1>6, <1>19 DEF Finish, WorkerCrash
<1> QED BY <1>7, <1>8, <1>9, <1>10, <1>11, <1>12, <1>13, <1>14, <1>15, <1>16, <1>17, <1>18, <1>19
        DEF Work, WorkFault

-----------------------------------------------------------------------------
(* What a step does to the sessions: a request makes or clears its own, an  *)
(* execution claims or writes the one of its job.                           *)
OtherSessionsSame(r) == \A q \in Requests \ {r} : session'[q] = session[q]

Made(r)      == api[r].pc = "new" /\ session'[r].stage = "queued" /\ session'[r].exec = session[r].exec
ClearedOf(r) == /\ api[r].pc \in {"clear", "dropOwn"}
                /\ session'[r].stage = "cleared" /\ session'[r].exec = 0

ClaimedBy(w, r) ==
    /\ At(w, "claim") /\ MayClaim(w)
    /\ session'[r].stage = "running" /\ session'[r].fence = worker[w].fence /\ session'[r].exec = worker[w].exec

WrittenBy(w, r) ==
    /\ worker[w].pc \in {"persist", "retry", "fail"} /\ SessionOwned(w)
    /\ session'[r].stage \in {"complete", "retrying", "failed"} /\ session'[r].fence = session[r].fence
    /\ session'[r].exec = IF session'[r].stage \in Terminal THEN 0 ELSE session[r].exec

LEMMA WebSession ==
  ASSUME QueueInv, NEW r \in Requests, Web(r) \/ WebFault(r)
  PROVE  /\ session' \in [Requests -> Session] /\ OtherSessionsSame(r)
         /\ \/ session'[r] = session[r]
            \/ (CreateSession(r) \/ CreateTimeout(r)) /\ Made(r)
            \/ (ClearOwnSession(r) \/ ClearTimeout(r)) /\ ClearedOf(r)
<1>0. session \in [Requests -> Session]
  BY DEF QueueInv, QueueTypeOK
<1>1. CASE UNCHANGED session
  BY <1>0, <1>1 DEF OtherSessionsSame
<1>2. CASE CreateSession(r) \/ CreateTimeout(r)
  <2>1. CASE session' = [session EXCEPT ![r].stage = "queued"]
    <3>1. api[r].pc = "new"
      BY <1>2 DEF CreateSession, CreateTimeout, MayStart
    <3> QED BY <1>0, <1>2, <2>1, <3>1 DEF Session, Stages, OtherSessionsSame, Made
  <2> QED BY <1>1, <1>2, <2>1 DEF CreateSession, CreateTimeout
<1>3. CASE /\ ClearOwnSession(r) \/ ClearTimeout(r)
           /\ session' = [session EXCEPT ![r] = [NoSession EXCEPT !.stage = "cleared"]]
  <2> DEFINE gone == [NoSession EXCEPT !.stage = "cleared"]
  <2>1. gone \in Session /\ gone.stage = "cleared" /\ gone.exec = 0
    BY DEF NoSession, Session, Stages
  <2>2. session' = [session EXCEPT ![r] = gone] /\ api[r].pc \in {"clear", "dropOwn"}
    BY <1>3 DEF ClearOwnSession, ClearTimeout
  <2> HIDE DEF gone
  <2> QED BY <1>0, <1>3, <2>1, <2>2 DEF OtherSessionsSame, ClearedOf
<1>4. CASE ClearOwnSession(r) \/ ClearTimeout(r)
  BY <1>1, <1>3, <1>4 DEF ClearOwnSession, ClearTimeout
<1>5. CASE ~(CreateSession(r) \/ CreateTimeout(r) \/ ClearOwnSession(r) \/ ClearTimeout(r))
  BY <1>1, <1>5 DEF Web, WebFault, ReserveStep, AddJob, GetJob, GetState, ReleaseTerminalStep, AdoptStep,
     UndoReservation, ReserveTimeout, AddTimeout, ReadTimeout, RetainedTimeout, WebCrash
<1> QED BY <1>2, <1>4, <1>5

LEMMA WrittenTyped ==
  ASSUME QueueInv, NEW w \in Workers, NEW stage \in {"complete", "retrying", "failed"},
         worker[w].pc \in {"persist", "retry", "fail"}, SessionOwned(w), session' = Written(w, stage)
  PROVE  LET r == worker[w].owner IN
         session' \in [Requests -> Session] /\ OtherSessionsSame(r) /\ WrittenBy(w, r)
<1> DEFINE r == worker[w].owner
           n == IF stage \in Terminal THEN 0 ELSE session[r].exec
           a == [session EXCEPT ![r].stage = stage]
<1>1. r \in Requests /\ session \in [Requests -> Session] /\ n \in Nat
  BY RequestsAssumption DEF QueueInv, QueueTypeOK, SlotsNamed, Names, At, IInv, StoreTypeOK, Session
<1>2. /\ a \in [Requests -> Session] /\ a[r].stage = stage /\ a[r].fence = session[r].fence
      /\ a[r].exec = session[r].exec /\ \A q \in Requests \ {r} : a[q] = session[q]
  BY <1>1 DEF Session, Stages, Terminal
<1>3. session' = [a EXCEPT ![r].exec = n]
  BY <1>2 DEF Written
<1> HIDE DEF a, n
<1>4. /\ session' \in [Requests -> Session] /\ session'[r].stage = stage
      /\ session'[r].fence = session[r].fence /\ session'[r].exec = n
      /\ \A q \in Requests \ {r} : session'[q] = session[q]
  BY <1>1, <1>2, <1>3 DEF Session
<1> QED BY <1>1, <1>4 DEF OtherSessionsSame, WrittenBy, n

LEMMA WorkSession ==
  ASSUME QueueInv, NEW w \in Workers, Work(w) \/ Heartbeat(w) \/ WorkFault(w)
  PROVE  LET r == worker[w].owner IN
         \/ session' = session
         \/ /\ r \in Requests /\ session' \in [Requests -> Session] /\ OtherSessionsSame(r)
            /\ ClaimedBy(w, r) \/ WrittenBy(w, r)
<1> DEFINE r == worker[w].owner
<1>1. ASSUME ~At(w, "idle") PROVE r \in Requests
  BY <1>1, RequestsAssumption DEF QueueInv, SlotsNamed, Names, IInv, StoreTypeOK
<1>2. ASSUME At(w, "claim"), MayClaim(w), session' = Claimed(w)
      PROVE  session' \in [Requests -> Session] /\ OtherSessionsSame(r) /\ ClaimedBy(w, r)
  <2> DEFINE new == [stage |-> "running", fence |-> worker[w].fence, exec |-> worker[w].exec]
  <2>1. r \in Requests /\ session \in [Requests -> Session] /\ worker[w] \in Slot
    BY <1>1, <1>2 DEF QueueInv, QueueTypeOK, At
  <2>2. new \in Session
    BY <2>1 DEF Slot, Session, Stages
  <2>3. session' = [session EXCEPT ![r] = new]
    BY <1>2 DEF Claimed
  <2>4. session' \in [Requests -> Session] /\ OtherSessionsSame(r) /\ session'[r] = new
    <3> HIDE DEF new
    <3> QED BY <2>1, <2>2, <2>3 DEF OtherSessionsSame
  <2> QED BY <1>2, <2>4 DEF ClaimedBy
<1>3. ASSUME NEW stage \in {"complete", "retrying", "failed"}, worker[w].pc \in {"persist", "retry", "fail"},
             SessionOwned(w), session' = Written(w, stage)
      PROVE  r \in Requests /\ session' \in [Requests -> Session] /\ OtherSessionsSame(r) /\ WrittenBy(w, r)
  BY <1>1, <1>3, WrittenTyped DEF At
<1>4. CASE ClaimStep(w) \/ ClaimTimeout(w)
  BY <1>1, <1>2, <1>4 DEF ClaimStep, ClaimTimeout, At
<1>5. CASE Persist(w) \/ PersistTimeout(w)
  BY <1>3, <1>5 DEF Persist, PersistTimeout, At
<1>6. CASE MarkRetry(w) \/ MarkFailed(w)
  BY <1>3, <1>6 DEF MarkRetry, MarkFailed, At
<1>7. CASE MarkTimeout(w)
  BY SMTT(30), <1>3, <1>7 DEF MarkTimeout, At
<1>8. CASE ~(\/ ClaimStep(w) \/ ClaimTimeout(w) \/ Persist(w) \/ PersistTimeout(w)
             \/ MarkRetry(w) \/ MarkFailed(w) \/ MarkTimeout(w))
  BY <1>8 DEF Work, Heartbeat, WorkFault, Take, BeginStep, SearchProviders, AssertOwnership, RenewForRetry,
     ReleaseStep, Finish, BeginTimeout, AssertTimeout, RenewTimeout, ReleaseTimeout, WorkerCrash
<1> QED BY <1>4, <1>5, <1>6, <1>7, <1>8

-----------------------------------------------------------------------------
(* What a step does to the jobs: it adds one, retires one, or moves one on  *)
(* without changing whose it is.                                            *)
OtherJobsSame(j) == \A k \in Jobs \ {j} : job'[k] = job[k]

OwnersSame ==
    \A j \in Jobs : job'[j].owner = job[j].owner /\ (job'[j].state = "none" <=> job[j].state = "none")

Added(r) ==
    LET j == KeyOf[r] IN
    /\ AddJob(r) \/ AddTimeout(r)
    /\ job[j].state = "none" /\ job'[j].state = "waiting" /\ job'[j].owner = api[r].reserved
    /\ OtherJobsSame(j)

Retired(j) ==
    /\ Retire(j) /\ job'[j].state = "none" /\ job'[j].owner = None /\ OtherJobsSame(j)

LEMMA AddTyped ==
  ASSUME QueueInv, NEW r \in Requests, AddJob(r) \/ AddTimeout(r)
  PROVE  job' \in [Jobs -> StoredJob] /\ (OwnersSame \/ Added(r))
<1> DEFINE j == KeyOf[r]
           o == api[r].reserved
           a == [NoJob EXCEPT !.state = "waiting"]
           b == [a EXCEPT !.owner = o]
<1>0. job \in [Jobs -> StoredJob] /\ j \in Jobs /\ o \in Requests
  BY Keys, AdmittingRead DEF QueueInv, QueueTypeOK, AddJob, AddTimeout, Reserved
<1>1. CASE job' = job
  BY <1>0, <1>1 DEF OwnersSame
<1>2. CASE job[j].state = "none" /\ job' = JobAdded(r)
  <2>1. job' = [job EXCEPT ![j] = b]
    BY <1>2 DEF JobAdded
  <2> HIDE DEF j, o
  <2>2. a \in StoredJob /\ a.state = "waiting"
    BY DEF NoJob, StoredJob, JobStates, SomeRequest
  <2>3. b \in StoredJob /\ b.state = "waiting" /\ b.owner = o
    <3> HIDE DEF a
    <3> QED BY <1>0, <2>2 DEF StoredJob, SomeRequest
  <2>4. job' \in [Jobs -> StoredJob] /\ job'[j] = b /\ OtherJobsSame(j)
    <3> HIDE DEF b
    <3> QED BY <1>0, <2>1, <2>3 DEF OtherJobsSame
  <2>5. job'[j].state = "waiting" /\ job'[j].owner = o
    <3> HIDE DEF b
    <3> QED BY <2>3, <2>4
  <2> QED BY <1>2, <2>4, <2>5 DEF Added, j, o
<1>3. job' = job \/ (job[j].state = "none" /\ job' = JobAdded(r))
  BY DEF AddJob, AddTimeout, JobAdded
<1> QED BY <1>1, <1>2, <1>3

(* A job whose owner stays, with new data. *)
SameOwners(g, h) ==
    /\ g \in [Jobs -> StoredJob]
    /\ \A j \in Jobs : g[j].owner = h[j].owner /\ (g[j].state = "none" <=> h[j].state = "none")

LEMMA FieldTyped ==
  ASSUME NEW h \in [Jobs -> StoredJob], NEW j \in Jobs, NEW n \in Nat,
         NEW state \in {"waiting", "active", "completed", "failed"}
  PROVE  /\ h[j].state # "none" => SameOwners([h EXCEPT ![j].state = state], h)
         /\ SameOwners([h EXCEPT ![j].lock = n], h)
         /\ SameOwners([h EXCEPT ![j].stalls = n], h)
         /\ SameOwners([h EXCEPT ![j].attempts = n], h)
BY DEF SameOwners, StoredJob, JobStates

LEMMA MoveTyped ==
  ASSUME QueueInv, NEW j \in Jobs,
         Stall(j) \/ \E w \in Workers : Take(w, j) \/ (Finish(w) /\ worker[w].job = j)
  PROVE  job' \in [Jobs -> StoredJob] /\ OwnersSame
<1>0. job \in [Jobs -> StoredJob] /\ job[j] \in StoredJob
  BY DEF QueueInv, QueueTypeOK
<1>1. ASSUME NEW g, SameOwners(g, job), job' = g PROVE job' \in [Jobs -> StoredJob] /\ OwnersSame
  BY <1>1 DEF SameOwners, OwnersSame
<1>2. ASSUME NEW g, NEW h, SameOwners(g, h), SameOwners(h, job) PROVE SameOwners(g, job)
  BY <1>2 DEF SameOwners
<1>3. ASSUME NEW w \in Workers, Take(w, j) PROVE job' \in [Jobs -> StoredJob] /\ OwnersSame
  <2> DEFINE n == FreshExec
             a == [job EXCEPT ![j].state = "active"]
             b == [a EXCEPT ![j].lock = n]
  <2>1. job' = b /\ job[j].state # "none"
    BY <1>3 DEF Take
  <2>2. n \in Nat
    BY FreshExecIsFree
  <2>3. SameOwners(a, job)
    BY <1>0, <2>1, FieldTyped
  <2> HIDE DEF n
  <2>4. SameOwners(b, a)
    <3>1. a \in [Jobs -> StoredJob]
      BY <2>3 DEF SameOwners
    <3> HIDE DEF a
    <3> QED BY <2>2, <3>1, FieldTyped
  <2> HIDE DEF a, b
  <2> QED BY <1>1, <1>2, <2>1, <2>3, <2>4
<1>4. CASE Stall(j)
  <2> DEFINE state == IF job[j].stalls < MaxStalled THEN "waiting" ELSE "failed"
             m == job[j].stalls + 1
             a == [job EXCEPT ![j].state = state]
             b == [a EXCEPT ![j].stalls = m]
             c == [b EXCEPT ![j].lock = 0]
  <2>1. job' = c /\ job[j].state # "none"
    BY <1>0, <1>4 DEF Stall, StoredJob
  <2>2. m \in Nat /\ state \in {"waiting", "failed"}
    BY <1>0 DEF StoredJob
  <2> HIDE DEF state, m
  <2>3. SameOwners(a, job)
    BY <1>0, <2>1, <2>2, FieldTyped
  <2>4. SameOwners(b, a)
    <3>1. a \in [Jobs -> StoredJob]
      BY <2>3 DEF SameOwners
    <3> HIDE DEF a
    <3> QED BY <2>2, <3>1, FieldTyped
  <2>5. SameOwners(c, b)
    <3>1. b \in [Jobs -> StoredJob]
      BY <2>4 DEF SameOwners
    <3> HIDE DEF b
    <3> QED BY <3>1, FieldTyped
  <2> HIDE DEF a, b, c
  <2> QED BY <1>1, <1>2, <2>1, <2>3, <2>4, <2>5
<1>5. ASSUME NEW w \in Workers, Finish(w), worker[w].job = j, job' # job
      PROVE  job' \in [Jobs -> StoredJob] /\ OwnersSame
  <2> DEFINE n == worker[w].attempt
             out == worker[w].outcome
             state == IF out = "completed" THEN "completed"
                      ELSE IF out = "error" /\ n < MaxAttempts THEN "waiting" ELSE "failed"
             a == [job EXCEPT ![j].state = state]
             b == [a EXCEPT ![j].lock = 0]
             c == [b EXCEPT ![j].attempts = n]
  <2>1. job' = c /\ job[j].state # "none"
    BY <1>5 DEF Finish
  <2>2. n \in Nat /\ state \in {"waiting", "completed", "failed"}
    BY DEF QueueInv, QueueTypeOK, Slot
  <2> HIDE DEF state, n
  <2>3. SameOwners(a, job)
    BY <1>0, <2>1, <2>2, FieldTyped
  <2>4. SameOwners(b, a)
    <3>1. a \in [Jobs -> StoredJob]
      BY <2>3 DEF SameOwners
    <3> HIDE DEF a
    <3> QED BY <2>2, <3>1, FieldTyped
  <2>5. SameOwners(c, b)
    <3>1. b \in [Jobs -> StoredJob]
      BY <2>4 DEF SameOwners
    <3> HIDE DEF b
    <3> QED BY <2>2, <3>1, FieldTyped
  <2> HIDE DEF a, b, c
  <2> QED BY <1>1, <1>2, <2>1, <2>3, <2>4, <2>5
<1>6. CASE job' = job
  BY <1>0, <1>6 DEF OwnersSame
<1> QED BY <1>3, <1>4, <1>5, <1>6

LEMMA RetireTyped ==
  ASSUME QueueInv, NEW j \in Jobs, Retire(j)
  PROVE  job' \in [Jobs -> StoredJob] /\ Retired(j)
<1>1. NoJob \in StoredJob /\ NoJob.state = "none" /\ NoJob.owner = None
  BY DEF NoJob, StoredJob, JobStates, SomeRequest
<1>2. job' = [job EXCEPT ![j] = NoJob] /\ job \in [Jobs -> StoredJob]
  BY DEF Retire, QueueInv, QueueTypeOK
<1>3. job' \in [Jobs -> StoredJob] /\ job'[j] = NoJob /\ OtherJobsSame(j)
  BY <1>1, <1>2 DEF OtherJobsSame
<1> QED BY <1>1, <1>3 DEF Retired

LEMMA JobStep ==
  QueueInv /\ QueueNext =>
     /\ job' \in [Jobs -> StoredJob]
     /\ OwnersSame \/ (\E r \in Requests : Added(r)) \/ (\E j \in Jobs : Retired(j))
<1> SUFFICES ASSUME QueueInv, QueueNext
             PROVE  /\ job' \in [Jobs -> StoredJob]
                    /\ OwnersSame \/ (\E r \in Requests : Added(r)) \/ (\E j \in Jobs : Retired(j))
  OBVIOUS
<1>1. CASE UNCHANGED job
  BY <1>1 DEF QueueInv, QueueTypeOK, OwnersSame
<1>2. ASSUME NEW r \in Requests, Web(r) \/ WebFault(r), job' # job
      PROVE  AddJob(r) \/ AddTimeout(r)
  BY <1>2 DEF Web, WebFault, CreateSession, ReserveStep, GetJob, GetState, ReleaseTerminalStep, AdoptStep,
     UndoReservation, ClearOwnSession, CreateTimeout, ReserveTimeout, ReadTimeout, RetainedTimeout, ClearTimeout, WebCrash
<1>3. ASSUME NEW w \in Workers, Work(w) \/ Heartbeat(w) \/ WorkFault(w), job' # job
      PROVE  (Finish(w) /\ worker[w].job \in Jobs) \/ \E j \in Jobs : Take(w, j)
  <2>1. Finish(w) \/ \E j \in Jobs : Take(w, j)
    BY <1>3 DEF Work, Heartbeat, WorkFault, BeginStep, ClaimStep, SearchProviders, AssertOwnership, Persist,
       MarkRetry, RenewForRetry, MarkFailed, ReleaseStep, BeginTimeout, ClaimTimeout, AssertTimeout, RenewTimeout,
       PersistTimeout, MarkTimeout, ReleaseTimeout, WorkerCrash
  <2>2. Finish(w) => worker[w].job \in Jobs
    BY DEF Finish, At, QueueInv, SlotsNamed
  <2> QED BY <2>1, <2>2
<1>4. CASE \E j \in Jobs : Retire(j)
  BY <1>4, RetireTyped
<1>5. CASE \E j \in Jobs : Stall(j)
  BY <1>5, MoveTyped
<1>6. CASE Poll \/ Tick
  BY <1>1, <1>6 DEF Poll, Tick
<1> QED BY <1>1, <1>2, <1>3, <1>4, <1>5, <1>6, AddTyped, MoveTyped DEF QueueNext

-----------------------------------------------------------------------------
(* What a step leaves in the records: a record keeps its token, though a    *)
(* begin may raise its fence; or it is new, or adopted, and starts at 0.    *)
Raised(j) == \E w \in Workers :
    /\ At(w, "begin") /\ worker[w].job = j /\ Holds(j, worker[w].owner)
    /\ BeginStep(w) \/ BeginTimeout(w)
    /\ fences'[j] = fences[j] + 1

KeptRecord(j) ==
    /\ records[j] # None /\ records'[j].token = records[j].token
    /\ fences'[j] = fences[j] \/ Raised(j)

NewRecord(j, r) ==
    /\ ReserveStep(r) \/ ReserveTimeout(r)
    /\ KeyOf[r] = j /\ r \notin issued /\ ReserveReply(j, FpOf[r], now) = "created"
    /\ records'[j].token = r /\ fences'[j] = 0

AdoptedRecord(j, r) ==
    /\ AdoptStep(r) \/ RetainedTimeout(r)
    /\ api[r].pc = "adopt" /\ KeyOf[r] = j /\ Holds(j, api[r].reserved)
    /\ records'[j].token = api[r].stored /\ fences'[j] = 0

RecordsStep ==
    /\ \A j \in Jobs : records'[j] # None =>
          KeptRecord(j) \/ \E r \in Requests : NewRecord(j, r) \/ AdoptedRecord(j, r)
    /\ issued' = issued \/ \E r \in Requests : (ReserveStep(r) \/ ReserveTimeout(r)) /\ issued' = issued \cup {r}

(* A script that only keeps, renews or removes records.                     *)
LEMMA QuietScript ==
  ASSUME QueueInv, NEW j \in Jobs, NEW token, NEW fence,
         \/ Renew(j, token, fence, now)
         \/ Release(j, token, fence)
         \/ ReleaseTerminal(j, token)
         \/ Snapshot(now)
         \/ UNCHANGED storeVars
  PROVE  RecordsStep
<1>0. records \in [Jobs -> Record \cup {None}] /\ fences \in [Jobs -> 0..MaxFence]
  BY DEF QueueInv, IInv, StoreTypeOK
<1>1. issued' = issued
  BY DEF Renew, Release, ReleaseTerminal, Remove, Snapshot, SweepOnly, storeVars
<1>2. ASSUME NEW k \in Jobs, records'[k] # None PROVE KeptRecord(k)
  <2>1. records'[k] = records[k] /\ fences'[k] = fences[k]
    BY <1>0, <1>2 DEF Renew, Release, ReleaseTerminal, Remove, Snapshot, SweepOnly, Swept, storeVars
  <2> QED BY <1>2, <2>1 DEF KeptRecord
<1> QED BY <1>1, <1>2 DEF RecordsStep

LEMMA ReserveScript ==
  ASSUME QueueInv, NEW r \in Requests, ReserveStep(r) \/ ReserveTimeout(r),
         Reserve(KeyOf[r], r, r, FpOf[r], now)
  PROVE  RecordsStep
<1> DEFINE j == KeyOf[r]
<1>0. records \in [Jobs -> Record \cup {None}] /\ fences \in [Jobs -> 0..MaxFence] /\ j \in Jobs
  BY Keys DEF QueueInv, IInv, StoreTypeOK
<1>1. issued' = issued \cup {r} /\ r \notin issued
  BY DEF Reserve, ReserveRejected, ReserveExisting, ReserveCreated, Draw
<1>2. ASSUME NEW k \in Jobs, records'[k] # None,
             records'[k] = Swept(records, now, None)[k], fences'[k] = Swept(fences, now, 0)[k]
      PROVE  KeptRecord(k)
  BY <1>0, <1>2 DEF KeptRecord, Swept
<1>3. CASE ReserveRejected(j, r, FpOf[r], now) \/ ReserveExisting(j, r, FpOf[r], now)
  BY <1>1, <1>2, <1>3 DEF ReserveRejected, ReserveExisting, RecordsStep
<1>4. CASE ReserveCreated(j, r, r, FpOf[r], now)
  <2>1. ASSUME NEW k \in Jobs \ {j}, records'[k] # None PROVE KeptRecord(k)
    <3>1. records'[k] = Swept(records, now, None)[k] /\ fences'[k] = Swept(fences, now, 0)[k]
      BY <1>4, <2>1 DEF ReserveCreated, Swept
    <3> QED BY <1>2, <2>1, <3>1
  <2>2. NewRecord(j, r)
    <3>1. ReserveReply(j, FpOf[r], now) = "created"
      BY <1>4 DEF ReserveCreated
    <3>2. records'[j].token = r
      BY <1>0, <1>4 DEF ReserveCreated, Swept
    <3>3. records[j] = None \/ j \in Lapsed(now)
      BY <3>1 DEF ReserveReply
    <3>4. fences'[j] = 0
      BY <1>0, <1>4, <3>3 DEF ReserveCreated, Swept, QueueInv, IInv, KeysAgree
    <3> QED BY <1>1, <3>1, <3>2, <3>4 DEF NewRecord
  <2> QED BY <1>1, <2>1, <2>2 DEF RecordsStep
<1> QED BY <1>3, <1>4 DEF Reserve

LEMMA AdoptScript ==
  ASSUME QueueInv, NEW r \in Requests, AdoptStep(r) \/ RetainedTimeout(r), api[r].pc = "adopt",
         Adopt(KeyOf[r], api[r].reserved, api[r].stored, api[r].stored, FpOf[r], now)
  PROVE  RecordsStep
<1> DEFINE j == KeyOf[r]
           s == api[r].stored
           new == [searchId |-> s, token |-> s, fp |-> FpOf[r]]
<1>0. records \in [Jobs -> Record \cup {None}] /\ fences \in [Jobs -> 0..MaxFence] /\ j \in Jobs
  BY Keys DEF QueueInv, IInv, StoreTypeOK
<1>1. issued' = issued /\ records' = [records EXCEPT ![j] = new] /\ fences' = [fences EXCEPT ![j] = 0]
      /\ Holds(j, api[r].reserved)
  BY DEF Adopt, HoldsFenced
<1>2. new.token = s
  OBVIOUS
<1>3. AdoptedRecord(j, r)
  <2> HIDE DEF new
  <2> QED BY <1>0, <1>1, <1>2 DEF AdoptedRecord
<1>4. ASSUME NEW k \in Jobs \ {j}, records'[k] # None PROVE KeptRecord(k)
  <2> HIDE DEF new
  <2> QED BY <1>0, <1>1, <1>4 DEF KeptRecord
<1> QED BY <1>1, <1>3, <1>4 DEF RecordsStep

LEMMA BeginScript ==
  ASSUME QueueInv, NEW w \in Workers, At(w, "begin"), BeginStep(w) \/ BeginTimeout(w),
         Begin(worker[w].job, worker[w].owner, now)
  PROVE  RecordsStep
<1> DEFINE j == worker[w].job
<1>0. fences \in [Jobs -> 0..MaxFence] /\ j \in Jobs
  BY DEF QueueInv, IInv, StoreTypeOK, SlotsNamed, At
<1>1. issued' = issued /\ records' = records /\ Holds(j, worker[w].owner)
      /\ fences' = [fences EXCEPT ![j] = @ + 1]
  BY DEF Begin
<1>2. Raised(j)
  BY <1>0, <1>1 DEF Raised
<1>3. ASSUME NEW k \in Jobs, records'[k] # None PROVE KeptRecord(k)
  BY <1>0, <1>1, <1>2, <1>3 DEF KeptRecord
<1> QED BY <1>1, <1>3 DEF RecordsStep

LEMMA EveryRecordsStep == QueueInv /\ QueueNext => RecordsStep
<1> SUFFICES ASSUME QueueInv, QueueNext PROVE RecordsStep
  OBVIOUS
<1> USE Keys
<1>1. CASE UNCHANGED storeVars
  <2>1. ASSUME NEW j \in Jobs, records'[j] # None PROVE KeptRecord(j)
    BY <1>1, <2>1 DEF KeptRecord, storeVars
  <2> QED BY <1>1, <2>1 DEF RecordsStep, storeVars
<1>2. ASSUME NEW r \in Requests, Web(r) \/ WebFault(r) PROVE RecordsStep
  <2>1. CASE ReserveStep(r) \/ ReserveTimeout(r)
    BY <1>1, <2>1, ReserveScript DEF ReserveStep, ReserveTimeout, MayCommit
  <2>2. CASE ReleaseTerminalStep(r)
    BY <1>1, <2>2, QuietScript DEF ReleaseTerminalStep
  <2>3. CASE AdoptStep(r)
    BY <1>1, <2>3, AdoptScript DEF AdoptStep, AdoptReservation
  <2>4. CASE RetainedTimeout(r)
    BY <1>1, <2>4, AdoptScript, QuietScript DEF RetainedTimeout, AdoptReservation, MayCommit
  <2>5. CASE UndoReservation(r)
    BY <1>1, <2>5, QuietScript DEF UndoReservation, MayCommit
  <2>6. CASE \/ CreateSession(r) \/ AddJob(r) \/ GetJob(r) \/ GetState(r) \/ ClearOwnSession(r)
             \/ CreateTimeout(r) \/ AddTimeout(r) \/ ReadTimeout(r) \/ ClearTimeout(r) \/ WebCrash(r)
    BY <1>1, <2>6 DEF CreateSession, AddJob, GetJob, GetState, ClearOwnSession, CreateTimeout, AddTimeout,
                ReadTimeout, ClearTimeout, WebCrash
  <2> QED BY SMTT(30), <1>2, <2>1, <2>2, <2>3, <2>4, <2>5, <2>6 DEF Web, WebFault
<1>3. ASSUME NEW w \in Workers, Work(w) \/ Heartbeat(w) \/ WorkFault(w) PROVE RecordsStep
  <2>1. ASSUME ~At(w, "idle") PROVE worker[w].job \in Jobs
    BY <2>1 DEF QueueInv, SlotsNamed
  <2>2. CASE BeginStep(w) \/ BeginTimeout(w)
    BY <1>1, <2>1, <2>2, BeginScript DEF BeginStep, BeginTimeout, MayCommit, At
  <2>3. CASE AssertOwnership(w) \/ AssertTimeout(w) \/ RenewForRetry(w) \/ RenewTimeout(w) \/ Heartbeat(w)
    BY <1>1, <2>1, <2>3, QuietScript
    DEF AssertOwnership, AssertTimeout, RenewTimeout, RenewForRetry, Heartbeat, RenewOwned, MayCommit, At, Executing
  <2>4. CASE ReleaseStep(w) \/ ReleaseTimeout(w)
    BY SMTT(30), <1>1, <2>1, <2>4, QuietScript DEF ReleaseStep, ReleaseTimeout, MayCommit, At
  <2>5. CASE \/ \E j \in Jobs : Take(w, j)
             \/ ClaimStep(w) \/ SearchProviders(w) \/ Persist(w) \/ MarkRetry(w) \/ MarkFailed(w)
             \/ Finish(w) \/ ClaimTimeout(w) \/ PersistTimeout(w) \/ MarkTimeout(w) \/ WorkerCrash(w)
    BY <1>1, <2>5 DEF Take, ClaimStep, SearchProviders, Persist, MarkRetry, MarkFailed, Finish, ClaimTimeout,
                PersistTimeout, MarkTimeout, WorkerCrash
  <2> QED BY <1>3, <2>2, <2>3, <2>4, <2>5 DEF Work, WorkFault
<1>4. ASSUME NEW j \in Jobs, Stall(j) \/ Retire(j) PROVE RecordsStep
  BY <1>1, <1>4 DEF Stall, Retire
<1>5. CASE Poll
  <2>1. CASE Jobs = {}
    BY <1>5, <2>1 DEF Poll, Snapshot, SweepOnly, RecordsStep
  <2> QED BY <1>5, <2>1, QuietScript DEF Poll
<1>6. CASE Tick
  BY <1>1, <1>6 DEF Tick
<1> QED BY <1>2, <1>3, <1>4, <1>5, <1>6 DEF QueueNext

-----------------------------------------------------------------------------
(* The invariant.  The store's part follows from the store's own proof.     *)
LEMMA InitQueueInv == QueueInit => QueueInv
<1> SUFFICES ASSUME QueueInit PROVE QueueInv
  OBVIOUS
<1>1. NewRequest \in Admitting /\ NewRequest.pc = "new"
  BY DEF NewRequest, Admitting, ApiPcs, SomeRequest
<1>2. NoSession \in Session /\ NoSession.stage = "none" /\ NoSession.exec = 0
  BY DEF NoSession, Session, Stages
<1>3. NoJob \in StoredJob /\ NoJob.state = "none" /\ NoJob.owner = None
  BY DEF NoJob, StoredJob, JobStates, SomeRequest
<1>4. Idle \in Slot /\ Idle.pc = "idle"
  BY DEF Idle, Slot, SlotPcs, SomeRequest
<1>5. QueueTypeOK
  BY <1>1, <1>2, <1>3, <1>4, QueueBoundsAssumption DEF QueueInit, QueueTypeOK
<1>6. IInv
  BY InitIInv DEF QueueInit
<1>7. RecordsNamed /\ JobsNamed /\ SlotsNamed
  BY <1>3, <1>4 DEF QueueInit, StoreInit, RecordsNamed, JobsNamed, SlotsNamed, At
<1>8. AdmittingNamed /\ SessionsClosed
  BY <1>1, <1>2 DEF QueueInit, StoreInit, AdmittingNamed, SessionsClosed, Reserved, Comparing
<1> QED BY <1>5, <1>6, <1>7, <1>8 DEF QueueInv

LEMMA StoreKept == QueueInv /\ [QueueNext]_queueVars => IInv' /\ [StoreNext]_storeVars
BY QueueIsStoreStep, StepIInv DEF QueueInv

(* Nobody forgets a token, and only the request that draws it learns it.    *)
LEMMA IssuedStep ==
  ASSUME QueueInv, QueueNext
  PROVE  /\ issued \subseteq issued' /\ IInv'
         /\ \A r \in Requests : ~(ReserveStep(r) \/ ReserveTimeout(r)) => (r \in issued' <=> r \in issued)
<1>1. RecordsStep /\ IInv'
  BY EveryRecordsStep, StoreKept
<1> QED BY <1>1 DEF RecordsStep

LEMMA RecordsNamedKept == QueueInv /\ QueueNext => RecordsNamed'
<1> SUFFICES ASSUME QueueInv, QueueNext, NEW j \in Jobs, records'[j] # None
             PROVE  Names(records[j].token, j)'
  BY DEF RecordsNamed
<1>1. RecordsStep /\ issued \subseteq issued' /\ records'[j].token \in issued'
  BY EveryRecordsStep, IssuedStep DEF IInv, StoredTokensIssued
<1>2. CASE KeptRecord(j)
  BY <1>1, <1>2 DEF KeptRecord, QueueInv, RecordsNamed, Names
<1>3. ASSUME NEW r \in Requests, NewRecord(j, r) PROVE Names(records[j].token, j)'
  BY <1>1, <1>3 DEF NewRecord, Names
<1>4. ASSUME NEW r \in Requests, AdoptedRecord(j, r) PROVE Names(records[j].token, j)'
  BY <1>1, <1>4 DEF AdoptedRecord, Names, QueueInv, AdmittingNamed, Comparing
<1> QED BY <1>1, <1>2, <1>3, <1>4 DEF RecordsStep

LEMMA JobsNamedKept == QueueInv /\ QueueNext => JobsNamed'
<1> SUFFICES ASSUME QueueInv, QueueNext, NEW j \in Jobs
             PROVE  IF job'[j].state = "none" THEN job'[j].owner = None ELSE Names(job[j].owner, j)'
  BY DEF JobsNamed
<1>1. issued \subseteq issued'
  BY IssuedStep
<1>2. JobsNamed
  BY DEF QueueInv
<1>3. CASE OwnersSame
  BY <1>1, <1>2, <1>3 DEF OwnersSame, JobsNamed, Names
<1>4. ASSUME NEW r \in Requests, Added(r)
      PROVE  IF job'[j].state = "none" THEN job'[j].owner = None ELSE Names(job[j].owner, j)'
  <2>1. Names(api[r].reserved, KeyOf[r])
    BY <1>4 DEF Added, AddJob, AddTimeout, QueueInv, AdmittingNamed, Reserved
  <2>2. CASE j = KeyOf[r]
    BY <1>1, <1>4, <2>1, <2>2 DEF Added, Names
  <2>3. CASE j # KeyOf[r]
    BY <1>1, <1>2, <1>4, <2>3 DEF Added, OtherJobsSame, JobsNamed, Names
  <2> QED BY <2>2, <2>3
<1>5. ASSUME NEW k \in Jobs, Retired(k)
      PROVE  IF job'[j].state = "none" THEN job'[j].owner = None ELSE Names(job[j].owner, j)'
  BY SMTT(30), <1>1, <1>2, <1>5 DEF Retired, OtherJobsSame, JobsNamed, Names
<1> QED BY <1>3, <1>4, <1>5, JobStep

LEMMA SlotsNamedKept == QueueInv /\ QueueNext => worker' \in [Workers -> Slot] /\ SlotsNamed'
<1> SUFFICES ASSUME QueueInv, QueueNext PROVE worker' \in [Workers -> Slot] /\ SlotsNamed'
  OBVIOUS
<1>1. issued \subseteq issued' /\ SlotsNamed
  BY IssuedStep DEF QueueInv
<1>2. CASE UNCHANGED worker
  BY <1>1, <1>2 DEF QueueInv, QueueTypeOK, SlotsNamed, Names, At
<1>3. ASSUME NEW w \in Workers, Work(w) \/ Heartbeat(w) \/ WorkFault(w)
      PROVE  worker' \in [Workers -> Slot] /\ SlotsNamed'
  <2>1. /\ worker' \in [Workers -> Slot] /\ OtherSlotsSame(w)
        /\ Taken(w) \/ Granted(w) \/ GoesOn(w) \/ Freed(w)
    BY <1>3, WorkTyped
  <2>2. ASSUME NEW v \in Workers \ {w}, ~At(v, "idle")'
        PROVE  worker'[v].job \in Jobs /\ Names(worker[v].owner, worker[v].job)' /\ worker'[v].exec # 0
    <3>1. worker'[v] = worker[v] /\ ~At(v, "idle")
      BY <2>1, <2>2 DEF OtherSlotsSame, At
    <3> QED BY <1>1, <3>1 DEF SlotsNamed, Names
  <2>3. ASSUME ~At(w, "idle")'
        PROVE  worker'[w].job \in Jobs /\ Names(worker[w].owner, worker[w].job)' /\ worker'[w].exec # 0
    <3>1. CASE Taken(w)
      <4>1. PICK j \in Jobs : /\ job[j].state = "waiting" /\ worker'[w].job = j
                              /\ worker'[w].owner = job[j].owner /\ worker'[w].exec = FreshExec
        BY <3>1 DEF Taken
      <4>2. Names(job[j].owner, j)
        BY <4>1 DEF QueueInv, JobsNamed
      <4> QED BY <1>1, <4>1, <4>2, FreshExecIsFree DEF Names
    <3>2. CASE Granted(w)
      BY <1>1, <3>2 DEF Granted, SlotsNamed, At, Names
    <3>3. CASE GoesOn(w)
      BY <1>1, <3>3 DEF GoesOn, SameExecution, SlotsNamed, At, Names
    <3> QED BY <2>1, <2>3, <3>1, <3>2, <3>3 DEF Freed, At
  <2> QED BY <2>1, <2>2, <2>3 DEF SlotsNamed
<1> QED BY <1>2, <1>3 DEF QueueNext, Web, WebFault, UnchangedByWeb, CreateSession, ReserveStep, AddJob, GetJob,
        GetState, ReleaseTerminalStep, AdoptStep, UndoReservation, ClearOwnSession, CreateTimeout, ReserveTimeout,
        AddTimeout, ReadTimeout, RetainedTimeout, ClearTimeout, WebCrash, Stall, Retire, Poll, Tick

(* Who may be in the middle of an admission, after a step of request r.     *)
AdmittingRow(r) ==
    /\ api[r].pc \in {"new", "reserve"} => r \notin issued
    /\ api[r].pc \in Reserved =>
          /\ Names(api[r].reserved, KeyOf[r])
          /\ api[r].outcome = IF api[r].reserved = r THEN "created" ELSE "existing"
    /\ api[r].pc \in Comparing => Names(api[r].stored, KeyOf[r]) /\ api[r].stored # api[r].reserved

LEMMA RowKept ==
  ASSUME QueueInv, QueueNext, NEW r \in Requests, Web(r) \/ WebFault(r)
  PROVE  AdmittingRow(r)'
<1>1. issued \subseteq issued' /\ IInv'
  BY IssuedStep
<1>2. AdmittingRow(r) /\ QueueTypeOK
  BY DEF QueueInv, AdmittingNamed, AdmittingRow
<1>3. ASSUME NEW pc \in ApiPcs, NEW s \in SomeRequest, Ended(r, pc, s),
             pc \in {"undo", "clear", "answered", "dropOwn", "failed", "crashed"}
      PROVE  AdmittingRow(r)'
  BY <1>3 DEF Ended, AdmittingRow, Reserved, Comparing
<1>4. ASSUME NEW pc \in {"clear", "answered"}, Goto(r, pc) PROVE AdmittingRow(r)'
  BY <1>2, <1>4, GotoTyped DEF AdmittingRow, Reserved, Comparing, ApiPcs
<1>5. ASSUME AdmitError(r) PROVE AdmittingRow(r)'
  BY <1>2, <1>3, <1>5, AdmitErrorTyped DEF ApiPcs, SomeRequest
<1>6. ASSUME NEW s \in Requests, Answer(r, s) PROVE AdmittingRow(r)'
  BY <1>2, <1>3, <1>6, AnswerTyped DEF ApiPcs, SomeRequest
<1>7. CASE CreateSession(r)
  <2>1. api'[r].pc = "reserve"
    BY <1>2, <1>7, GotoTyped DEF CreateSession, ApiPcs
  <2>2. r \notin issued' /\ api[r].pc = "new"
    BY <1>2, <1>7 DEF CreateSession, MayStart, AdmittingRow, storeVars
  <2> QED BY <2>1, <2>2 DEF AdmittingRow, Reserved, Comparing
<1>8. CASE ReserveStep(r)
  <2>1. r \notin issued
    BY <1>2, <1>8 DEF ReserveStep, AdmittingRow
  <2>2. ASSUME NEW t \in Requests, NEW o \in {"created", "existing"}, Reserving(r, o, t)
        PROVE  AdmittingRow(r)'
    <3>1. CASE o = "created"
      <4>1. t = r /\ r \in issued'
        BY <1>8, <2>2, <3>1
        DEF Reserving, ReserveStep, Reserve, ReserveRejected, ReserveExisting, ReserveCreated, Draw
      <4> QED BY <2>2, <3>1, <4>1 DEF Reserving, AdmittingRow, Reserved, Comparing, Names
    <3>2. CASE o = "existing"
      <4>1. t = records[KeyOf[r]].token /\ records[KeyOf[r]] # None
        BY <2>2, <3>2 DEF Reserving, ReserveReply
      <4>2. Names(t, KeyOf[r])
        BY <4>1, Keys DEF QueueInv, RecordsNamed
      <4>3. t # r
        BY <2>1, <4>2 DEF Names
      <4> QED BY <1>1, <2>2, <3>2, <4>2, <4>3 DEF Reserving, AdmittingRow, Reserved, Comparing, Names
    <3> QED BY <3>1, <3>2
  <2> QED BY <1>4, <1>8, <2>2, ReserveTyped
<1>9. CASE ReserveTimeout(r) \/ UndoReservation(r)
  BY <1>4, <1>9 DEF CreateTimeout, ReserveTimeout, UndoReservation
<1>10. CASE AddJob(r)
  <2>1. api[r].pc = "add" /\ Goto(r, "get")
    BY <1>10 DEF AddJob
  <2> QED BY <1>1, <1>2, <2>1, GotoTyped DEF AdmittingRow, Reserved, Comparing, ApiPcs, Names
<1>11. CASE GetJob(r)
  <2> DEFINE s == job[KeyOf[r]].owner
  <2>1. CASE ~SamePayload(r, s)
    BY <1>5, <1>11, <2>1 DEF GetJob
  <2>2. CASE SamePayload(r, s)
    <3>1. s \in Requests /\ Names(s, KeyOf[r])
      BY <2>2, Keys, StoredOwner DEF SamePayload
    <3>2. api[r].pc = "get" /\ IF s = api[r].reserved THEN Answer(r, s) ELSE Keeps(r, s)
      BY <1>11, <2>2 DEF GetJob, Keeps
    <3> HIDE DEF s
    <3>3. CASE s = api[r].reserved
      BY <1>6, <3>1, <3>2, <3>3
    <3>4. CASE s # api[r].reserved
      <4>1. Retained(r, s)
        BY <1>2, <3>1, <3>2, <3>4, RetainedTyped
      <4> QED BY <1>1, <1>2, <3>1, <3>2, <3>4, <4>1 DEF Retained, AdmittingRow, Reserved, Comparing, Names
    <3> QED BY <3>3, <3>4
  <2> QED BY <2>1, <2>2
<1>12. CASE GetState(r)
  <2>1. ASSUME NEW pc \in {"releaseTerminal", "adopt"}, Goto(r, pc) PROVE AdmittingRow(r)'
    BY <1>1, <1>2, <1>12, <2>1, GotoTyped DEF GetState, AdmittingRow, Reserved, Comparing, ApiPcs, Names
  <2> QED BY <1>5, <1>12, <2>1 DEF GetState
<1>13. CASE ReleaseTerminalStep(r) \/ AdoptStep(r)
  <2>1. api[r].stored \in Requests
    BY <1>13, AdmittingRead DEF ReleaseTerminalStep, AdoptStep, Comparing
  <2> QED BY <1>5, <1>6, <1>13, <2>1 DEF ReleaseTerminalStep, AdoptStep
<1>14. CASE AddTimeout(r) \/ ReadTimeout(r) \/ RetainedTimeout(r)
  BY <1>5, <1>14 DEF AddTimeout, ReadTimeout, RetainedTimeout
<1>15. CASE CreateTimeout(r) \/ ClearOwnSession(r) \/ ClearTimeout(r) \/ WebCrash(r)
  <2>1. ASSUME NEW pc \in {"failed", "clear", "crashed"}, End(r, pc, None) PROVE AdmittingRow(r)'
    BY <1>2, <1>3, <2>1, EndTyped DEF ApiPcs, SomeRequest
  <2> QED BY <1>4, <1>15, <2>1 DEF CreateTimeout, ClearOwnSession, ClearTimeout, WebCrash
<1> QED BY <1>7, <1>8, <1>9, <1>10, <1>11, <1>12, <1>13, <1>14, <1>15 DEF Web, WebFault

LEMMA AdmittingNamedKept ==
  QueueInv /\ QueueNext => api' \in [Requests -> Admitting] /\ AdmittingNamed'
<1> SUFFICES ASSUME QueueInv, QueueNext PROVE api' \in [Requests -> Admitting] /\ AdmittingNamed'
  OBVIOUS
<1>1. issued \subseteq issued' /\ AdmittingNamed
      /\ \A r \in Requests : ~(ReserveStep(r) \/ ReserveTimeout(r)) => (r \in issued' <=> r \in issued)
  BY IssuedStep DEF QueueInv
<1>2. ASSUME NEW q \in Requests, api'[q] = api[q], q \in issued' => q \in issued PROVE AdmittingRow(q)'
  BY <1>1, <1>2 DEF AdmittingNamed, AdmittingRow, Names
<1>3. ASSUME NEW r \in Requests, Web(r) \/ WebFault(r)
      PROVE  api' \in [Requests -> Admitting] /\ AdmittingNamed'
  <2>1. api' \in [Requests -> Admitting] /\ OthersSame(r) /\ AdmittingRow(r)'
    BY <1>3, WebTyped, RowKept
  <2>2. ASSUME NEW q \in Requests \ {r} PROVE AdmittingRow(q)'
    <3>1. api'[q] = api[q]
      BY <2>1 DEF OthersSame
    <3>2. CASE ~(ReserveStep(q) \/ ReserveTimeout(q))
      BY <1>1, <1>2, <3>1, <3>2
    <3>3. CASE ReserveStep(q) \/ ReserveTimeout(q)
      <4>1. api[q].pc = "reserve" /\ OthersSame(q)
        BY <3>3, WebTyped DEF ReserveStep, CreateTimeout, ReserveTimeout, Web, WebFault
      <4>2. api'[q].pc # "reserve"
        BY <3>3, GotoTyped, ReserveTyped DEF CreateTimeout, ReserveTimeout, Reserving, QueueInv, ApiPcs
      <4> QED BY SMTT(30), <3>1, <4>1, <4>2
    <3> QED BY <3>2, <3>3
  <2> QED BY <2>1, <2>2 DEF AdmittingNamed, AdmittingRow
<1>4. CASE UNCHANGED <<api, issued>>
  BY <1>1, <1>2, <1>4 DEF QueueInv, QueueTypeOK, AdmittingNamed, AdmittingRow
<1>5. ASSUME NEW w \in Workers, Work(w) \/ Heartbeat(w) \/ WorkFault(w) PROVE UNCHANGED <<api, issued>>
  <2>1. UNCHANGED api
    BY <1>5 DEF Work, Heartbeat, WorkFault, UnchangedByWorker, Take, BeginStep, ClaimStep, SearchProviders,
       AssertOwnership, Persist, MarkRetry, RenewForRetry, MarkFailed, ReleaseStep, Finish, BeginTimeout,
       ClaimTimeout, AssertTimeout, RenewTimeout, PersistTimeout, MarkTimeout, ReleaseTimeout, WorkerCrash
  <2>2. UNCHANGED issued
    BY <1>5 DEF Work, Heartbeat, WorkFault, Take, BeginStep, ClaimStep, SearchProviders,
       AssertOwnership, Persist, MarkRetry, RenewForRetry, MarkFailed, ReleaseStep, Finish, BeginTimeout,
       ClaimTimeout, AssertTimeout, RenewTimeout, PersistTimeout, MarkTimeout, ReleaseTimeout, WorkerCrash, storeVars,
       MayCommit, Begin, Renew, Release, Remove, RenewOwned
  <2> QED BY SMTT(30), <2>1, <2>2
<1>6. CASE (\E j \in Jobs : Stall(j) \/ Retire(j)) \/ Poll \/ Tick
  BY <1>6, <1>4 DEF Stall, Retire, Poll, Tick, UnchangedByEnvironment, storeVars, Snapshot, SweepOnly
<1> QED BY <1>3, <1>4, <1>5, <1>6 DEF QueueNext

(* What is not a step of a request leaves api alone; what is not one of a   *)
(* request or a slot leaves the sessions alone.                             *)
LEMMA ElseUnchanged ==
  ASSUME QueueNext
  PROVE  /\ (\E r \in Requests : Web(r) \/ WebFault(r)) \/ UNCHANGED api
         /\ \/ \E r \in Requests : Web(r) \/ WebFault(r)
            \/ \E w \in Workers : Work(w) \/ Heartbeat(w) \/ WorkFault(w)
            \/ UNCHANGED <<api, session, worker>>
<1>1. ASSUME NEW w \in Workers, Work(w) \/ Heartbeat(w) \/ WorkFault(w) PROVE UNCHANGED api
  BY <1>1 DEF Work, Heartbeat, WorkFault, UnchangedByWorker, Take, BeginStep, ClaimStep, SearchProviders,
     AssertOwnership, Persist, MarkRetry, RenewForRetry, MarkFailed, ReleaseStep, Finish, BeginTimeout,
     ClaimTimeout, AssertTimeout, RenewTimeout, PersistTimeout, MarkTimeout, ReleaseTimeout, WorkerCrash
<1>2. CASE (\E j \in Jobs : Stall(j) \/ Retire(j)) \/ Poll \/ Tick
  BY <1>2 DEF Stall, Retire, Poll, Tick, UnchangedByEnvironment
<1> QED BY SMTT(30), <1>1, <1>2 DEF QueueNext

LEMMA SessionsClosedKept ==
  QueueInv /\ QueueNext => session' \in [Requests -> Session] /\ SessionsClosed'
<1> SUFFICES ASSUME QueueInv, QueueNext PROVE session' \in [Requests -> Session] /\ SessionsClosed'
  OBVIOUS
<1>0. SessionsClosed /\ SlotsNamed /\ session \in [Requests -> Session]
  BY DEF QueueInv, QueueTypeOK
<1>1. ASSUME NEW r \in Requests, Web(r) \/ WebFault(r)
      PROVE  session' \in [Requests -> Session] /\ SessionsClosed'
  <2>1. /\ session' \in [Requests -> Session] /\ OtherSessionsSame(r)
        /\ session'[r] = session[r] \/ Made(r) \/ ClearedOf(r)
    BY <1>1, WebSession
  <2>2. OthersSame(r) /\ api'[r].pc # "new"
    BY <1>1, WebTyped
  <2>3. ASSUME NEW q \in Requests
        PROVE  /\ api'[q].pc = "new" => session'[q].stage = "none"
               /\ session'[q].stage \in Terminal \cup {"none", "cleared"} => session'[q].exec = 0
    <3>1. CASE q = r
      BY <1>0, <2>1, <2>2, <3>1 DEF SessionsClosed, Made, ClearedOf, Terminal
    <3>2. CASE q # r
      BY <1>0, <2>1, <2>2, <3>2 DEF SessionsClosed, OthersSame, OtherSessionsSame
    <3> QED BY <3>1, <3>2
  <2> QED BY <2>1, <2>3 DEF SessionsClosed
<1>2. ASSUME NEW w \in Workers, Work(w) \/ Heartbeat(w) \/ WorkFault(w)
      PROVE  session' \in [Requests -> Session] /\ SessionsClosed'
  <2> DEFINE r == worker[w].owner
  <2>1. UNCHANGED api
    BY <1>2 DEF Work, Heartbeat, WorkFault, UnchangedByWorker, Take, BeginStep, ClaimStep, SearchProviders,
       AssertOwnership, Persist, MarkRetry, RenewForRetry, MarkFailed, ReleaseStep, Finish, BeginTimeout,
       ClaimTimeout, AssertTimeout, RenewTimeout, PersistTimeout, MarkTimeout, ReleaseTimeout, WorkerCrash
  <2>2. CASE session' = session
    BY <1>0, <2>1, <2>2 DEF SessionsClosed
  <2>3. CASE /\ r \in Requests /\ session' \in [Requests -> Session] /\ OtherSessionsSame(r)
             /\ ClaimedBy(w, r) \/ WrittenBy(w, r)
    <3>1. ~At(w, "idle")
      BY <2>3 DEF ClaimedBy, WrittenBy, At
    <3>2. r \in issued /\ api[r].pc # "new"
      BY <1>0, <2>3, <3>1 DEF SlotsNamed, Names, QueueInv, AdmittingNamed
    <3>3. session'[r].stage # "none" /\ (session'[r].stage \in Terminal \cup {"cleared"} => session'[r].exec = 0)
      BY <2>3 DEF ClaimedBy, WrittenBy, Terminal
    <3> HIDE DEF r
    <3>4. ASSUME NEW q \in Requests
          PROVE  /\ api'[q].pc = "new" => session'[q].stage = "none"
                 /\ session'[q].stage \in Terminal \cup {"none", "cleared"} => session'[q].exec = 0
      BY <1>0, <2>1, <2>3, <3>2, <3>3 DEF SessionsClosed, OtherSessionsSame
    <3> QED BY <2>3, <3>4 DEF SessionsClosed
  <2> QED BY <1>2, <2>2, <2>3, WorkSession
<1>3. CASE UNCHANGED <<api, session, worker>>
  BY <1>0, <1>3 DEF SessionsClosed
<1> QED BY <1>1, <1>2, <1>3, ElseUnchanged

LEMMA NumbersKept ==
  QueueInv /\ QueueNext => now' \in Clock /\ faults' \in Nat /\ crashes' \in Nat /\ pauses' \in Nat
<1> SUFFICES ASSUME QueueInv, QueueNext
             PROVE  now' \in Clock /\ faults' \in Nat /\ crashes' \in Nat /\ pauses' \in Nat
  OBVIOUS
<1> DEFINE Goal == now' \in Clock /\ faults' \in Nat /\ crashes' \in Nat /\ pauses' \in Nat
<1>0. now \in Clock /\ faults \in Nat /\ crashes \in Nat /\ pauses \in Nat
  BY DEF QueueInv, QueueTypeOK
<1>1. ASSUME Fault \/ NoFault, UNCHANGED <<now, crashes, pauses>> PROVE Goal
  BY <1>0, <1>1 DEF Fault, NoFault
<1>2. ASSUME NoFault, crashes' = crashes + 1, UNCHANGED <<now, pauses>> PROVE Goal
  BY <1>0, <1>2 DEF NoFault
<1>3. ASSUME NEW r \in Requests, Web(r) \/ WebFault(r) PROVE Goal
  <2>1. CASE WebCrash(r)
    BY <1>2, <2>1 DEF WebCrash
  <2>2. CASE ~WebCrash(r)
    BY <1>1, <1>3, <2>2 DEF Web, WebFault, UnchangedByWeb, CreateSession, ReserveStep, AddJob, GetJob,
       GetState, ReleaseTerminalStep, AdoptStep, UndoReservation, ClearOwnSession, CreateTimeout, ReserveTimeout,
       AddTimeout, ReadTimeout, RetainedTimeout, ClearTimeout
  <2> QED BY <2>1, <2>2
<1>4. ASSUME NEW w \in Workers, Work(w) \/ Heartbeat(w) \/ WorkFault(w) PROVE Goal
  <2>1. CASE WorkerCrash(w)
    BY <1>2, <2>1 DEF WorkerCrash
  <2>2. CASE ~WorkerCrash(w)
    BY <1>1, <1>4, <2>2 DEF Work, Heartbeat, WorkFault, UnchangedByWorker, Take, BeginStep, ClaimStep,
       SearchProviders, AssertOwnership, Persist, MarkRetry, RenewForRetry, MarkFailed, ReleaseStep, Finish,
       BeginTimeout, ClaimTimeout, AssertTimeout, RenewTimeout, PersistTimeout, MarkTimeout, ReleaseTimeout
  <2> QED BY <2>1, <2>2
<1>5. ASSUME NEW j \in Jobs, Stall(j) \/ Retire(j) PROVE Goal
  BY <1>0, <1>5 DEF Stall, Retire, UnchangedByEnvironment
<1>6. CASE Poll \/ Tick
  BY <1>0, <1>6 DEF Poll, Tick, UnchangedByEnvironment
<1> QED BY <1>3, <1>4, <1>5, <1>6 DEF QueueNext

LEMMA QueueInvKept == QueueInv /\ [QueueNext]_queueVars => QueueInv'
<1> SUFFICES ASSUME QueueInv, [QueueNext]_queueVars PROVE QueueInv'
  OBVIOUS
<1>1. IInv'
  BY StoreKept
<1>2. CASE UNCHANGED queueVars
  BY <1>1, <1>2 DEF queueVars, storeVars, QueueInv, QueueTypeOK, RecordsNamed, JobsNamed, SlotsNamed,
     AdmittingNamed, SessionsClosed, Names, At
<1>3. CASE QueueNext
  <2>1. RecordsNamed' /\ JobsNamed' /\ SlotsNamed' /\ AdmittingNamed' /\ SessionsClosed'
    BY <1>3, RecordsNamedKept, JobsNamedKept, SlotsNamedKept, AdmittingNamedKept, SessionsClosedKept
  <2>2. QueueTypeOK'
    BY <1>3, SlotsNamedKept, AdmittingNamedKept, SessionsClosedKept, JobStep, NumbersKept DEF QueueTypeOK
  <2> QED BY <1>1, <2>1, <2>2 DEF QueueInv
<1> QED BY <1>2, <1>3

(* Whatever the web processes, BullMQ and the workers do, requests, jobs,   *)
(* slots and sessions hold what their code puts there, and every admission  *)
(* token is kept under the job id of the request that drew it.              *)
THEOREM QueueAlways == QueueSpec => []QueueInv
BY InitQueueInv, QueueInvKept, PTL DEF QueueSpec

(* The queue implements the admission store: to the store, every step of    *)
(* the web processes, of BullMQ and of the workers is one of its scripts,   *)
(* called with a job id, a token and a fencing number, or nothing.          *)
THEOREM QueueImplementsStore == QueueSpec => StoreSpec
<1>1. QueueInit => StoreInit
  BY DEF QueueInit
<1>2. QueueInv /\ [QueueNext]_queueVars => [StoreNext]_storeVars
  BY QueueIsStoreStep
<1> QED BY <1>1, <1>2, QueueAlways, PTL DEF QueueSpec, StoreSpec

(* So no crash, stall, lost reply or retry admits more than                 *)
(* maxAdmittedJobs searches at once, ...                                    *)
THEOREM QueueCapHolds == QueueSpec => []AdmissionCap
BY QueueImplementsStore, AdmissionCapHolds

(* ... leaves the three keys of the store in disagreement, ...              *)
THEOREM QueueKeysAgree == QueueSpec => []KeysAgree
BY QueueImplementsStore, StoreKeysAgree

(* ... or takes a fencing number back from the token it was granted under.  *)
THEOREM QueueFencesGrow == QueueSpec => FenceGrowsWithToken
BY QueueImplementsStore, FencesGrow

-----------------------------------------------------------------------------
(* The writes to a session. *)

(* The newest claim is the one in the session. *)
ClaimsOK ==
    \A v \in Workers : worker[v].pc \in {"search", "assert", "persist"} =>
        LET s == session[worker[v].owner] IN s.stage = "cleared" \/ s.fence >= worker[v].fence

(* What an execution that still owns its session finds there. *)
LEMMA OwnedSession ==
  ASSUME QueueInv, NEW w \in Workers, ~At(w, "idle")
  PROVE  LET r == worker[w].owner IN
         /\ r \in Requests /\ r \in issued /\ api[r].pc # "new"
         /\ SessionOwned(w) => session[r].stage \notin Terminal \cup {"none", "cleared"}
<1> DEFINE r == worker[w].owner
<1>1. r \in issued /\ worker[w].exec # 0
  BY DEF QueueInv, SlotsNamed, Names
<1>2. r \in Requests /\ api[r].pc # "new"
  BY <1>1, RequestsAssumption DEF QueueInv, IInv, StoreTypeOK, AdmittingNamed
<1>3. SessionOwned(w) => session[r].exec # 0
  BY <1>1 DEF SessionOwned
<1> QED BY <1>1, <1>2, <1>3 DEF QueueInv, SessionsClosed

(* A terminal or cleared session is only ever cleared.                      *)
LEMMA FinalStep ==
  ASSUME QueueInv, QueueNext, NEW r \in Requests, session[r].stage \in Terminal \cup {"cleared"}
  PROVE  session'[r].stage \in {session[r].stage, "cleared"}
<1>1. ASSUME NEW q \in Requests, Web(q) \/ WebFault(q)
      PROVE  session'[r].stage \in {session[r].stage, "cleared"}
  <2>1. /\ OtherSessionsSame(q)
        /\ session'[q] = session[q] \/ Made(q) \/ ClearedOf(q)
    BY <1>1, WebSession
  <2>2. Made(q) => q # r
    BY DEF Made, QueueInv, SessionsClosed, Terminal
  <2> QED BY <2>1, <2>2 DEF OtherSessionsSame, ClearedOf
<1>2. ASSUME NEW w \in Workers, Work(w) \/ Heartbeat(w) \/ WorkFault(w)
      PROVE  session'[r].stage \in {session[r].stage, "cleared"}
  <2> DEFINE q == worker[w].owner
  <2>1. \/ session' = session
        \/ q \in Requests /\ OtherSessionsSame(q) /\ (ClaimedBy(w, q) \/ WrittenBy(w, q))
    BY <1>2, WorkSession
  <2>2. ClaimedBy(w, q) => q # r
    BY DEF ClaimedBy, MayClaim
  <2>3. WrittenBy(w, q) => q # r
    BY OwnedSession DEF WrittenBy, At
  <2> HIDE DEF q
  <2> QED BY <2>1, <2>2, <2>3 DEF OtherSessionsSame
<1> QED BY <1>1, <1>2, ElseUnchanged

(* A search that has completed, failed or been cleared is never written     *)
(* again by an execution, however many attempts are still running.          *)
THEOREM TerminalsAreFinal == QueueSpec => TerminalIsFinal
<1> DEFINE Final == \A r \in Requests : session[r].stage \in Terminal \cup {"cleared"}
                       => session'[r].stage \in {session[r].stage, "cleared"}
<1>1. QueueInv /\ [QueueNext]_queueVars => [Final]_queueVars
  BY FinalStep
<1>2. QueueSpec => [][Final]_queueVars
  <2> HIDE DEF Final
  <2> QED BY <1>1, QueueAlways, PTL DEF QueueSpec
<1> QED BY <1>2 DEF TerminalIsFinal

(* Claims only ever move a session to a greater fencing number.             *)
LEMMA ClaimsKept == QueueInv /\ ClaimsOK /\ [QueueNext]_queueVars => ClaimsOK'
<1> SUFFICES ASSUME QueueInv, ClaimsOK, [QueueNext]_queueVars, NEW v \in Workers,
                    worker'[v].pc \in Claiming
             PROVE  LET s == session'[worker'[v].owner] IN s.stage = "cleared" \/ s.fence >= worker'[v].fence
  BY DEF ClaimsOK, Claiming
<1> DEFINE o == worker[v].owner
           Goal == LET s == session'[worker'[v].owner] IN s.stage = "cleared" \/ s.fence >= worker'[v].fence
<1>0. worker[v] \in Slot /\ session \in [Requests -> Session]
  BY DEF QueueInv, QueueTypeOK
<1>1. CASE UNCHANGED <<session, worker>>
  BY <1>1 DEF ClaimsOK, Claiming
<1>2. ASSUME NEW r \in Requests, Web(r) \/ WebFault(r) PROVE Goal
  <2>1. worker' = worker
    BY <1>2 DEF Web, WebFault, UnchangedByWeb, CreateSession, ReserveStep, AddJob, GetJob,
        GetState, ReleaseTerminalStep, AdoptStep, UndoReservation, ClearOwnSession, CreateTimeout, ReserveTimeout,
        AddTimeout, ReadTimeout, RetainedTimeout, ClearTimeout, WebCrash
  <2>2. o \in Requests /\ api[o].pc # "new"
    BY <2>1, OwnedSession DEF At, Claiming
  <2>3. /\ OtherSessionsSame(r)
        /\ session'[r] = session[r] \/ Made(r) \/ ClearedOf(r)
    BY <1>2, WebSession
  <2>4. session'[o] = session[o] \/ session'[o].stage = "cleared"
    BY <2>2, <2>3 DEF OtherSessionsSame, Made, ClearedOf
  <2> QED BY <2>1, <2>4 DEF ClaimsOK, Claiming
<1>3. ASSUME NEW w \in Workers, Work(w) \/ Heartbeat(w) \/ WorkFault(w) PROVE Goal
  <2>1. OtherSlotsSame(w) /\ (Taken(w) \/ Granted(w) \/ GoesOn(w) \/ Freed(w))
    BY <1>3, WorkTyped
  <2>2. LET r == worker[w].owner IN
        \/ session' = session
        \/ r \in Requests /\ OtherSessionsSame(r) /\ (ClaimedBy(w, r) \/ WrittenBy(w, r))
    BY <1>3, WorkSession
  <2>3. CASE v = w
    <3>1. GoesOn(w)
      BY <2>1, <2>3 DEF Taken, Granted, Freed, Claiming
    <3>2. worker'[v].owner = o /\ worker'[v].fence = worker[v].fence
      BY <2>3, <3>1 DEF GoesOn, SameExecution
    <3>3. CASE worker[w].pc \in Claiming /\ session' = session
      BY <2>3, <3>2, <3>3 DEF ClaimsOK, Claiming
    <3>4. CASE At(w, "claim") /\ MayClaim(w) /\ session' = Claimed(w)
      <4>1. o \in Requests
        BY <2>3, <3>4, OwnedSession DEF At
      <4>2. session'[o].fence = worker[v].fence
        BY <1>0, <2>3, <3>4, <4>1 DEF Claimed
      <4> QED BY <1>0, <3>2, <4>2 DEF Slot
    <3> QED BY <2>3, <3>1, <3>3, <3>4 DEF GoesOn
  <2>4. CASE v # w
    <3>1. worker'[v] = worker[v]
      BY <2>1, <2>4 DEF OtherSlotsSame
    <3>2. o \in Requests /\ (session[o].stage = "cleared" \/ session[o].fence >= worker[v].fence)
      BY <3>1, OwnedSession DEF ClaimsOK, Claiming, At
    <3>3. CASE session'[o] = session[o]
      BY <3>1, <3>2, <3>3
    <3>4. CASE o = worker[w].owner /\ ClaimedBy(w, o)
      <4>1. session[o].stage # "cleared" /\ worker[w].fence > session[o].fence
            /\ session'[o].fence = worker[w].fence
        BY <3>4 DEF ClaimedBy, MayClaim
      <4>2. worker[w] \in Slot /\ session[o] \in Session
        BY <3>2 DEF QueueInv, QueueTypeOK
      <4> QED BY <1>0, <3>1, <3>2, <4>1, <4>2 DEF Slot, Session
    <3>5. CASE o = worker[w].owner /\ WrittenBy(w, o)
      BY <3>1, <3>2, <3>5, OwnedSession DEF WrittenBy, At
    <3> QED BY <2>2, <3>2, <3>3, <3>4, <3>5 DEF OtherSessionsSame
  <2> QED BY <2>3, <2>4
<1> QED BY <1>1, <1>2, <1>3, ElseUnchanged DEF queueVars

(* The write of an execution that a later one has succeeded is refused.     *)
LEMMA LateStep ==
  ASSUME QueueInv, ClaimsOK, QueueNext, NEW w \in Workers, NEW v \in Workers, NEW r \in Requests,
         At(w, "persist") \/ At(w, "retry") \/ At(w, "fail"),
         worker'[w].pc # worker[w].pc, worker[w].owner = r,
         session'[r] # session[r], session'[r].stage # "cleared", v # w, Claimant(v, r)
  PROVE  worker[w].exec = session[r].exec /\ session[r].fence >= worker[v].fence
<1>1. api[r].pc # "new"
  BY OwnedSession DEF At
<1>2. ASSUME NEW q \in Requests, Web(q) \/ WebFault(q) PROVE FALSE
  BY <1>1, <1>2, WebSession DEF OtherSessionsSame, Made, ClearedOf
<1>3. Work(w) \/ Heartbeat(w) \/ WorkFault(w)
  <2>1. PICK u \in Workers : Work(u) \/ Heartbeat(u) \/ WorkFault(u)
    BY <1>2, ElseUnchanged
  <2> QED BY <2>1, WorkTyped DEF OtherSlotsSame
<1>4. WrittenBy(w, r)
  BY <1>3, WorkSession DEF ClaimedBy, At
<1>5. worker[w].exec = session[r].exec /\ session[r].stage # "cleared"
  BY <1>4, OwnedSession DEF WrittenBy, SessionOwned, At
<1>6. session[r].stage = "cleared" \/ session[r].fence >= worker[v].fence
  BY DEF ClaimsOK, Claimant
<1> QED BY <1>5, <1>6

(* No late result: the execution that writes a session is the newest one    *)
(* that has claimed it.                                                     *)
THEOREM LateResultsRefused == QueueSpec => NoLateResult
<1> DEFINE Timely ==
      \A w, v \in Workers : \A r \in Requests :
          (/\ At(w, "persist") \/ At(w, "retry") \/ At(w, "fail")
           /\ worker'[w].pc # worker[w].pc /\ worker[w].owner = r
           /\ session'[r] # session[r] /\ session'[r].stage # "cleared"
           /\ v # w /\ Claimant(v, r))
          => worker[w].exec = session[r].exec /\ session[r].fence >= worker[v].fence
<1>1. QueueInit => ClaimsOK
  BY DEF QueueInit, Idle, ClaimsOK
<1>2. QueueInv /\ ClaimsOK /\ [QueueNext]_queueVars => [Timely]_queueVars
  <2> SUFFICES ASSUME QueueInv, ClaimsOK, QueueNext PROVE Timely
    OBVIOUS
  <2> QED BY LateStep
<1>3. QueueSpec => [][Timely]_queueVars
  <2> HIDE DEF Timely
  <2> QED BY <1>1, <1>2, ClaimsKept, QueueAlways, PTL DEF QueueSpec
<1> QED BY <1>3 DEF NoLateResult

-----------------------------------------------------------------------------
(* The grants.  Executions of a job that only one request can have admitted *)
(* hold different fencing numbers, none greater than the record's.          *)
Rivals(v, w) == Executing(v) /\ Executing(w) /\ worker[v].owner = worker[w].owner

Granting(w) == Executing(w) /\ OnlyRequest(worker[w].owner)

FencesHeld ==
    \A w \in Workers : Granting(w) /\ Holds(worker[w].job, worker[w].owner)
                          => worker[w].fence <= fences[worker[w].job]

FencesDiffer ==
    \A v, w \in Workers : v # w /\ Granting(w) /\ Rivals(v, w) => worker[v].fence # worker[w].fence

(* A request that has begun never becomes new again. *)
LEMMA OnlyRequestBefore ==
  ASSUME QueueInv, QueueNext, NEW o \in Requests,
         \A q \in Requests \ {o} : KeyOf[q] = KeyOf[o] => api'[q].pc = "new"
  PROVE  OnlyRequest(o)
<1> SUFFICES ASSUME NEW q \in Requests \ {o}, KeyOf[q] = KeyOf[o] PROVE api[q].pc = "new"
  BY DEF OnlyRequest
<1>1. api'[q].pc = "new"
  OBVIOUS
<1>2. ASSUME NEW r \in Requests, Web(r) \/ WebFault(r) PROVE api[q].pc = "new"
  BY <1>1, <1>2, WebTyped DEF OthersSame
<1> QED BY <1>1, <1>2, ElseUnchanged

(* The record of the only request under its key is never made again: what   *)
(* is there now was there before, with no greater fence.                    *)
LEMMA OnlyRecordStep ==
  ASSUME QueueInv, QueueNext, NEW o \in Requests, o \in issued, OnlyRequest(o),
         NEW j \in Jobs, j = KeyOf[o], records'[j] # None, records'[j].token = o
  PROVE  Holds(j, o) /\ fences[j] \in Nat /\ fences'[j] \in Nat /\ fences[j] <= fences'[j]
<1>0. j \in Jobs /\ records'[j] # None /\ records'[j].token = o
  OBVIOUS
<1>1. fences[j] \in Nat /\ fences'[j] \in Nat
  BY <1>0, IssuedStep, FenceAssumption DEF QueueInv, IInv, StoreTypeOK
<1>2. CASE KeptRecord(j)
  <2>1. Holds(j, o)
    BY <1>0, <1>2 DEF KeptRecord, Holds
  <2>2. fences'[j] = fences[j] \/ fences'[j] = fences[j] + 1
    BY <1>2 DEF KeptRecord, Raised
  <2> QED BY <1>1, <2>1, <2>2
<1>3. ASSUME NEW r \in Requests, NewRecord(j, r) PROVE FALSE
  BY <1>0, <1>3 DEF NewRecord
<1>4. ASSUME NEW r \in Requests, AdoptedRecord(j, r) PROVE FALSE
  <2>1. r = o
    BY <1>4 DEF AdoptedRecord, OnlyRequest
  <2>2. api[o].pc \in Comparing /\ api[o].stored = o
    BY <1>0, <1>4, <2>1 DEF AdoptedRecord, Comparing
  <2>3. Names(api[o].reserved, j) /\ api[o].reserved # o
    BY <2>2 DEF QueueInv, AdmittingNamed, Comparing, Reserved
  <2>4. api[o].reserved \in Requests /\ api[api[o].reserved].pc # "new"
    BY <2>3, RequestsAssumption DEF Names, QueueInv, IInv, StoreTypeOK, AdmittingNamed
  <2> QED BY <2>3, <2>4 DEF OnlyRequest, Names
<1> QED BY <1>0, <1>1, <1>2, <1>3, <1>4, EveryRecordsStep DEF RecordsStep

(* An execution that runs after a step ran before it, or was just granted.  *)
LEMMA ExecutingBefore ==
  ASSUME QueueInv, QueueNext, NEW w \in Workers, Executing(w)'
  PROVE  \/ Executing(w) /\ SameExecution(w)
         \/ Granted(w) /\ OtherSlotsSame(w)
<1>1. worker'[w].pc \in Running
  BY DEF Executing, Running
<1>2. CASE worker'[w] = worker[w]
  BY <1>1, <1>2 DEF Executing, Running, SameExecution
<1>3. ASSUME NEW u \in Workers, Work(u) \/ Heartbeat(u) \/ WorkFault(u)
      PROVE  \/ worker'[w] = worker[w]
             \/ Executing(w) /\ SameExecution(w)
             \/ Granted(w) /\ OtherSlotsSame(w)
  <2>1. OtherSlotsSame(u) /\ (Taken(u) \/ Granted(u) \/ GoesOn(u) \/ Freed(u))
    BY <1>3, WorkTyped
  <2>2. CASE u = w
    BY <1>1, <2>1, <2>2 DEF Taken, GoesOn, Freed, Running, Executing
  <2>3. CASE u # w
    BY <2>1, <2>3 DEF OtherSlotsSame
  <2> QED BY <2>2, <2>3
<1>4. ASSUME NEW r \in Requests, Web(r) \/ WebFault(r) PROVE worker' = worker
  BY <1>4 DEF Web, WebFault, UnchangedByWeb, CreateSession, ReserveStep, AddJob, GetJob,
     GetState, ReleaseTerminalStep, AdoptStep, UndoReservation, ClearOwnSession, CreateTimeout, ReserveTimeout,
     AddTimeout, ReadTimeout, RetainedTimeout, ClearTimeout, WebCrash
<1> QED BY <1>2, <1>3, <1>4, ElseUnchanged

(* The owner of an execution is a request for its job. *)
LEMMA ExecutionOwner ==
  ASSUME QueueInv, NEW w \in Workers, ~At(w, "idle")
  PROVE  /\ worker[w].owner \in Requests /\ worker[w].owner \in issued
         /\ worker[w].job = KeyOf[worker[w].owner] /\ worker[w].job \in Jobs
         /\ worker[w].fence \in Nat /\ fences[worker[w].job] \in Nat
BY RequestsAssumption, FenceAssumption
DEF QueueInv, QueueTypeOK, SlotsNamed, Names, IInv, StoreTypeOK, Slot

LEMMA GrantsKept ==
  QueueInv /\ FencesHeld /\ FencesDiffer /\ [QueueNext]_queueVars => FencesHeld' /\ FencesDiffer'
<1> SUFFICES ASSUME QueueInv, FencesHeld, FencesDiffer, [QueueNext]_queueVars
             PROVE  FencesHeld' /\ FencesDiffer'
  OBVIOUS
<1>1. CASE UNCHANGED queueVars
  BY <1>1 DEF queueVars, storeVars, FencesHeld, FencesDiffer, Granting, Rivals, Executing, OnlyRequest, Holds
<1>2. CASE QueueNext
  <2>0. ASSUME NEW w \in Workers, Executing(w) \/ Executing(w)'
        PROVE  ~At(w, "idle") \/ ~At(w, "idle")'
    BY <2>0 DEF Executing, At
  <2>1. ASSUME NEW w \in Workers, Granting(w)'
        PROVE  \/ Granting(w) /\ SameExecution(w)
               \/ Granted(w) /\ OtherSlotsSame(w) /\ OnlyRequest(worker[w].owner)
    <3>1. worker'[w].owner \in Requests
      <4>1. QueueInv'
        BY <1>2, QueueInvKept
      <4> QED BY <4>1, <2>1, RequestsAssumption
              DEF Granting, Executing, QueueInv, SlotsNamed, Names, At, IInv, StoreTypeOK
    <3>2. OnlyRequest(worker'[w].owner)
      <4> PICK o \in Requests : o = worker'[w].owner
        BY <3>1
      <4>1. \A q \in Requests \ {o} : KeyOf[q] = KeyOf[o] => api'[q].pc = "new"
        BY <2>1 DEF Granting, OnlyRequest
      <4>2. OnlyRequest(o)
        BY <1>2, <4>1, OnlyRequestBefore
      <4> QED BY <4>2
    <3> QED BY <1>2, <2>1, <3>2, ExecutingBefore DEF Granting, SameExecution, Granted
  <2>2. FencesHeld'
    <3> SUFFICES ASSUME NEW w \in Workers, Granting(w)', Holds(worker[w].job, worker[w].owner)'
                 PROVE  worker'[w].fence <= fences'[worker'[w].job]
      BY DEF FencesHeld
    <3>1. CASE Granting(w) /\ SameExecution(w)
      <4>0. worker[w].owner \in Requests /\ worker[w].job \in Jobs
        BY <3>1, ExecutionOwner DEF Granting, Executing, At
      <4> PICK o \in Requests, j \in Jobs : o = worker[w].owner /\ j = worker[w].job
        BY <4>0
      <4>1. o \in issued /\ j = KeyOf[o] /\ worker[w].fence \in Nat /\ OnlyRequest(o)
        BY <3>1, ExecutionOwner DEF Granting, Executing, At
      <4>2. /\ records'[j] # None /\ records'[j].token = o
            /\ worker'[w].job = j /\ worker'[w].fence = worker[w].fence
        BY <3>1 DEF SameExecution, Holds
      <4>3. Holds(j, o) /\ fences[j] \in Nat /\ fences'[j] \in Nat /\ fences[j] <= fences'[j]
        BY <1>2, <4>1, <4>2, OnlyRecordStep
      <4>4. worker[w].fence <= fences[j]
        BY <3>1, <4>3 DEF FencesHeld
      <4> QED BY <4>1, <4>2, <4>3, <4>4
    <3>2. CASE Granted(w)
      <4>1. worker[w].job \in Jobs /\ fences \in [Jobs -> 0..MaxFence]
        BY <3>2, ExecutionOwner DEF Granted, At, QueueInv, IInv, StoreTypeOK
      <4>2. fences'[worker[w].job] = fences[worker[w].job] + 1
        BY <3>2, <4>1 DEF Granted, Begin
      <4> QED BY <3>2, <4>1, <4>2, FenceAssumption DEF Granted
    <3> QED BY <2>1, <3>1, <3>2
  <2>3. FencesDiffer'
    <3>1. ASSUME NEW v \in Workers, NEW w \in Workers, v # w, Rivals(v, w)', Granting(w)', Granted(w)
          PROVE  worker'[v].fence # worker'[w].fence
      <4> DEFINE o == worker[w].owner
                 j == worker[w].job
      <4>1. OtherSlotsSame(w) /\ OnlyRequest(o)
        BY <2>1, <3>1 DEF Granting, Granted, Executing, At
      <4>2. worker'[v] = worker[v] /\ worker'[w].owner = o /\ worker'[w].fence = fences[j] + 1
        BY <3>1, <4>1 DEF OtherSlotsSame, Granted
      <4>3. Executing(v) /\ worker[v].owner = o
        BY <3>1, <4>2 DEF Rivals, Executing
      <4>4. worker[v].job = j /\ worker[v].fence \in Nat /\ fences[j] \in Nat
        BY <3>1, <4>3, ExecutionOwner DEF Granted, Executing, At
      <4>5. Holds(j, o)
        BY <3>1 DEF Granted, Begin
      <4>6. worker[v].fence <= fences[j]
        BY <4>1, <4>3, <4>4, <4>5 DEF FencesHeld, Granting
      <4> QED BY <4>2, <4>4, <4>6
    <3>2. ASSUME NEW v \in Workers, NEW w \in Workers, v # w, Rivals(v, w)', Granting(w)'
          PROVE  worker'[v].fence # worker'[w].fence
      <4>1. Granting(v)' /\ Rivals(w, v)'
        BY <3>2 DEF Rivals, Granting
      <4>2. CASE Granted(w)
        BY <3>1, <3>2, <4>2
      <4>3. CASE Granted(v)
        BY <3>1, <3>2, <4>1, <4>3
      <4>4. CASE ~Granted(w) /\ ~Granted(v)
        <5>1. Granting(w) /\ SameExecution(w) /\ Granting(v) /\ SameExecution(v)
          BY <2>1, <3>2, <4>1, <4>4
        <5>2. Rivals(v, w)
          BY <3>2, <5>1 DEF Rivals, Granting, SameExecution
        <5> QED BY <3>2, <5>1, <5>2 DEF FencesDiffer, SameExecution
      <4> QED BY <4>2, <4>3, <4>4
    <3> QED BY <3>2 DEF FencesDiffer
  <2> QED BY <2>2, <2>3
<1> QED BY <1>1, <1>2

(* Two executions that run at the same time never hold the same grant, as   *)
(* long as no second request under the key can have adopted the admission.  *)
THEOREM GrantsDistinct == QueueSpec => []DistinctGrants
<1>1. QueueInit => FencesHeld /\ FencesDiffer
  BY DEF QueueInit, Idle, FencesHeld, FencesDiffer, Granting, Rivals, Executing
<1>2. FencesDiffer => DistinctGrants
  BY DEF FencesDiffer, DistinctGrants, Granting, Rivals
<1> QED BY <1>1, <1>2, GrantsKept, QueueAlways, PTL DEF QueueSpec

-----------------------------------------------------------------------------
(* In order.  While no reply is lost, whoever keeps an admission token      *)
(* keeps that of a request that stands behind it.                           *)
Stays(s) == session[s].stage \notin {"none", "cleared"}

(* Request s stands behind its token: it is admitting with a reservation of *)
(* its own, was answered with its own search, or died; its session is there.*)
Live(s) ==
    /\ Stays(s)
    /\ \/ api[s].pc \in Reserved \cup {"undo"} /\ api[s].outcome # "existing"
       \/ Told(s, s)
       \/ api[s].pc = "crashed"

Stands(s) == Live(s) /\ ~InProgress(s)

(* A request whose job is queued or executing only waits for its answer.    *)
OwnJobAdded(s) ==
    InProgress(s) => api[s].pc = "get" /\ api[s].reserved = s /\ job[KeyOf[s]].owner = s

OnePerKey   == \A q, r \in Requests : InProgress(q) /\ InProgress(r) /\ KeyOf[q] = KeyOf[r] => q = r
RecordsLive == \A j \in Jobs : records[j] # None => Live(records[j].token)
JobsLive    == \A j \in Jobs : job[j].state # "none" => Live(job[j].owner) /\ OwnJobAdded(job[j].owner)
SlotsLive   == \A w \in Workers : ~At(w, "idle") => OwnJobAdded(worker[w].owner)

(* What a request has read names requests that are done, and stand.         *)
Row(r) ==
    /\ InProgress(r) \/ Told(r, r) => Stays(r)
    /\ api[r].pc = "failed" => session[r].stage = "cleared"
    /\ api[r].pc \in Reserved /\ api[r].reserved # r => Stands(api[r].reserved)
    /\ api[r].pc \in Comparing => Stands(api[r].stored)
    /\ api[r].pc = "dropOwn" => api[r].answer # r
    /\ api[r].pc \in {"dropOwn", "answered"} /\ api[r].answer # r =>
          Names(api[r].answer, KeyOf[r]) /\ Stands(api[r].answer)

(* The admission of a request is begun only through its own job, so that an *)
(* undo finds it as it was reserved.                                        *)
Unbegun ==
    \A r \in Requests :
        InProgress(r) /\ Holds(KeyOf[r], r) /\ job[KeyOf[r]].owner # r => fences[KeyOf[r]] = 0

Ordered ==
    /\ OnePerKey /\ RecordsLive /\ JobsLive /\ SlotsLive /\ Unbegun
    /\ \A r \in Requests : Row(r)

InOrder == faults = 0 => Ordered

Moves(r) == Web(r) \/ WebFault(r)

LEMMA FaultsStep == QueueNext => faults' = faults \/ Fault
<1> SUFFICES ASSUME QueueNext PROVE faults' = faults \/ Fault
  OBVIOUS
<1>1. ASSUME NEW r \in Requests, Moves(r) PROVE faults' = faults \/ Fault
  BY <1>1 DEF Moves, Web, WebFault, CreateSession, ReserveStep, AddJob, GetJob, NoFault,
     GetState, ReleaseTerminalStep, AdoptStep, UndoReservation, ClearOwnSession, CreateTimeout, ReserveTimeout,
     AddTimeout, ReadTimeout, RetainedTimeout, ClearTimeout, WebCrash
<1>2. ASSUME NEW w \in Workers, Work(w) \/ Heartbeat(w) \/ WorkFault(w) PROVE faults' = faults \/ Fault
  BY <1>2 DEF Work, Heartbeat, WorkFault, NoFault, Take, BeginStep, ClaimStep,
     SearchProviders, AssertOwnership, Persist, MarkRetry, RenewForRetry, MarkFailed, ReleaseStep, Finish,
     BeginTimeout, ClaimTimeout, AssertTimeout, RenewTimeout, PersistTimeout, MarkTimeout, ReleaseTimeout, WorkerCrash
<1>3. CASE (\E j \in Jobs : Stall(j) \/ Retire(j)) \/ Poll \/ Tick
  BY <1>3 DEF Stall, Retire, Poll, Tick, UnchangedByEnvironment
<1> QED BY <1>1, <1>2, <1>3 DEF QueueNext, Moves

(* Only a request that has begun and has not ended moves. *)
LEMMA MoverPc ==
  ASSUME NEW r \in Requests, Moves(r)
  PROVE  /\ CreateSession(r) \/ CreateTimeout(r) \/ InProgress(r)
         /\ api[r].pc = "new" => CreateSession(r) \/ CreateTimeout(r)
BY DEF Moves, Web, WebFault, InProgress, MayStart, CreateSession, ReserveStep, AddJob, GetJob, GetState,
   ReleaseTerminalStep, AdoptStep, UndoReservation, ClearOwnSession, CreateTimeout, ReserveTimeout, AddTimeout,
   ReadTimeout, RetainedTimeout, ClearTimeout, WebCrash

LEMMA Bystander ==
  ASSUME QueueInv, QueueNext, NEW r \in Requests, ~Moves(r)
  PROVE  api'[r] = api[r]
<1>1. ASSUME NEW q \in Requests, Web(q) \/ WebFault(q) PROVE api'[r] = api[r]
  <2>1. q # r
    BY <1>1 DEF Moves
  <2> QED BY <1>1, <2>1, WebTyped DEF OthersSame
<1> QED BY <1>1, ElseUnchanged

(* A session stays until its own request clears it. *)
LEMMA StaysStep ==
  ASSUME QueueInv, QueueNext, NEW r \in Requests, Stays(r), ~ClearOwnSession(r), ~ClearTimeout(r)
  PROVE  Stays(r)'
<1>1. ASSUME NEW q \in Requests, Web(q) \/ WebFault(q) PROVE Stays(r)'
  <2>1. CASE q = r
    BY <1>1, <2>1, WebSession DEF Stays, Made
  <2>2. CASE q # r
    BY <1>1, <2>2, WebSession DEF Stays, OtherSessionsSame
  <2> QED BY <2>1, <2>2
<1>2. ASSUME NEW w \in Workers, Work(w) \/ Heartbeat(w) \/ WorkFault(w) PROVE Stays(r)'
  <2> DEFINE q == worker[w].owner
  <2>1. \/ session' = session
        \/ q \in Requests /\ OtherSessionsSame(q) /\ (ClaimedBy(w, q) \/ WrittenBy(w, q))
    BY <1>2, WorkSession
  <2> HIDE DEF q
  <2> QED BY <2>1 DEF Stays, OtherSessionsSame, ClaimedBy, WrittenBy
<1>3. CASE UNCHANGED <<api, session, worker>>
  BY <1>3 DEF Stays
<1> QED BY <1>1, <1>2, <1>3, ElseUnchanged

LEMMA LiveStep ==
  ASSUME QueueInv, QueueNext, NEW s \in Requests, Live(s), ~Moves(s)
  PROVE  Live(s)'
<1>1. api'[s] = api[s]
  BY Bystander
<1>2. Stays(s)'
  BY StaysStep DEF Live, Moves, Web, WebFault
<1> QED BY <1>1, <1>2 DEF Live, Told

LEMMA StandsStep ==
  ASSUME QueueInv, QueueNext, NEW s \in Requests, Stands(s)
  PROVE  Stands(s)'
<1>1. ~Moves(s)
  BY MoverPc DEF Stands, Live, Told, CreateSession, CreateTimeout, MayStart, Reserved, InProgress
<1>2. api'[s] = api[s]
  BY <1>1, Bystander
<1> QED BY <1>1, <1>2, LiveStep DEF Stands, InProgress

(* The job of a request that is in progress is not retired. *)
LEMMA JobStays ==
  ASSUME QueueInv, QueueNext, NEW o \in Requests, InProgress(o), job[KeyOf[o]].owner = o
  PROVE  job'[KeyOf[o]].owner = o
<1>1. KeyOf[o] \in Jobs /\ job[KeyOf[o]].state # "none"
  BY Keys, StoredOwner
<1>2. ASSUME NEW r \in Requests, Added(r) PROVE job'[KeyOf[o]].owner = o
  BY <1>1, <1>2 DEF Added, OtherJobsSame
<1>3. ASSUME NEW j \in Jobs, Retired(j) PROVE job'[KeyOf[o]].owner = o
  BY <1>1, <1>3 DEF Retired, Retire, OtherJobsSame
<1> QED BY <1>1, <1>2, <1>3, JobStep DEF OwnersSame

LEMMA AddedStep ==
  ASSUME QueueInv, QueueNext, NEW o \in Requests, OwnJobAdded(o), ~Moves(o)
  PROVE  OwnJobAdded(o)'
<1>1. api'[o] = api[o]
  BY Bystander
<1> QED BY <1>1, JobStays DEF OwnJobAdded, InProgress

(* What the mover knows of itself. *)
LEMMA MoverOutcome ==
  ASSUME QueueInv, NEW r \in Requests, api[r].pc \in Reserved
  PROVE  /\ api[r].outcome \in {"created", "existing"}
         /\ api[r].outcome = "created" <=> api[r].reserved = r
BY DEF QueueInv, AdmittingNamed

LEMMA NoFaultStep ==
  ASSUME NEW r \in Requests, Moves(r), ~Fault
  PROVE  \/ CreateSession(r) \/ ReserveStep(r) \/ AddJob(r) \/ GetJob(r) \/ GetState(r)
         \/ ReleaseTerminalStep(r) \/ AdoptStep(r) \/ UndoReservation(r) \/ ClearOwnSession(r) \/ WebCrash(r)
BY DEF Moves, Web, WebFault, CreateTimeout, ReserveTimeout, AddTimeout, ReadTimeout, RetainedTimeout, ClearTimeout

(* The tokens in the store and in BullMQ are those of requests that have    *)
(* begun.                                                                   *)
LEMMA NamedBegan ==
  ASSUME QueueInv, NEW r \in Requests, r \in issued, Moves(r)
  PROVE  InProgress(r)
BY MoverPc DEF QueueInv, AdmittingNamed, CreateSession, CreateTimeout, MayStart

(* What GetJob makes of the job it finds. *)
LEMMA GetJobCases ==
  ASSUME QueueInv, NEW r \in Requests, GetJob(r)
  PROVE  LET s == job[KeyOf[r]].owner IN
         \/ AdmitError(r) /\ s # r
         \/ s \in Requests /\ s = api[r].reserved /\ Answer(r, s)
         \/ s \in Requests /\ s # api[r].reserved /\ Keeps(r, s)
<1> DEFINE s == job[KeyOf[r]].owner
<1>1. SamePayload(r, s) => s \in Requests
  BY Keys, StoredOwner DEF SamePayload
<1>2. s = r => SamePayload(r, s)
  BY Keys DEF SamePayload
<1> QED BY <1>1, <1>2 DEF GetJob, Keeps

(* A mover whose job is queued or executing is told so, or dies. *)
LEMMA MoverQueued ==
  ASSUME QueueInv, QueueNext, Ordered, ~Fault, NEW r \in Requests, Moves(r), r \in issued, OwnJobAdded(r)
  PROVE  Live(r)' /\ ~InProgress(r)'
<1>1. InProgress(r) /\ api[r].pc = "get" /\ api[r].reserved = r /\ job[KeyOf[r]].owner = r
  BY SMTT(30), NamedBegan DEF OwnJobAdded
<1>2. GetJob(r) \/ WebCrash(r)
  BY <1>1, NoFaultStep DEF CreateSession, MayStart, ReserveStep, AddJob, GetState, ReleaseTerminalStep,
     AdoptStep, UndoReservation, ClearOwnSession
<1>3. Stays(r)'
  BY <1>1, StaysStep DEF Ordered, Row, ClearOwnSession, ClearTimeout
<1>4. CASE GetJob(r)
  <2>1. Answer(r, r)
    BY <1>1, <1>4, GetJobCases
  <2>2. Ended(r, "answered", r)
    BY <2>1, AnswerTyped DEF QueueInv
  <2> QED BY <1>3, <2>2 DEF Ended, Live, Told, InProgress
<1>5. CASE WebCrash(r)
  <2>1. Ended(r, "crashed", None)
    BY <1>5, EndTyped DEF WebCrash, ApiPcs, SomeRequest, QueueInv
  <2> QED BY <1>3, <2>1 DEF Ended, Live, Told, InProgress
<1> QED BY <1>2, <1>4, <1>5

(* Where a request ends up that gives up its admission. *)
LEMMA GivesUp ==
  ASSUME QueueInv, Ordered, NEW r \in Requests, AdmitError(r), api[r].pc \in Reserved, Live(r), Stays(r)'
  PROVE  Live(r)'
<1>1. api[r].outcome = "created"
  BY MoverOutcome DEF Live, Told, Reserved
<1>2. Ended(r, "undo", None)
  BY <1>1, AdmitErrorTyped DEF QueueInv
<1> QED BY <1>2 DEF Ended, Live

(* A mover that keeps its admission in the store still stands behind it. *)
LEMMA MoverHolds ==
  ASSUME QueueInv, QueueNext, Ordered, ~Fault, NEW r \in Requests, Moves(r), NEW j \in Jobs,
         Holds(j, r), records'[j] # None, records'[j].token = r
  PROVE  Live(r)'
<1>1. r \in issued /\ KeyOf[r] = j
  BY DEF Holds, QueueInv, RecordsNamed, Names
<1>2. InProgress(r) /\ Stays(r) /\ Live(r)
  BY <1>1, NamedBegan DEF Ordered, RecordsLive, Holds, Live
<1>3. api[r].pc \in Reserved \cup {"undo"} /\ api[r].outcome # "existing"
  BY <1>2 DEF Live, Told, InProgress
<1>4. Stays(r)'
  BY <1>2, <1>3, StaysStep DEF ClearOwnSession, ClearTimeout, Reserved
<1>5. CASE AddJob(r) \/ (GetState(r) /\ ~AdmitError(r))
  <2>1. \E pc \in {"get", "releaseTerminal", "adopt"} : Goto(r, pc)
    BY <1>5 DEF AddJob, GetState
  <2> QED BY <1>3, <1>4, <2>1, GotoTyped DEF QueueInv, ApiPcs, Live, Reserved
<1>6. CASE AdmitError(r) /\ api[r].pc \in Reserved
  BY <1>2, <1>4, <1>6, GivesUp
<1>7. CASE GetJob(r)
  <2> DEFINE s == job[KeyOf[r]].owner
  <2>0. api[r].pc \in Reserved /\ api[r].reserved = r
    BY <1>3, <1>7, MoverOutcome DEF GetJob, Reserved
  <2>1. CASE Answer(r, s) /\ s = api[r].reserved
    <3>1. Ended(r, "answered", r)
      BY <2>0, <2>1, AnswerTyped DEF QueueInv
    <3> QED BY <1>4, <3>1 DEF Ended, Live, Told
  <2>2. CASE s \in Requests /\ Keeps(r, s)
    <3>1. Retained(r, s)
      BY <2>2, RetainedTyped DEF QueueInv
    <3> QED BY <1>3, <1>4, <3>1 DEF Retained, Live, Reserved
  <2> HIDE DEF s
  <2> QED BY <1>6, <1>7, <2>0, <2>1, <2>2, GetJobCases DEF s
<1>8. CASE ReleaseTerminalStep(r)
  <2>1. ~(ReleaseTerminal(KeyOf[r], api[r].reserved) \/ (records[KeyOf[r]] = None /\ UNCHANGED storeVars))
    BY <1>1 DEF ReleaseTerminal, Remove, Holds, IInv, QueueInv, StoreTypeOK
  <2> QED BY <1>6, <1>8, <2>1 DEF ReleaseTerminalStep, Reserved
<1>9. CASE AdoptStep(r)
  <2>1. Stands(api[r].stored)
    BY <1>9 DEF AdoptStep, Ordered, Row, Comparing
  <2>2. api[r].stored # r
    BY <1>2, <2>1 DEF Stands
  <2>3. ASSUME HoldsFenced(KeyOf[r], api[r].reserved, 0) PROVE FALSE
    <3>1. Adopt(j, api[r].reserved, api[r].stored, api[r].stored, FpOf[r], now)
      BY <1>1, <1>9, <2>3 DEF AdoptStep, AdoptReservation
    <3>2. records'[j].token = api[r].stored
      BY <3>1 DEF Adopt, QueueInv, IInv, StoreTypeOK
    <3> QED BY <2>2, <3>2
  <2> QED BY <1>6, <1>9, <2>3 DEF AdoptStep, Reserved
<1>10. CASE UndoReservation(r)
  <2>1. job[j].owner # r
    <3>1. ASSUME job[j].owner = r PROVE OwnJobAdded(r)
      BY <3>1, Keys, StoredOwner DEF Ordered, JobsLive
    <3> QED BY <1>1, <1>2, <1>10, <3>1 DEF UndoReservation, OwnJobAdded
  <2>2. fences[j] = 0
    BY <1>1, <1>2, <2>1 DEF Ordered, Unbegun
  <2>3. Release(j, r, 0)
    BY <1>1, <1>10, <2>2 DEF UndoReservation, HoldsFenced
  <2>4. records'[j] = None
    BY <2>3 DEF Release, Remove, QueueInv, IInv, StoreTypeOK
  <2> QED BY <2>4
<1>11. CASE WebCrash(r)
  <2>1. Ended(r, "crashed", None)
    BY <1>11, EndTyped DEF WebCrash, ApiPcs, SomeRequest, QueueInv
  <2> QED BY <1>4, <2>1 DEF Ended, Live
<1>12. ~(CreateSession(r) \/ ReserveStep(r) \/ ClearOwnSession(r))
  BY <1>3 DEF CreateSession, MayStart, ReserveStep, ClearOwnSession, Reserved
<1>13. GetState(r) => api[r].pc \in Reserved
  BY DEF GetState, Reserved
<1> QED BY <1>5, <1>6, <1>7, <1>8, <1>9, <1>10, <1>11, <1>12, <1>13, NoFaultStep

(* Who an admission is made for, found under, or given to, stands behind it. *)
LEMMA RecordsLiveKept ==
  ASSUME QueueInv, QueueNext, Ordered, ~Fault
  PROVE  RecordsLive'
<1> SUFFICES ASSUME NEW j \in Jobs, records'[j] # None PROVE Live(records[j].token)'
  BY DEF RecordsLive
<1>1. CASE KeptRecord(j)
  <2>1. records[j].token \in issued /\ issued \subseteq Requests
    BY <1>1, RequestsAssumption DEF KeptRecord, QueueInv, RecordsNamed, Names, IInv, StoreTypeOK
  <2> PICK t \in Requests : t = records[j].token /\ t = records'[j].token
    BY <1>1, <2>1 DEF KeptRecord
  <2>2. Live(t) /\ Holds(j, t)
    BY <1>1 DEF Ordered, RecordsLive, KeptRecord, Holds
  <2>3. Live(t)'
    BY <2>2, LiveStep, MoverHolds
  <2> QED BY <2>3 DEF Live, Stays, Told
<1>2. ASSUME NEW r \in Requests, NewRecord(j, r) PROVE Live(records[j].token)'
  <2>1. ReserveStep(r) /\ ReserveReply(KeyOf[r], FpOf[r], now) = "created" /\ records'[j].token = r
    BY <1>2 DEF NewRecord, CreateTimeout, ReserveTimeout
  <2>2. api'[r].pc = "add" /\ api'[r].outcome = "created"
    BY <2>1, ReserveTyped DEF Reserving
  <2>3. Stays(r)
    BY <2>1 DEF ReserveStep, InProgress, Ordered, Row
  <2>4. Stays(r)'
    BY <2>1, <2>3, StaysStep DEF ReserveStep, ClearOwnSession, ClearTimeout
  <2>5. Live(r)'
    BY <2>2, <2>4 DEF Live, Reserved
  <2> QED BY <2>1, <2>5 DEF Live, Stays, Told
<1>3. ASSUME NEW r \in Requests, AdoptedRecord(j, r) PROVE Live(records[j].token)'
  <2>1. api[r].pc \in Comparing /\ records'[j].token = api[r].stored
    BY <1>3 DEF AdoptedRecord, Comparing
  <2> PICK s \in Requests : s = api[r].stored
    BY <2>1, AdmittingRead
  <2>2. Stands(s)
    BY <2>1 DEF Ordered, Row
  <2>3. Live(s)'
    BY <2>2, StandsStep DEF Stands
  <2> QED BY <2>1, <2>3 DEF Live, Stays, Told
<1> QED BY <1>1, <1>2, <1>3, EveryRecordsStep DEF RecordsStep

LEMMA JobsLiveKept ==
  ASSUME QueueInv, QueueNext, Ordered, ~Fault
  PROVE  JobsLive'
<1> SUFFICES ASSUME NEW j \in Jobs, job'[j].state # "none"
             PROVE  Live(job[j].owner)' /\ OwnJobAdded(job[j].owner)'
  BY DEF JobsLive
<1>1. ASSUME job'[j].owner = job[j].owner, job[j].state # "none"
      PROVE  Live(job[j].owner)' /\ OwnJobAdded(job[j].owner)'
  <2>1. job[j].owner \in issued /\ issued \subseteq Requests
    BY <1>1, RequestsAssumption DEF QueueInv, JobsNamed, Names, IInv, StoreTypeOK
  <2> PICK o \in Requests : o = job[j].owner /\ o = job'[j].owner
    BY <1>1, <2>1
  <2>2. Live(o) /\ OwnJobAdded(o) /\ o \in issued
    BY <1>1, <2>1 DEF Ordered, JobsLive
  <2>3. Live(o)' /\ OwnJobAdded(o)'
    <3>1. CASE Moves(o)
      BY <2>2, <3>1, MoverQueued DEF OwnJobAdded
    <3>2. CASE ~Moves(o)
      BY <2>2, <3>2, LiveStep, AddedStep
    <3> QED BY <3>1, <3>2
  <2> QED BY <2>3 DEF Live, Stays, Told, OwnJobAdded, InProgress
<1>2. ASSUME NEW r \in Requests, Added(r), KeyOf[r] = j
      PROVE  Live(job[j].owner)' /\ OwnJobAdded(job[j].owner)'
  <2>1. AddJob(r) /\ job'[j].owner = api[r].reserved /\ api[r].pc = "add"
    BY <1>2 DEF Added, AddTimeout, AddJob
  <2> PICK o \in Requests : o = api[r].reserved
    BY <2>1, AdmittingRead DEF Reserved
  <2>2. CASE o = r
    <3>1. api'[r].pc = "get" /\ api'[r].outcome = "created" /\ api'[r].reserved = r
      BY <2>1, <2>2, GotoTyped, MoverOutcome DEF QueueInv, AddJob, ApiPcs, Reserved
    <3>2. Stays(r)'
      BY <2>1, StaysStep DEF Ordered, Row, InProgress, ClearOwnSession, ClearTimeout
    <3>3. Live(r)' /\ OwnJobAdded(r)'
      BY <1>2, <2>1, <2>2, <3>1, <3>2 DEF Live, OwnJobAdded, Reserved
    <3> QED BY <2>1, <2>2, <3>3 DEF Live, Stays, Told, OwnJobAdded, InProgress
  <2>3. CASE o # r
    <3>1. Stands(o)
      BY <2>1, <2>3 DEF Ordered, Row, Reserved
    <3>2. Live(o)' /\ ~InProgress(o)'
      BY <3>1, StandsStep DEF Stands
    <3> QED BY <2>1, <3>2 DEF Live, Stays, Told, OwnJobAdded, InProgress
  <2> QED BY <2>2, <2>3
<1>3. ASSUME NEW r \in Requests, Added(r), KeyOf[r] # j PROVE job'[j] = job[j]
  BY <1>3 DEF Added, OtherJobsSame
<1>4. ASSUME NEW k \in Jobs, Retired(k) PROVE job'[j] = job[j]
  BY <1>4 DEF Retired, OtherJobsSame
<1> QED BY <1>1, <1>2, <1>3, <1>4, JobStep DEF OwnersSame

LEMMA SlotsLiveKept ==
  ASSUME QueueInv, QueueNext, Ordered, ~Fault
  PROVE  SlotsLive'
<1> SUFFICES ASSUME NEW w \in Workers, ~At(w, "idle")' PROVE OwnJobAdded(worker[w].owner)'
  BY DEF SlotsLive
<1>1. ASSUME NEW o \in Requests, o \in issued, OwnJobAdded(o), worker'[w].owner = o
      PROVE  OwnJobAdded(worker[w].owner)'
  <2>1. OwnJobAdded(o)'
    BY <1>1, MoverQueued, AddedStep DEF OwnJobAdded
  <2> QED BY <1>1, <2>1 DEF OwnJobAdded, InProgress
<1>2. issued \subseteq Requests
  BY RequestsAssumption DEF QueueInv, IInv, StoreTypeOK
<1>3. CASE ~At(w, "idle") /\ worker'[w].owner = worker[w].owner
  BY <1>1, <1>2, <1>3 DEF Ordered, SlotsLive, QueueInv, SlotsNamed, Names
<1>4. CASE Taken(w)
  <2> PICK j \in Jobs : job[j].state = "waiting" /\ worker'[w].owner = job[j].owner
    BY <1>4 DEF Taken
  <2> QED BY <1>1, <1>2 DEF Ordered, JobsLive, QueueInv, JobsNamed, Names
<1>5. ASSUME NEW u \in Workers, Work(u) \/ Heartbeat(u) \/ WorkFault(u)
      PROVE  \/ ~At(w, "idle") /\ worker'[w].owner = worker[w].owner
             \/ Taken(w)
  <2>1. OtherSlotsSame(u) /\ (Taken(u) \/ Granted(u) \/ GoesOn(u) \/ Freed(u))
    BY <1>5, WorkTyped
  <2>2. CASE u = w
    BY <2>1, <2>2 DEF Granted, GoesOn, Freed, SameExecution, At
  <2>3. CASE u # w
    BY <2>1, <2>3 DEF OtherSlotsSame, At
  <2> QED BY <2>2, <2>3
<1>6. ASSUME NEW r \in Requests, Web(r) \/ WebFault(r) PROVE worker' = worker
  BY <1>6 DEF Web, WebFault, UnchangedByWeb, CreateSession, ReserveStep, AddJob, GetJob,
     GetState, ReleaseTerminalStep, AdoptStep, UndoReservation, ClearOwnSession, CreateTimeout, ReserveTimeout,
     AddTimeout, ReadTimeout, RetainedTimeout, ClearTimeout, WebCrash
<1> QED BY <1>3, <1>4, <1>5, <1>6, ElseUnchanged DEF At

LEMMA UnbegunKept ==
  ASSUME QueueInv, QueueNext, Ordered, ~Fault
  PROVE  Unbegun'
<1> SUFFICES ASSUME NEW r \in Requests, InProgress(r)', NEW j \in Jobs, j = KeyOf[r],
                    records'[j] # None, records'[j].token = r, job'[j].owner # r
             PROVE  fences'[j] = 0
  BY Keys DEF Unbegun, Holds
<1>1. CASE KeptRecord(j)
  <2>1. Holds(j, r) /\ r \in issued
    BY <1>1 DEF KeptRecord, Holds, QueueInv, RecordsNamed, Names
  <2>2. InProgress(r)
    BY <2>1, NamedBegan, Bystander DEF InProgress
  <2>3. job[j].owner # r
    BY <2>2, JobStays
  <2>4. fences[j] = 0
    BY <2>1, <2>2, <2>3 DEF Ordered, Unbegun
  <2>5. ~Raised(j)
    <3> SUFFICES ASSUME NEW w \in Workers, At(w, "begin"), Holds(j, worker[w].owner) PROVE FALSE
      BY DEF Raised
    <3>1. worker[w].owner = r
      BY <2>1 DEF Holds
    <3>2. OwnJobAdded(r)
      BY <3>1 DEF Ordered, SlotsLive, At
    <3> QED BY <2>2, <2>3, <3>2 DEF OwnJobAdded
  <2> QED BY <1>1, <2>4, <2>5 DEF KeptRecord
<1> QED BY <1>1, EveryRecordsStep DEF RecordsStep, NewRecord, AdoptedRecord

LEMMA OnePerKeyKept ==
  ASSUME QueueInv, QueueNext, Ordered, ~Fault
  PROVE  OnePerKey'
<1> SUFFICES ASSUME NEW q \in Requests, NEW r \in Requests, q # r, KeyOf[q] = KeyOf[r],
                    InProgress(q)', InProgress(r)'
             PROVE  FALSE
  BY DEF OnePerKey
<1>1. ASSUME NEW s \in Requests, InProgress(s)' PROVE InProgress(s) \/ CreateSession(s)
  BY <1>1, MoverPc, Bystander DEF InProgress, CreateTimeout
<1>2. ASSUME NEW s \in Requests, NEW t \in Requests, s # t, KeyOf[s] = KeyOf[t], CreateSession(s), InProgress(t)'
      PROVE  FALSE
  <2>1. OthersSame(s)
    BY <1>2, WebTyped DEF Web
  <2>2. InProgress(t)
    BY <1>2, <2>1 DEF OthersSame, InProgress
  <2> QED BY <1>2, <2>2 DEF CreateSession, MayStart
<1> QED BY <1>1, <1>2 DEF Ordered, OnePerKey

(* What a request that moves has read. *)
LEMMA EndedRow ==
  ASSUME QueueInv, QueueNext, NEW r \in Requests, NEW pc \in {"undo", "clear", "crashed"}, Ended(r, pc, None),
         Stays(r)'
  PROVE  Row(r)'
BY DEF Ended, Row, Told, Reserved, Comparing

LEMMA AnsweredRow ==
  ASSUME QueueInv, QueueNext, NEW r \in Requests, NEW s \in Requests, Answer(r, s), Stays(r)',
         s # r => Stands(s) /\ Names(s, KeyOf[r])
  PROVE  Row(r)'
<1>1. Ended(r, IF s = r THEN "answered" ELSE "dropOwn", s)
  BY AnswerTyped DEF QueueInv
<1>2. s # r => Stands(s)' /\ Names(s, KeyOf[r])'
  BY StandsStep, IssuedStep DEF Names
<1>3. CASE s = r
  BY <1>1, <1>3 DEF Ended, Row, Told, Reserved, Comparing
<1>4. CASE s # r
  <2>1. api'[r].pc = "dropOwn" /\ api'[r].answer = s
    BY <1>1, <1>4 DEF Ended
  <2> QED BY <1>2, <1>4, <2>1 DEF Row, Told, Reserved, Comparing, Stands, Live, Stays, InProgress, Names
<1> QED BY <1>3, <1>4

(* What is copied from one step to the next. *)
LEMMA ReadRow ==
  ASSUME QueueInv, QueueNext, Ordered, NEW r \in Requests, Stays(r)',
         api'[r].pc \in {"reserve"} \cup Reserved \cup {"clear"},
         NEW t \in SomeRequest, api'[r].reserved = t, NEW s \in SomeRequest, api'[r].stored = s,
         api'[r].pc \in Reserved /\ t # r => t # None /\ Stands(t),
         api'[r].pc \in Comparing => s # None /\ Stands(s)
  PROVE  Row(r)'
<1>1. api'[r].pc \in Reserved /\ t # r => Stands(t)'
  BY StandsStep DEF SomeRequest
<1>2. api'[r].pc \in Comparing => Stands(s)'
  BY StandsStep DEF SomeRequest
<1> QED BY <1>1, <1>2 DEF Row, Told, Reserved, Comparing, Stands, Live, Stays, InProgress

(* The other token under the key of a request in progress is of one that is *)
(* done.                                                                    *)
LEMMA OthersDone ==
  ASSUME QueueInv, Ordered, NEW r \in Requests, InProgress(r), NEW t \in Requests, t # r,
         KeyOf[t] = KeyOf[r], Live(t)
  PROVE  Stands(t)
BY DEF Ordered, OnePerKey, Stands

LEMMA MoverRow ==
  ASSUME QueueInv, QueueNext, Ordered, ~Fault, NEW r \in Requests, Moves(r)
  PROVE  Row(r)'
<1>q. QueueTypeOK /\ AdmittingNamed /\ Row(r) /\ api[r] \in Admitting
  BY AdmittingRead DEF QueueInv, Ordered
<1>s. InProgress(r) /\ ~ClearOwnSession(r) => Stays(r)'
  <2> SUFFICES ASSUME InProgress(r), ~ClearOwnSession(r) PROVE Stays(r)'
    OBVIOUS
  <2>1. ~ClearTimeout(r)
    BY DEF ClearTimeout
  <2> QED BY <2>1, StaysStep DEF Ordered, Row
<1>e. ASSUME AdmitError(r), InProgress(r), ~ClearOwnSession(r) PROVE Row(r)'
  BY <1>e, <1>q, <1>s, AdmitErrorTyped, EndedRow
<1>g. ASSUME NEW pc \in {"reserve", "clear"} \cup Reserved, Goto(r, pc), Stays(r)',
             pc \in Reserved => api[r].pc \in Reserved,
             pc \in Comparing => api[r].pc \in Comparing
      PROVE  Row(r)'
  <2>1. api'[r].pc = pc /\ api'[r].reserved = api[r].reserved /\ api'[r].stored = api[r].stored
    BY <1>g, <1>q, GotoTyped DEF ApiPcs, Reserved
  <2>2. api[r].reserved \in SomeRequest /\ api[r].stored \in SomeRequest
    BY <1>q DEF Admitting
  <2>3. pc \in Reserved /\ api[r].reserved # r => api[r].reserved # None /\ Stands(api[r].reserved)
    BY <1>g, <1>q, AdmittingRead, RequestsAssumption DEF Row
  <2>4. pc \in Comparing => api[r].stored # None /\ Stands(api[r].stored)
    BY <1>g, <1>q, AdmittingRead, RequestsAssumption DEF Row
  <2> QED BY <1>g, <2>1, <2>2, <2>3, <2>4, ReadRow
<1>1. CASE CreateSession(r)
  <2>1. Stays(r)'
    BY <1>1, WebSession DEF CreateSession, Stays, QueueInv, QueueTypeOK, Session
  <2> QED BY <1>1, <1>g, <2>1 DEF CreateSession, Reserved, Comparing
<1>2. CASE ReserveStep(r)
  <2>0. InProgress(r) /\ ~ClearOwnSession(r) /\ r \notin issued
    BY <1>2, <1>q DEF ReserveStep, InProgress, ClearOwnSession, AdmittingNamed
  <2>1. CASE Goto(r, "clear")
    BY <1>g, <1>s, <2>0, <2>1 DEF Reserved, Comparing
  <2>2. ASSUME NEW t \in Requests, NEW o \in {"created", "existing"}, Reserving(r, o, t)
        PROVE  Row(r)'
    <3>1. api'[r].pc = "add" /\ api'[r].reserved = t /\ api'[r] \in Admitting
      BY <2>2 DEF Reserving
    <3>2. t # r => Stands(t)
      <4> SUFFICES ASSUME t # r PROVE Stands(t)
        OBVIOUS
      <4>1. records[KeyOf[r]] # None /\ t = records[KeyOf[r]].token
        BY <2>2 DEF Reserving, ReserveReply
      <4>2. Live(t) /\ KeyOf[t] = KeyOf[r]
        BY <4>1, Keys DEF Ordered, RecordsLive, QueueInv, RecordsNamed, Names
      <4> QED BY <2>0, <4>2, OthersDone
    <3> QED BY <1>s, <2>0, <3>1, <3>2, ReadRow, RequestsAssumption DEF Admitting, SomeRequest, Reserved, Comparing
  <2> QED BY <1>2, <2>1, <2>2, ReserveTyped
<1>3. CASE AddJob(r)
  BY <1>3, <1>g, <1>s DEF AddJob, Reserved, Comparing, InProgress, ClearOwnSession
<1>4. CASE GetJob(r)
  <2>0. InProgress(r) /\ ~ClearOwnSession(r) /\ api[r].pc = "get"
    BY <1>4 DEF GetJob, InProgress, ClearOwnSession
  <2> DEFINE s == job[KeyOf[r]].owner
  <2>1. CASE s \in Requests /\ s = api[r].reserved /\ Answer(r, s)
    <3>1. s # r => Stands(s) /\ Names(s, KeyOf[r])
      BY <1>q, <2>0, <2>1 DEF Row, AdmittingNamed, Reserved
    <3> HIDE DEF s
    <3> QED BY <1>s, <2>0, <2>1, <3>1, AnsweredRow
  <2>2. CASE s \in Requests /\ s # api[r].reserved /\ Keeps(r, s)
    <3>1. job[KeyOf[r]].state # "none" /\ Names(s, KeyOf[r])
      BY <2>2, Keys, StoredOwner, RequestsAssumption
    <3>2. Live(s) /\ OwnJobAdded(s)
      BY <3>1, Keys DEF Ordered, JobsLive
    <3>3. s # r
      BY <2>0, <2>2, <3>2 DEF OwnJobAdded
    <3>4. Stands(s)
      BY <2>0, <2>2, <3>1, <3>2, <3>3, OthersDone DEF Names
    <3>5. Retained(r, s)
      BY <1>q, <2>2, RetainedTyped
    <3>6. api'[r].pc = "state" /\ api'[r].stored = s /\ api'[r].reserved = api[r].reserved
      BY <3>5 DEF Retained
    <3>7. api[r].reserved \in Requests /\ (api[r].reserved # r => Stands(api[r].reserved))
      BY <1>q, <2>0, AdmittingRead DEF Row, Reserved
    <3> HIDE DEF s
    <3> QED BY <1>s, <2>0, <2>2, <3>4, <3>6, <3>7, ReadRow, RequestsAssumption DEF SomeRequest, Reserved, Comparing
  <2>3. CASE AdmitError(r)
    BY <1>e, <2>0, <2>3
  <2> QED BY <1>4, <2>1, <2>2, <2>3, GetJobCases
<1>5. CASE GetState(r)
  BY <1>5, <1>e, <1>g, <1>s DEF GetState, Reserved, Comparing, InProgress, ClearOwnSession
<1>6. CASE ReleaseTerminalStep(r) \/ AdoptStep(r)
  <2>0. InProgress(r) /\ ~ClearOwnSession(r) /\ api[r].pc \in Comparing
    BY <1>6 DEF ReleaseTerminalStep, AdoptStep, InProgress, ClearOwnSession, Comparing
  <2>1. /\ api[r].stored \in Requests /\ Stands(api[r].stored) /\ Names(api[r].stored, KeyOf[r])
    BY <1>q, <2>0, AdmittingRead DEF Row, AdmittingNamed
  <2>2. Answer(r, api[r].stored) \/ AdmitError(r)
    BY <1>6 DEF ReleaseTerminalStep, AdoptStep
  <2> QED BY <1>e, <1>s, <2>0, <2>1, <2>2, AnsweredRow
<1>7. CASE UndoReservation(r)
  BY <1>7, <1>g, <1>s DEF UndoReservation, Reserved, Comparing, InProgress, ClearOwnSession
<1>8. CASE ClearOwnSession(r)
  <2>0. session'[r].stage = "cleared"
    BY <1>8 DEF ClearOwnSession, QueueInv, QueueTypeOK, Session, NoSession
  <2>1. CASE api[r].pc = "clear"
    <3>1. Ended(r, "failed", None)
      BY <1>8, <1>q, <2>1, EndTyped DEF ClearOwnSession, ApiPcs, SomeRequest
    <3> QED BY <2>0, <3>1 DEF Ended, Row, Told, Reserved, Comparing, InProgress
  <2>2. CASE api[r].pc = "dropOwn"
    <3>1. api'[r].pc = "answered" /\ api'[r].answer = api[r].answer
      BY <1>8, <1>q, <2>2, GotoTyped DEF ClearOwnSession, ApiPcs
    <3>2. api[r].answer # r /\ Names(api[r].answer, KeyOf[r]) /\ Stands(api[r].answer)
      BY <1>q, <2>2 DEF Row
    <3> PICK s \in Requests : s = api[r].answer /\ s = api'[r].answer
      BY <3>1, <3>2, RequestsAssumption DEF Names, QueueInv, IInv, StoreTypeOK
    <3>3. Stands(s)' /\ Names(s, KeyOf[r])'
      BY <3>2, StandsStep, IssuedStep DEF Names
    <3> QED BY <3>1, <3>2, <3>3
            DEF Row, Told, Reserved, Comparing, InProgress, Stands, Live, Stays, Names
  <2> QED BY <1>8, <2>1, <2>2 DEF ClearOwnSession
<1>9. CASE WebCrash(r)
  <2>1. Ended(r, "crashed", None) /\ InProgress(r)
    BY <1>9, <1>q, EndTyped DEF WebCrash, ApiPcs, SomeRequest
  <2>2. ~ClearOwnSession(r)
    BY <1>q, <2>1, EndTyped, GotoTyped DEF ClearOwnSession, Ended, ApiPcs, SomeRequest
  <2> QED BY <1>s, <2>1, <2>2, EndedRow
<1> QED BY <1>1, <1>2, <1>3, <1>4, <1>5, <1>6, <1>7, <1>8, <1>9, NoFaultStep

LEMMA BystanderRow ==
  ASSUME QueueInv, QueueNext, Ordered, NEW r \in Requests, ~Moves(r)
  PROVE  Row(r)'
<1>1. Row(r) /\ api'[r] = api[r]
  BY Bystander DEF Ordered
<1>2. Stays(r) => Stays(r)'
  BY StaysStep DEF Moves, Web, WebFault
<1>3. session[r].stage = "cleared" => session'[r].stage = "cleared"
  BY FinalStep
<1>4. ASSUME NEW t, t \in Requests, Stands(t) PROVE Stands(t)'
  BY <1>4, StandsStep
<1>5. issued \subseteq issued' /\ issued \subseteq Requests
  BY IssuedStep, RequestsAssumption DEF QueueInv, IInv, StoreTypeOK
<1>6. api[r].pc \in Reserved /\ api[r].reserved # r => Stands(api[r].reserved)'
  BY <1>1, <1>4, AdmittingRead DEF Row
<1>7. api[r].pc \in Comparing => Stands(api[r].stored)'
  BY <1>1, <1>4, AdmittingRead DEF Row
<1>8. api[r].pc \in {"dropOwn", "answered"} /\ api[r].answer # r =>
        Names(api[r].answer, KeyOf[r])' /\ Stands(api[r].answer)'
  BY <1>1, <1>4, <1>5 DEF Row, Names
<1> QED BY <1>1, <1>2, <1>3, <1>6, <1>7, <1>8 DEF Row, Told, InProgress

LEMMA InOrderKept == QueueInv /\ InOrder /\ [QueueNext]_queueVars => InOrder'
<1> SUFFICES ASSUME QueueInv, InOrder, [QueueNext]_queueVars, faults' = 0 PROVE Ordered'
  BY DEF InOrder
<1>1. CASE UNCHANGED queueVars
  BY <1>1 DEF queueVars, storeVars, InOrder, Ordered, OnePerKey, RecordsLive, JobsLive, SlotsLive, Unbegun, Row,
     Stands, Live, Stays, Told, OwnJobAdded, InProgress, Names, Holds, At
<1>2. CASE QueueNext
  <2>1. ~Fault /\ faults = 0
    <3>1. faults \in Nat
      BY DEF QueueInv, QueueTypeOK
    <3>2. ~Fault
      BY <3>1 DEF Fault
    <3> QED BY <1>2, <3>2, FaultsStep
  <2>2. Ordered
    BY <2>1 DEF InOrder
  <2>3. OnePerKey' /\ RecordsLive' /\ JobsLive' /\ SlotsLive' /\ Unbegun'
    BY <1>2, <2>1, <2>2, OnePerKeyKept, RecordsLiveKept, JobsLiveKept, SlotsLiveKept, UnbegunKept
  <2>4. \A r \in Requests : Row(r)'
    BY <1>2, <2>1, <2>2, MoverRow, BystanderRow
  <2> QED BY <2>3, <2>4 DEF Ordered
<1> QED BY <1>1, <1>2

(* As long as no reply is lost, every admission, job and answer is that of  *)
(* a request that stands behind it.                                         *)
THEOREM InOrderAlways == QueueSpec => []InOrder
<1>1. QueueInit => InOrder
  BY DEF QueueInit, StoreInit, NewRequest, NoJob, Idle, InOrder, Ordered, OnePerKey, RecordsLive, JobsLive,
     SlotsLive, Unbegun, Row, InProgress, Told, Reserved, Comparing, At
<1> QED BY <1>1, InOrderKept, QueueAlways, PTL DEF QueueSpec

(* A request that is answered with an error leaves nothing behind: its      *)
(* session is cleared and no admission is held under its token.             *)
THEOREM FailuresLeaveNothing == QueueSpec => []FailedLeavesNothing
<1>1. InOrder => FailedLeavesNothing
  <2> SUFFICES ASSUME Ordered, NEW r \in Requests, api[r].pc = "failed"
               PROVE  session[r].stage = "cleared" /\ \A j \in Jobs : ~Holds(j, r)
    BY DEF InOrder, FailedLeavesNothing
  <2>1. session[r].stage = "cleared"
    BY DEF Ordered, Row
  <2>2. ~Live(r)
    BY <2>1 DEF Live, Stays
  <2> QED BY <2>1, <2>2 DEF Ordered, RecordsLive, Holds
<1> QED BY <1>1, InOrderAlways, PTL

(* The search a client is told to poll is there, its own or another's.      *)
THEOREM AnswersKept == QueueSpec => []AnswerKeptInOrder
<1>1. InOrder => AnswerKeptInOrder
  <2> SUFFICES ASSUME Ordered, NEW r \in Requests, api[r].pc = "answered"
               PROVE  session[api[r].answer].stage \notin {"none", "cleared"}
    BY DEF InOrder, AnswerKeptInOrder, AnsweredSessionKept
  <2>1. CASE api[r].answer = r
    BY <2>1 DEF Ordered, Row, Told, Stays
  <2>2. CASE api[r].answer # r
    BY <2>2 DEF Ordered, Row, Stands, Live, Stays
  <2> QED BY <2>1, <2>2
<1> QED BY <1>1, InOrderAlways, PTL
-----------------------------------------------------------------------------
(* Time passes, processes die and workers fail to keep a lock one at a time. *)
LEMMA CountersGrow ==
  QueueNext => /\ now' \in {now, now + 1} /\ crashes' \in {crashes, crashes + 1}
               /\ pauses' \in {pauses, pauses + 1}
<1> DEFINE Goal == /\ now' \in {now, now + 1} /\ crashes' \in {crashes, crashes + 1}
                   /\ pauses' \in {pauses, pauses + 1}
<1> SUFFICES ASSUME QueueNext PROVE Goal
  OBVIOUS
<1>1. ASSUME NEW r \in Requests, Moves(r) PROVE Goal
  BY <1>1 DEF Moves, Web, WebFault, UnchangedByWeb, CreateSession, ReserveStep, AddJob, GetJob,
     GetState, ReleaseTerminalStep, AdoptStep, UndoReservation, ClearOwnSession, CreateTimeout, ReserveTimeout,
     AddTimeout, ReadTimeout, RetainedTimeout, ClearTimeout, WebCrash
<1>2. ASSUME NEW w \in Workers, Work(w) \/ Heartbeat(w) \/ WorkFault(w) PROVE Goal
  BY <1>2 DEF Work, Heartbeat, WorkFault, UnchangedByWorker, Take, BeginStep, ClaimStep, SearchProviders,
     AssertOwnership, Persist, MarkRetry, RenewForRetry, MarkFailed, ReleaseStep, Finish, BeginTimeout,
     ClaimTimeout, AssertTimeout, RenewTimeout, PersistTimeout, MarkTimeout, ReleaseTimeout, WorkerCrash
<1>3. CASE (\E j \in Jobs : Stall(j) \/ Retire(j)) \/ Poll \/ Tick
  BY <1>3 DEF Stall, Retire, Poll, Tick, UnchangedByEnvironment
<1> QED BY <1>1, <1>2, <1>3 DEF QueueNext, Moves

(* One execution.  Every execution has the lock of its job, and no other    *)
(* one works on it.  Only a live worker that fails to keep its job lock     *)
(* lets a second execution begin; lost replies, lapsed leases and crashes   *)
(* do not.                                                                  *)
SlotsAlone ==
    \A w \in Workers : ~At(w, "idle") =>
       LET j == worker[w].job IN
       /\ job[j].state = "active" /\ job[j].lock = worker[w].exec /\ job[j].owner = worker[w].owner
       /\ \A v \in Workers \ {w} : ~At(v, "idle") => worker[v].job # j

(* Updates of several fields of a stored job. *)
Whole(g, h, j) == /\ DOMAIN g = Jobs
                  /\ DOMAIN g[j] = {"state", "owner", "attempts", "stalls", "lock"}
                  /\ \A k \in Jobs \ {j} : g[k] = h[k]

Locks(g, h, j, a, b) == g = [h EXCEPT ![j].state = a, ![j].lock = b]

LEMMA TakeFields ==
  ASSUME NEW h \in [Jobs -> StoredJob], NEW j \in Jobs, NEW a, NEW b, NEW g, Locks(g, h, j, a, b)
  PROVE  /\ Whole(g, h, j)
         /\ g[j].state = a /\ g[j].lock = b /\ g[j].owner = h[j].owner /\ g[j].stalls = h[j].stalls
<1> DEFINE h1 == [h EXCEPT ![j].state = a]
<1>1. Whole(h1, h, j) /\ h1[j].state = a /\ h1[j].owner = h[j].owner /\ h1[j].stalls = h[j].stalls
  BY DEF StoredJob, Whole
<1>2. g = [h1 EXCEPT ![j].lock = b]
  BY DEF Locks
<1> HIDE DEF h1
<1> QED BY <1>1, <1>2 DEF Whole

(* A slot that is at work has just taken its job or had it before. *)
LEMMA SlotStays ==
  ASSUME QueueInv, QueueNext, NEW w \in Workers, ~At(w, "idle")'
  PROVE  \/ Taken(w)
         \/ /\ ~At(w, "idle") /\ worker'[w].job = worker[w].job
            /\ worker'[w].owner = worker[w].owner /\ worker'[w].exec = worker[w].exec
<1>1. ASSUME NEW u \in Workers, Work(u) \/ Heartbeat(u) \/ WorkFault(u), worker'[w] # worker[w]
      PROVE  Taken(w) \/ Granted(w) \/ GoesOn(w)
  BY <1>1, WorkTyped DEF OtherSlotsSame, Freed, At
<1>2. ASSUME NEW r \in Requests, Web(r) \/ WebFault(r) PROVE worker' = worker
  BY <1>2 DEF Web, WebFault, UnchangedByWeb, CreateSession, ReserveStep, AddJob, GetJob,
     GetState, ReleaseTerminalStep, AdoptStep, UndoReservation, ClearOwnSession, CreateTimeout, ReserveTimeout,
     AddTimeout, ReadTimeout, RetainedTimeout, ClearTimeout, WebCrash
<1> QED BY <1>1, <1>2, ElseUnchanged DEF Granted, GoesOn, SameExecution, At

LEMMA OneTakes ==
  ASSUME QueueInv, QueueNext, NEW w \in Workers, NEW v \in Workers, Taken(w), Taken(v)
  PROVE  v = w
<1>1. At(w, "idle") /\ At(v, "idle") /\ worker'[w] # worker[w] /\ worker'[v] # worker[v]
  BY DEF Taken, At
<1>2. ASSUME NEW r \in Requests, Web(r) \/ WebFault(r) PROVE worker' = worker
  BY <1>2 DEF Web, WebFault, UnchangedByWeb, CreateSession, ReserveStep, AddJob, GetJob,
     GetState, ReleaseTerminalStep, AdoptStep, UndoReservation, ClearOwnSession, CreateTimeout, ReserveTimeout,
     AddTimeout, ReadTimeout, RetainedTimeout, ClearTimeout, WebCrash
<1>3. PICK u \in Workers : Work(u) \/ Heartbeat(u) \/ WorkFault(u)
  BY <1>1, <1>2, ElseUnchanged
<1> QED BY <1>1, <1>3, WorkTyped DEF OtherSlotsSame

(* BullMQ leaves the job of an execution that keeps its lock as it is.      *)
LEMMA ActiveStays ==
  ASSUME QueueInv, QueueNext, SlotsAlone, pauses' = pauses,
         NEW w \in Workers, ~At(w, "idle"), ~At(w, "idle")'
  PROVE  job'[worker[w].job] = job[worker[w].job]
<1> DEFINE j == worker[w].job
           Goal == job'[j] = job[j]
<1>0. /\ job \in [Jobs -> StoredJob] /\ pauses \in Nat /\ worker \in [Workers -> Slot]
      /\ j \in Jobs /\ job[j].state = "active" /\ LockHeld(j)
  BY DEF QueueInv, QueueTypeOK, SlotsNamed, SlotsAlone, LockHeld
<1> HIDE DEF j
<1>1. ASSUME UNCHANGED job PROVE Goal
  BY <1>1
<1>2. ASSUME NEW r \in Requests, Web(r) \/ WebFault(r) PROVE Goal
  <2>1. JobAdded(r)[j] = job[j]
    BY <1>0 DEF JobAdded
  <2> QED BY <1>2, <2>1 DEF Web, WebFault, CreateSession, ReserveStep, AddJob, GetJob, GetState,
         ReleaseTerminalStep, AdoptStep, UndoReservation, ClearOwnSession, CreateTimeout, ReserveTimeout, AddTimeout,
         ReadTimeout, RetainedTimeout, ClearTimeout, WebCrash
<1>3. ASSUME NEW u \in Workers, NEW k \in Jobs, Take(u, k) PROVE Goal
  <2>1. Locks(job', job, k, "active", FreshExec) /\ k # j
    BY <1>0, <1>3 DEF Take, Locks
  <2> QED BY <1>0, <2>1, TakeFields DEF Whole
<1>4. ASSUME NEW u \in Workers, Finish(u) PROVE Goal
  <2> DEFINE k == worker[u].job
             next == IF worker[u].outcome = "completed" THEN "completed"
                     ELSE IF worker[u].outcome = "error" /\ worker[u].attempt < MaxAttempts THEN "waiting"
                     ELSE "failed"
             a == worker[u].attempt
  <2>1. At(u, "finish") /\ worker'[u] = Idle
    BY <1>0, <1>4 DEF Finish
  <2>2. u # w /\ ~At(u, "idle")
    BY <2>1 DEF At, Idle
  <2>3. k # j /\ k \in Jobs
    BY <2>2 DEF j, SlotsAlone, QueueInv, SlotsNamed
  <2>4. job' = job \/ job' = [job EXCEPT ![k].state = next, ![k].lock = 0, ![k].attempts = a]
    BY <1>4 DEF Finish
  <2> HIDE DEF k, next, a
  <2> QED BY <1>0, <2>3, <2>4
<1>5. ASSUME NEW k \in Jobs, Stall(k) PROVE Goal
  <2>1. k # j
    BY <1>0, <1>5 DEF Stall
  <2>2. \E a, b, c : job' = [job EXCEPT ![k].state = a, ![k].stalls = b, ![k].lock = c]
    BY <1>5 DEF Stall
  <2> QED BY <1>0, <2>1, <2>2
<1>6. ASSUME NEW k \in Jobs, Retire(k) PROVE Goal
  BY <1>0, <1>6 DEF Retire
<1>7. ASSUME NEW u \in Workers, Work(u) \/ Heartbeat(u) \/ WorkFault(u)
      PROVE  Finish(u) \/ (\E k \in Jobs : Take(u, k)) \/ UNCHANGED job
  BY <1>7 DEF Work, Heartbeat, WorkFault, BeginStep, ClaimStep, SearchProviders, AssertOwnership, Persist,
     MarkRetry, RenewForRetry, MarkFailed, ReleaseStep, BeginTimeout, ClaimTimeout, AssertTimeout, RenewTimeout,
     PersistTimeout, MarkTimeout, ReleaseTimeout, WorkerCrash
<1>8. Poll \/ Tick => UNCHANGED job
  BY DEF Poll, Tick
<1>9. Goal
  BY <1>1, <1>2, <1>3, <1>4, <1>5, <1>6, <1>7, <1>8 DEF QueueNext
<1> QED BY <1>9 DEF j

LEMMA SlotsAloneKept ==
  ASSUME QueueInv, QueueNext, SlotsAlone, pauses' = pauses
  PROVE  SlotsAlone'
<1> SUFFICES ASSUME NEW w \in Workers, ~At(w, "idle")'
             PROVE  /\ job'[worker'[w].job].state = "active"
                    /\ job'[worker'[w].job].lock = worker'[w].exec
                    /\ job'[worker'[w].job].owner = worker'[w].owner
                    /\ \A v \in Workers \ {w} : ~At(v, "idle")' => worker'[v].job # worker'[w].job
  BY DEF SlotsAlone
<1>1. CASE Taken(w)
  <2> PICK j \in Jobs : /\ At(w, "idle") /\ job[j].state = "waiting"
                        /\ job' = [job EXCEPT ![j].state = "active", ![j].lock = FreshExec]
                        /\ worker'[w].job = j /\ worker'[w].owner = job[j].owner
                        /\ worker'[w].exec = FreshExec
    BY <1>1 DEF Taken
  <2>1. Locks(job', job, j, "active", FreshExec)
    BY DEF Locks
  <2>2. job'[j].state = "active" /\ job'[j].lock = FreshExec /\ job'[j].owner = job[j].owner
    BY <2>1, TakeFields DEF QueueInv, QueueTypeOK
  <2>3. ASSUME NEW v \in Workers \ {w}, ~At(v, "idle")', worker'[v].job = j PROVE FALSE
    <3>1. ~At(v, "idle") /\ worker[v].job = j
      BY <1>1, <2>3, OneTakes, SlotStays
    <3> QED BY <3>1 DEF SlotsAlone
  <2> QED BY <2>2, <2>3
<1>2. CASE ~Taken(w)
  <2>1. /\ ~At(w, "idle") /\ worker'[w].job = worker[w].job
        /\ worker'[w].owner = worker[w].owner /\ worker'[w].exec = worker[w].exec
    BY <1>2, SlotStays
  <2> DEFINE j == worker[w].job
  <2>2. job'[j] = job[j]
    BY <2>1, ActiveStays
  <2>3. ASSUME NEW v \in Workers \ {w}, ~At(v, "idle")', worker'[v].job = j PROVE FALSE
    <3>1. CASE Taken(v)
      BY <2>1, <2>3, <3>1 DEF SlotsAlone, Taken
    <3>2. CASE ~Taken(v)
      <4>1. ~At(v, "idle") /\ worker[v].job = j
        BY <2>3, <3>2, SlotStays
      <4> QED BY <2>1, <2>3, <4>1 DEF SlotsAlone
    <3> QED BY <3>1, <3>2
  <2> QED BY <2>1, <2>2, <2>3 DEF SlotsAlone
<1> QED BY <1>1, <1>2

LEMMA RunOnceKept ==
  QueueInv /\ (pauses = 0 => SlotsAlone) /\ [QueueNext]_queueVars => (pauses = 0 => SlotsAlone)'
<1> SUFFICES ASSUME QueueInv, pauses = 0 => SlotsAlone, [QueueNext]_queueVars, pauses' = 0
             PROVE  SlotsAlone'
  OBVIOUS
<1>1. CASE UNCHANGED queueVars
  BY <1>1 DEF queueVars, SlotsAlone, At
<1>2. CASE QueueNext
  <2>1. pauses \in Nat /\ pauses' \in {pauses, pauses + 1}
    BY <1>2, CountersGrow DEF QueueInv, QueueTypeOK
  <2>2. pauses = 0 /\ pauses' = pauses
    BY <2>1
  <2> QED BY <1>2, <2>2, SlotsAloneKept
<1> QED BY <1>1, <1>2

(* As long as no live worker has lost its job lock, every execution has the *)
(* lock of its job and is the only one that works on it, whatever replies   *)
(* are lost, leases lapse and processes die: BullMQ redelivers a job only   *)
(* after its worker is gone.                                                *)
THEOREM JobsRunOnce == QueueSpec => [](pauses = 0 => SlotsAlone)
<1>1. QueueInit => SlotsAlone
  BY DEF QueueInit, SlotsAlone, At, Idle
<1> QED BY <1>1, RunOnceKept, QueueAlways, PTL DEF QueueSpec

(* What ReleasesOwnAdmission asks for holds of every step before the first  *)
(* stall of a live worker: a finishing execution gives back no admission    *)
(* that another holds.                                                      *)
THEOREM OwnReleasesOnly ==
  QueueSpec => [][pauses = 0 => \A w, v \in Workers : ~ForeignRelease(w, v)]_queueVars
<1>1. SlotsAlone => \A w, v \in Workers : ~ForeignRelease(w, v)
  BY DEF SlotsAlone, ForeignRelease, Executing, At
<1>2. (pauses = 0 => SlotsAlone) /\ [QueueNext]_queueVars
      => [pauses = 0 => \A w, v \in Workers : ~ForeignRelease(w, v)]_queueVars
  BY <1>1
<1> QED BY <1>2, JobsRunOnce, PTL DEF QueueSpec

-----------------------------------------------------------------------------
(* In time.  No reply is lost, no live worker loses its job lock, and no    *)
(* lease of the first one's length has passed.                              *)
InTime == faults = 0 /\ pauses = 0 /\ now < Lease

(* The stalled check fails no job: none has stalled more often than         *)
(* maxStalledCount.                                                         *)
NotGivenUp == \A j \in Jobs : job[j].stalls <= MaxStalled

Over(s) == session[s].stage \in Terminal \cup {"cleared"}

(* A session that no execution has claimed beyond the record's fence. *)
Behind(s, j) == session[s].fence <= fences[j]

LeasesRun == \A j \in Jobs : expiry[j] # None => expiry[j] \in Nat /\ expiry[j] >= Lease

(* A job that is to be executed can be, and one that is done has a search   *)
(* that is over.                                                            *)
Pending(j) == job[j].state \in {"waiting", "active"}

JobsServed ==
    \A j \in Jobs :
       LET s == job[j].owner IN
       /\ Pending(j) => Over(s) \/ (Holds(j, s) /\ Behind(s, j))
       /\ job[j].state \in {"completed", "failed"} => Over(s)

RecordsServed ==
    \A j \in Jobs : records[j] # None => Over(records[j].token) \/ Behind(records[j].token, j)

Retries(w) == worker[w].outcome = "error" /\ worker[w].attempt < MaxAttempts

Claimers == {"search", "assert", "persist", "retry", "renew", "fail"}

(* What an execution knows of its session and its admission at each point:  *)
(* it ends without a retry only when the search is over and the admission   *)
(* is given back.                                                           *)
SlotServed(w) ==
    LET s == worker[w].owner f == fences[worker[w].job] IN
    /\ At(w, "begin") => ~worker[w].lost
    /\ At(w, "claim") => Over(s) \/ (worker[w].fence = f /\ session[s].fence < f)
    /\ worker[w].pc \in Claimers => SessionGone(w) \/ (SessionOwned(w) /\ worker[w].fence = f)
    /\ worker[w].pc \in Claimers \cup {"claim", "release"} => worker[w].fence > 0 /\ (f = 0 \/ Owned(w))
    /\ worker[w].pc \in {"retry", "renew"} => worker[w].attempt < MaxAttempts
    /\ At(w, "release") => Over(s)
    /\ At(w, "finish") => Retries(w) \/ (Over(s) /\ f = 0)
    /\ worker[w].lost => f = 0

SlotsServed == \A w \in Workers : ~At(w, "idle") => SlotServed(w)

(* What a request has reserved is there until its search is over, and a     *)
(* retained job it compares with has ended or is still the same.            *)
RequestServed(r) ==
    LET j == KeyOf[r] IN
    /\ api[r].pc \in {"new", "reserve"} => session[r].fence = 0
    /\ api[r].pc \in Reserved => records[j] = None \/ Holds(j, api[r].reserved)
    /\ api[r].pc = "add" => Over(api[r].reserved) \/ Holds(j, api[r].reserved)
    /\ api[r].pc \in Comparing => Over(api[r].stored) /\ job[j].owner \in {None, api[r].stored}

RequestsServed == \A r \in Requests : RequestServed(r)

(* A job stalls only after its worker died. *)
Orphaned(j) == job[j].state = "active" /\ \A w \in Workers : ~At(w, "idle") => worker[w].job # j

StallsCounted == \A j \in Jobs : job[j].stalls + (IF Orphaned(j) THEN 1 ELSE 0) <= crashes

(* An admission that has been begun is that of a job still to be executed.  *)
BegunPending == \A j \in Jobs : fences[j] # 0 => Pending(j) /\ Holds(j, job[j].owner)

(* An admission whose request was answered with its own search is that of   *)
(* the job that is stored.                                                  *)
ToldTokens ==
    \A j \in Jobs : records[j] # None /\ job[j].state # "none" /\ Told(records[j].token, records[j].token)
                       => records[j].token = job[j].owner

(* An admission of the stored job that nobody has begun waits for its first *)
(* execution, or was adopted by a request that is told this search or died. *)
Unstarted(j) == Pending(j) /\ \A w \in Workers : ~At(w, "idle") /\ worker[w].job = j => At(w, "begin")

Adopter(r, s) ==
    /\ r # s /\ KeyOf[r] = KeyOf[s]
    /\ (api[r].pc \in {"dropOwn", "answered"} /\ api[r].answer = s) \/ api[r].pc = "crashed"

LeftToAdopters ==
    \A j \in Jobs : Holds(j, job[j].owner) /\ fences[j] = 0
                       => Unstarted(j) \/ \E r \in Requests : Adopter(r, job[j].owner)

Served ==
    /\ LeasesRun /\ SlotsAlone /\ JobsServed /\ RecordsServed /\ SlotsServed /\ RequestsServed
    /\ BegunPending /\ ToldTokens /\ LeftToAdopters

ServedInTime == InTime => Served

(* A step in time. *)
Calm ==
    /\ QueueInv /\ Ordered /\ Served /\ QueueNext
    /\ ~Fault /\ now < Lease /\ now \in Nat /\ pauses' = pauses

-----------------------------------------------------------------------------
(* What a step in time does to the record of a job.                         *)
SameRecord(j)     == records'[j] = records[j] /\ fences'[j] = fences[j]
NoRecord(j)       == records'[j] = None /\ fences'[j] = 0
ReleasedBy(w, j)  == ReleaseStep(w) /\ worker[w].job = j /\ Owned(w) /\ NoRecord(j)
EndedBy(r, j)     == ReleaseTerminalStep(r) /\ KeyOf[r] = j /\ Holds(j, api[r].reserved) /\ NoRecord(j)
UndoneBy(r, j)    == UndoReservation(r) /\ KeyOf[r] = j /\ HoldsFenced(j, r, 0) /\ NoRecord(j)
CreatedBy(r, j)   == /\ ReserveStep(r) /\ KeyOf[r] = j /\ records[j] = None
                     /\ records'[j] # None /\ records'[j].token = r /\ fences'[j] = 0
AdoptedBy(r, j)   == /\ AdoptStep(r) /\ KeyOf[r] = j /\ HoldsFenced(j, api[r].reserved, 0)
                     /\ records'[j] # None /\ records'[j].token = api[r].stored /\ fences'[j] = 0
BegunBy(w, j)     == /\ BeginStep(w) /\ worker[w].job = j /\ Holds(j, worker[w].owner)
                     /\ records'[j] = records[j] /\ fences'[j] = fences[j] + 1

RecordMoves(j) ==
    \/ SameRecord(j)
    \/ \E w \in Workers : ReleasedBy(w, j) \/ BegunBy(w, j)
    \/ \E r \in Requests : EndedBy(r, j) \/ UndoneBy(r, j) \/ CreatedBy(r, j) \/ AdoptedBy(r, j)

LEMMA NoneLapsed ==
  ASSUME Calm
  PROVE  /\ Lapsed(now) = {}
         /\ \A f \in {records, expiry, fences} : \A x : \A j \in Jobs : Swept(f, now, x)[j] = f[j]
<1>1. \A j \in Jobs : expiry[j] # None => ~(expiry[j] <= now)
  BY ClockAssumption DEF Calm, Served, LeasesRun
<1>2. Lapsed(now) = {}
  BY <1>1 DEF Lapsed, Admitted
<1> QED BY <1>2 DEF Swept

(* A script that only renews, or does nothing. *)
LEMMA QuietRecord ==
  ASSUME Calm, UNCHANGED storeVars \/ \E j \in Jobs : \E t, f : Renew(j, t, f, now)
  PROVE  \A j \in Jobs : SameRecord(j) /\ (expiry'[j] # None => expiry'[j] \in Nat /\ expiry'[j] >= Lease)
<1>0. /\ expiry \in [Jobs -> Nat \cup {None}] /\ LeasesRun
      /\ now \in Nat /\ Lease \in Nat
  BY ClockAssumption DEF Calm, QueueInv, IInv, StoreTypeOK, Served
<1>1. CASE UNCHANGED storeVars
  BY <1>0, <1>1 DEF storeVars, SameRecord, LeasesRun
<1>2. ASSUME NEW k \in Jobs, NEW t, NEW f, Renew(k, t, f, now)
      PROVE  \A j \in Jobs : SameRecord(j) /\ (expiry'[j] # None => expiry'[j] \in Nat /\ expiry'[j] >= Lease)
  <2>1. expiry' = [expiry EXCEPT ![k] = now + Lease] /\ records' = records /\ fences' = fences
    BY <1>2 DEF Renew
  <2> QED BY <1>0, <2>1 DEF SameRecord, LeasesRun
<1> QED BY <1>1, <1>2

(* A script that removes a record. *)
LEMMA RemoveRecord ==
  ASSUME Calm, NEW k \in Jobs, Remove(k)
  PROVE  /\ NoRecord(k) /\ \A j \in Jobs \ {k} : SameRecord(j)
         /\ \A j \in Jobs : expiry'[j] # None => expiry'[j] \in Nat /\ expiry'[j] >= Lease
<1>0. /\ expiry \in [Jobs -> Nat \cup {None}] /\ records \in [Jobs -> Record \cup {None}]
      /\ fences \in [Jobs -> 0..MaxFence] /\ LeasesRun
  BY DEF Calm, QueueInv, IInv, StoreTypeOK, Served
<1>1. /\ expiry' = [expiry EXCEPT ![k] = None] /\ records' = [records EXCEPT ![k] = None]
      /\ fences' = [fences EXCEPT ![k] = 0]
  BY DEF Remove
<1> QED BY <1>0, <1>1 DEF SameRecord, NoRecord, LeasesRun

LEMMA ReserveRecord ==
  ASSUME Calm, NEW r \in Requests, ReserveStep(r)
  PROVE  /\ \A j \in Jobs : SameRecord(j) \/ CreatedBy(r, j)
         /\ \A j \in Jobs : expiry'[j] # None => expiry'[j] \in Nat /\ expiry'[j] >= Lease
<1> DEFINE k == KeyOf[r]
           new == [searchId |-> r, token |-> r, fp |-> FpOf[r]]
<1>0. /\ expiry \in [Jobs -> Nat \cup {None}] /\ records \in [Jobs -> Record \cup {None}]
      /\ fences \in [Jobs -> 0..MaxFence] /\ LeasesRun /\ KeysAgree
      /\ now \in Nat /\ Lease \in Nat /\ k \in Jobs
  BY ClockAssumption, Keys DEF Calm, QueueInv, IInv, StoreTypeOK, Served
<1>1. /\ \A j \in Jobs : Swept(records, now, None)[j] = records[j]
      /\ \A j \in Jobs : Swept(expiry, now, None)[j] = expiry[j]
      /\ \A j \in Jobs : Swept(fences, now, 0)[j] = fences[j]
      /\ Lapsed(now) = {}
  BY NoneLapsed
<1>2. Reserve(k, r, r, FpOf[r], now)
  BY DEF ReserveStep
<1>3. CASE ReserveRejected(k, r, FpOf[r], now)
  BY <1>0, <1>1, <1>3 DEF ReserveRejected, SameRecord, LeasesRun
<1>4. CASE ReserveExisting(k, r, FpOf[r], now)
  <2>1. \A j \in Jobs : expiry'[j] = IF j = k THEN now + Lease ELSE expiry[j]
    BY <1>0, <1>1, <1>4 DEF ReserveExisting, Swept
  <2> QED BY <1>0, <1>1, <1>4, <2>1 DEF ReserveExisting, SameRecord, LeasesRun
<1>5. CASE ReserveCreated(k, r, r, FpOf[r], now)
  <2>1. \A j \in Jobs : expiry'[j] = IF j = k THEN now + Lease ELSE expiry[j]
    BY <1>0, <1>1, <1>5 DEF ReserveCreated, Swept
  <2>2. records[k] = None /\ fences[k] = 0
    BY <1>0, <1>1, <1>5 DEF ReserveCreated, ReserveReply, KeysAgree
  <2>3. new.token = r /\ new # None
    BY NoneAssumption, Keys
  <2>4. \A j \in Jobs : records'[j] = IF j = k THEN new ELSE records[j]
    BY <1>0, <1>1, <1>5 DEF ReserveCreated, Swept
  <2>5. CreatedBy(r, k)
    <3> HIDE DEF new
    <3> QED BY <1>0, <1>1, <1>5, <2>2, <2>3, <2>4 DEF CreatedBy, ReserveCreated
  <2>6. \A j \in Jobs \ {k} : SameRecord(j)
    <3> HIDE DEF new
    <3> QED BY <1>0, <1>1, <1>5, <2>4 DEF SameRecord, ReserveCreated
  <2> QED BY <1>0, <2>1, <2>5, <2>6 DEF LeasesRun
<1> QED BY <1>2, <1>3, <1>4, <1>5 DEF Reserve

LEMMA AdoptRecord ==
  ASSUME Calm, NEW r \in Requests, AdoptStep(r)
  PROVE  /\ \A j \in Jobs : SameRecord(j) \/ AdoptedBy(r, j)
         /\ \A j \in Jobs : expiry'[j] # None => expiry'[j] \in Nat /\ expiry'[j] >= Lease
<1> DEFINE k == KeyOf[r]
           s == api[r].stored
           new == [searchId |-> s, token |-> s, fp |-> FpOf[r]]
<1>0. /\ expiry \in [Jobs -> Nat \cup {None}] /\ records \in [Jobs -> Record \cup {None}]
      /\ fences \in [Jobs -> 0..MaxFence] /\ LeasesRun
      /\ now \in Nat /\ Lease \in Nat /\ k \in Jobs /\ s \in Requests
  BY ClockAssumption, Keys, AdmittingRead
  DEF Calm, QueueInv, IInv, StoreTypeOK, Served, AdoptStep, Comparing
<1>1. CASE UNCHANGED storeVars
  BY <1>1, QuietRecord
<1>2. CASE Adopt(k, api[r].reserved, s, s, FpOf[r], now)
  <2>1. /\ records' = [records EXCEPT ![k] = new] /\ expiry' = [expiry EXCEPT ![k] = now + Lease]
        /\ fences' = [fences EXCEPT ![k] = 0] /\ HoldsFenced(k, api[r].reserved, 0)
    BY <1>2 DEF Adopt
  <2>2. new.token = s /\ new # None
    BY <1>0, NoneAssumption, Keys
  <2> HIDE DEF new
  <2>3. AdoptedBy(r, k)
    BY <1>0, <2>1, <2>2 DEF AdoptedBy
  <2>4. \A j \in Jobs \ {k} : SameRecord(j)
    BY <1>0, <2>1 DEF SameRecord
  <2> QED BY <1>0, <2>1, <2>3, <2>4 DEF LeasesRun
<1> QED BY <1>1, <1>2 DEF AdoptStep, AdoptReservation

LEMMA BeginRecord ==
  ASSUME Calm, NEW w \in Workers, BeginStep(w)
  PROVE  /\ \A j \in Jobs : SameRecord(j) \/ BegunBy(w, j)
         /\ \A j \in Jobs : expiry'[j] # None => expiry'[j] \in Nat /\ expiry'[j] >= Lease
<1> DEFINE k == worker[w].job
<1>0. /\ expiry \in [Jobs -> Nat \cup {None}] /\ fences \in [Jobs -> 0..MaxFence] /\ LeasesRun
      /\ now \in Nat /\ Lease \in Nat /\ k \in Jobs
  BY ClockAssumption DEF Calm, QueueInv, IInv, StoreTypeOK, Served, BeginStep, SlotsNamed, At
<1>1. CASE UNCHANGED storeVars
  BY <1>1, QuietRecord
<1>2. CASE Begin(k, worker[w].owner, now)
  <2>1. /\ records' = records /\ expiry' = [expiry EXCEPT ![k] = now + Lease]
        /\ fences' = [fences EXCEPT ![k] = @ + 1] /\ Holds(k, worker[w].owner)
    BY <1>2 DEF Begin
  <2>2. BegunBy(w, k)
    BY <1>0, <2>1 DEF BegunBy
  <2>3. \A j \in Jobs \ {k} : SameRecord(j)
    BY <1>0, <2>1 DEF SameRecord
  <2> QED BY <1>0, <2>1, <2>2, <2>3 DEF LeasesRun
<1> QED BY <1>1, <1>2 DEF BeginStep

LEMMA RecordCalm ==
  ASSUME Calm
  PROVE  LeasesRun' /\ \A j \in Jobs : RecordMoves(j)
<1> DEFINE Goal == LeasesRun' /\ \A j \in Jobs : RecordMoves(j)
<1>1. ASSUME UNCHANGED storeVars \/ \E j \in Jobs : \E t, f : Renew(j, t, f, now) PROVE Goal
  BY <1>1, QuietRecord DEF LeasesRun, RecordMoves
<1>2. ASSUME NEW r \in Requests, Moves(r) PROVE Goal
  <2> DEFINE k == KeyOf[r]
  <2>0. k \in Jobs
    BY Keys
  <2>1. CASE ReserveStep(r)
    BY <2>1, ReserveRecord DEF LeasesRun, RecordMoves
  <2>2. CASE AdoptStep(r)
    BY <2>2, AdoptRecord DEF LeasesRun, RecordMoves
  <2>3. CASE ReleaseTerminalStep(r)
    <3>1. CASE ReleaseTerminal(k, api[r].reserved)
      <4>1. Remove(k) /\ Holds(k, api[r].reserved)
        BY <3>1 DEF ReleaseTerminal
      <4>2. EndedBy(r, k)
        BY <2>0, <2>3, <4>1, RemoveRecord DEF EndedBy
      <4> QED BY <2>0, <4>1, <4>2, RemoveRecord DEF LeasesRun, RecordMoves
    <3> QED BY <1>1, <2>3, <3>1 DEF ReleaseTerminalStep
  <2>4. CASE UndoReservation(r)
    <3>1. CASE Release(k, r, 0)
      <4>1. Remove(k) /\ HoldsFenced(k, r, 0)
        BY <3>1 DEF Release
      <4>2. UndoneBy(r, k)
        BY <2>0, <2>4, <4>1, RemoveRecord DEF UndoneBy
      <4> QED BY <2>0, <4>1, <4>2, RemoveRecord DEF LeasesRun, RecordMoves
    <3> QED BY <1>1, <2>4, <3>1 DEF UndoReservation, MayCommit, Calm
  <2>5. CASE \/ CreateSession(r) \/ AddJob(r) \/ GetJob(r) \/ GetState(r) \/ ClearOwnSession(r) \/ WebCrash(r)
    BY <1>1, <2>5 DEF CreateSession, AddJob, GetJob, GetState, ClearOwnSession, WebCrash
  <2> QED BY <1>2, <2>1, <2>2, <2>3, <2>4, <2>5, NoFaultStep DEF Calm
<1>3. ASSUME NEW w \in Workers, Work(w) \/ Heartbeat(w) \/ WorkFault(w) PROVE Goal
  <2> DEFINE k == worker[w].job
  <2>0. ~At(w, "idle") => k \in Jobs
    BY DEF Calm, QueueInv, SlotsNamed
  <2>1. CASE BeginStep(w)
    BY <2>1, BeginRecord DEF LeasesRun, RecordMoves
  <2>2. CASE AssertOwnership(w) \/ RenewForRetry(w) \/ Heartbeat(w)
    BY <1>1, <2>0, <2>2 DEF AssertOwnership, RenewForRetry, Heartbeat, RenewOwned, At, Executing
  <2>3. CASE ReleaseStep(w)
    <3>1. CASE Owned(w)
      <4>1. Remove(k) /\ k \in Jobs
        BY <2>0, <2>3, <3>1 DEF ReleaseStep, Release, At
      <4>2. ReleasedBy(w, k)
        BY SMTT(30), <2>3, <3>1, <4>1, RemoveRecord DEF ReleasedBy
      <4> QED BY <4>1, <4>2, RemoveRecord DEF LeasesRun, RecordMoves
    <3> QED BY <1>1, <2>3, <3>1 DEF ReleaseStep
  <2>4. CASE \/ \E j \in Jobs : Take(w, j)
             \/ ClaimStep(w) \/ SearchProviders(w) \/ Persist(w) \/ MarkRetry(w) \/ MarkFailed(w)
             \/ Finish(w) \/ WorkerCrash(w)
    BY <1>1, <2>4 DEF Take, ClaimStep, SearchProviders, Persist, MarkRetry, MarkFailed, Finish, WorkerCrash
  <2> QED BY <1>3, <2>1, <2>2, <2>3, <2>4
          DEF Calm, Work, WorkFault, BeginTimeout, ClaimTimeout, AssertTimeout, RenewTimeout, PersistTimeout, MarkTimeout,
              ReleaseTimeout
<1>4. CASE \E j \in Jobs : Stall(j) \/ Retire(j)
  BY <1>1, <1>4 DEF Stall, Retire
<1>5. CASE Poll
  BY <1>5, NoneLapsed DEF Poll
<1>6. CASE Tick
  BY <1>1, <1>6 DEF Tick
<1> QED BY <1>2, <1>3, <1>4, <1>5, <1>6 DEF QueueNext, Calm, Moves

-----------------------------------------------------------------------------
(* What a step in time does to the job under a job id.                      *)
SameOwner(j)     == job'[j].owner = job[j].owner /\ job'[j].stalls = job[j].stalls
AddedBy(r, j)    == /\ AddJob(r) /\ KeyOf[r] = j /\ job[j].state = "none"
                    /\ job'[j].state = "waiting" /\ job'[j].owner = api[r].reserved /\ job'[j].stalls = 0
TakenBy(w, j)    == Take(w, j) /\ SameOwner(j) /\ job'[j].state = "active" /\ job'[j].lock = FreshExec
FinishedBy(w, j) == /\ Finish(w) /\ worker[w].job = j /\ SameOwner(j)
                    /\ job'[j].state \in {"waiting", "completed", "failed"}
                    /\ Retries(w) => job'[j].state = "waiting"
Stalled(j)       == /\ Stall(j) /\ ~LockHeld(j) /\ job'[j].owner = job[j].owner
                    /\ job'[j].stalls = job[j].stalls + 1
                    /\ job'[j].state = IF job[j].stalls < MaxStalled THEN "waiting" ELSE "failed"
RetiredNow(j)    == Retire(j) /\ job'[j].state = "none" /\ job'[j].owner = None /\ job'[j].stalls = 0

JobMoves(j) ==
    \/ job'[j] = job[j]
    \/ \E w \in Workers : TakenBy(w, j) \/ FinishedBy(w, j)
    \/ \E r \in Requests : AddedBy(r, j)
    \/ Stalled(j) \/ RetiredNow(j)

(* What the other moves of a job leave in it. *)
MovesOn(g, h, j, a, b, c)  == g = [h EXCEPT ![j].state = a, ![j].lock = b, ![j].attempts = c]
Stalling(g, h, j, a, b, c) == g = [h EXCEPT ![j].state = a, ![j].stalls = b, ![j].lock = c]

LEMMA FinishFields ==
  ASSUME NEW h \in [Jobs -> StoredJob], NEW j \in Jobs, NEW a, NEW b, NEW c, NEW g,
         MovesOn(g, h, j, a, b, c)
  PROVE  Whole(g, h, j) /\ g[j].state = a /\ g[j].owner = h[j].owner /\ g[j].stalls = h[j].stalls
<1> DEFINE h2 == [h EXCEPT ![j].state = a, ![j].lock = b]
<1>1. Whole(h2, h, j) /\ h2[j].state = a /\ h2[j].owner = h[j].owner /\ h2[j].stalls = h[j].stalls
  <2>1. Locks(h2, h, j, a, b)
    BY DEF Locks
  <2> HIDE DEF h2
  <2> QED BY <2>1, TakeFields
<1>2. g = [h2 EXCEPT ![j].attempts = c]
  BY DEF MovesOn
<1> HIDE DEF h2
<1> QED BY <1>1, <1>2 DEF Whole

LEMMA StallFields ==
  ASSUME NEW h \in [Jobs -> StoredJob], NEW j \in Jobs, NEW a, NEW b, NEW c, NEW g,
         Stalling(g, h, j, a, b, c)
  PROVE  Whole(g, h, j) /\ g[j].state = a /\ g[j].owner = h[j].owner /\ g[j].stalls = b
<1> DEFINE h1 == [h EXCEPT ![j].state = a]
           h2 == [h1 EXCEPT ![j].stalls = b]
<1>1. Whole(h1, h, j) /\ h1[j].state = a /\ h1[j].owner = h[j].owner
  BY DEF StoredJob, Whole
<1>2. g = [h2 EXCEPT ![j].lock = c]
  BY DEF Stalling
<1> HIDE DEF h1
<1>3. Whole(h2, h, j) /\ h2[j].state = a /\ h2[j].owner = h[j].owner /\ h2[j].stalls = b
  BY <1>1 DEF Whole
<1> HIDE DEF h2
<1> QED BY <1>2, <1>3 DEF Whole

LEMMA JobCalm ==
  ASSUME Calm
  PROVE  \A j \in Jobs : JobMoves(j)
<1>0. job \in [Jobs -> StoredJob] /\ QueueInv
  BY DEF Calm, QueueInv, QueueTypeOK
<1>1. CASE UNCHANGED job
  BY <1>1 DEF JobMoves
<1>2. ASSUME NEW r \in Requests, AddJob(r) PROVE \A j \in Jobs : JobMoves(j)
  <2> DEFINE k == KeyOf[r]
             o == api[r].reserved
             a == [NoJob EXCEPT !.state = "waiting"]
             b == [a EXCEPT !.owner = o]
  <2>1. CASE job[k].state = "none"
    <3>1. job' = [job EXCEPT ![k] = b] /\ k \in Jobs
      BY <1>2, <2>1, Keys DEF AddJob, JobAdded
    <3> HIDE DEF o
    <3>2. /\ DOMAIN a = {"state", "owner", "attempts", "stalls", "lock"}
          /\ a.state = "waiting" /\ a.stalls = 0
      BY DEF NoJob
    <3>3. b.state = "waiting" /\ b.owner = o /\ b.stalls = 0
      <4> HIDE DEF a
      <4> QED BY <3>2
    <3> HIDE DEF b
    <3>4. AddedBy(r, k)
      BY <1>0, <1>2, <2>1, <3>1, <3>3 DEF AddedBy, o
    <3> QED BY <1>0, <3>1, <3>4 DEF JobMoves
  <2>2. CASE job[k].state # "none"
    BY <1>1, <1>2, <2>2 DEF AddJob, JobAdded
  <2> QED BY <2>1, <2>2
<1>3. ASSUME NEW w \in Workers, NEW k \in Jobs, Take(w, k) PROVE \A j \in Jobs : JobMoves(j)
  <2>1. Locks(job', job, k, "active", FreshExec)
    BY <1>3 DEF Take, Locks
  <2>2. TakenBy(w, k) /\ \A j \in Jobs \ {k} : job'[j] = job[j]
    BY <1>0, <1>3, <2>1, TakeFields DEF TakenBy, SameOwner, Whole
  <2> QED BY <2>2 DEF JobMoves
<1>4. ASSUME NEW w \in Workers, Finish(w) PROVE \A j \in Jobs : JobMoves(j)
  <2> DEFINE k == worker[w].job
             next == IF worker[w].outcome = "completed" THEN "completed"
                     ELSE IF Retries(w) THEN "waiting" ELSE "failed"
  <2>0. k \in Jobs
    BY <1>0, <1>4 DEF Finish, At, QueueInv, SlotsNamed
  <2>1. CASE MovesOn(job', job, k, next, 0, worker[w].attempt)
    <3>1. next \in {"waiting", "completed", "failed"} /\ (Retries(w) => next = "waiting")
      BY DEF Retries
    <3> HIDE DEF next
    <3>2. FinishedBy(w, k) /\ \A j \in Jobs \ {k} : job'[j] = job[j]
      BY <1>0, <1>4, <2>0, <2>1, <3>1, FinishFields DEF FinishedBy, SameOwner, Whole
    <3> QED BY <3>2 DEF JobMoves
  <2> QED BY <1>1, <1>4, <2>1 DEF Finish, Retries, MovesOn
<1>5. ASSUME NEW k \in Jobs, Stall(k) PROVE \A j \in Jobs : JobMoves(j)
  <2> DEFINE next == IF job[k].stalls < MaxStalled THEN "waiting" ELSE "failed"
             m == job[k].stalls + 1
  <2>1. Stalling(job', job, k, next, m, 0)
    BY <1>5 DEF Stall, Stalling
  <2>2. ~LockHeld(k)
    BY <1>5 DEF Stall, Calm, QueueInv, QueueTypeOK
  <2>3. job'[k].state = next /\ job'[k].stalls = m /\ job'[k].owner = job[k].owner
        /\ \A j \in Jobs \ {k} : job'[j] = job[j]
    <3> HIDE DEF next, m
    <3> QED BY <1>0, <2>1, StallFields DEF Whole
  <2>4. Stalled(k)
    BY <1>5, <2>2, <2>3 DEF Stalled
  <2> QED BY <2>3, <2>4 DEF JobMoves
<1>6. ASSUME NEW k \in Jobs, Retire(k) PROVE \A j \in Jobs : JobMoves(j)
  <2>1. job' = [job EXCEPT ![k] = NoJob] /\ NoJob.state = "none" /\ NoJob.owner = None /\ NoJob.stalls = 0
    BY <1>6 DEF Retire, NoJob
  <2>2. RetiredNow(k) /\ \A j \in Jobs \ {k} : job'[j] = job[j]
    BY SMTT(30), <1>0, <1>6, <2>1 DEF RetiredNow
  <2> QED BY <2>2 DEF JobMoves
<1>7. ASSUME NEW r \in Requests, Moves(r), ~AddJob(r) PROVE UNCHANGED job
  <2>1. Web(r) \/ WebFault(r)
    BY <1>7 DEF Moves
  <2> QED BY <1>7, NoFaultStep DEF Calm, CreateSession, ReserveStep, GetJob, GetState, ReleaseTerminalStep,
             AdoptStep, UndoReservation, ClearOwnSession, WebCrash
<1>8. ASSUME NEW w \in Workers, Work(w) \/ Heartbeat(w) \/ WorkFault(w)
      PROVE  Finish(w) \/ (\E j \in Jobs : Take(w, j)) \/ UNCHANGED job
  BY <1>8 DEF Work, Heartbeat, WorkFault, BeginStep, ClaimStep, SearchProviders, AssertOwnership, Persist,
     MarkRetry, RenewForRetry, MarkFailed, ReleaseStep, BeginTimeout, ClaimTimeout, AssertTimeout, RenewTimeout,
     PersistTimeout, MarkTimeout, ReleaseTimeout, WorkerCrash
<1>9. Poll \/ Tick => UNCHANGED job
  BY DEF Poll, Tick
<1> QED BY <1>1, <1>2, <1>3, <1>4, <1>5, <1>6, <1>7, <1>8, <1>9 DEF QueueNext, Calm, Moves

(* The steps of a slot in time. *)
SlotSteps(w) ==
    \/ \E j \in Jobs : Take(w, j)
    \/ BeginStep(w) \/ ClaimStep(w) \/ SearchProviders(w) \/ AssertOwnership(w) \/ Persist(w)
    \/ MarkRetry(w) \/ RenewForRetry(w) \/ MarkFailed(w) \/ ReleaseStep(w) \/ Finish(w)
    \/ Heartbeat(w) \/ WorkerCrash(w)

LEMMA SlotMoves ==
  ASSUME Calm, NEW w \in Workers
  PROVE  /\ worker'[w] = worker[w] \/ SlotSteps(w)
         /\ ~At(w, "idle")' =>
               \/ Taken(w)
               \/ /\ ~At(w, "idle") /\ worker'[w].job = worker[w].job
                  /\ worker'[w].owner = worker[w].owner /\ worker'[w].exec = worker[w].exec
         /\ ~At(w, "idle") /\ At(w, "idle")' => Finish(w) \/ (WorkerCrash(w) /\ crashes' = crashes + 1)
<1> DEFINE Goal == /\ worker'[w] = worker[w] \/ SlotSteps(w)
                   /\ ~At(w, "idle")' =>
                         \/ Taken(w)
                         \/ /\ ~At(w, "idle") /\ worker'[w].job = worker[w].job
                            /\ worker'[w].owner = worker[w].owner /\ worker'[w].exec = worker[w].exec
                   /\ ~At(w, "idle") /\ At(w, "idle")' =>
                         Finish(w) \/ (WorkerCrash(w) /\ crashes' = crashes + 1)
<1>0. QueueInv /\ QueueNext /\ ~Fault
  BY DEF Calm
<1>1. CASE worker'[w] = worker[w]
  BY <1>1 DEF At
<1>2. ASSUME NEW u \in Workers, Work(u) \/ Heartbeat(u) \/ WorkFault(u) PROVE Goal
  <2>1. OtherSlotsSame(u) /\ (Taken(u) \/ Granted(u) \/ GoesOn(u) \/ Freed(u))
    BY <1>0, <1>2, WorkTyped
  <2>2. CASE u # w
    BY <1>1, <2>1, <2>2 DEF OtherSlotsSame
  <2>3. CASE u = w
    <3>1. SlotSteps(w)
      BY <1>0, <1>2, <2>3 DEF SlotSteps, Work, WorkFault, BeginTimeout, ClaimTimeout, AssertTimeout, RenewTimeout,
         PersistTimeout, MarkTimeout, ReleaseTimeout
    <3>2. ~At(w, "idle") /\ At(w, "idle")' => Finish(w) \/ (WorkerCrash(w) /\ crashes' = crashes + 1)
      <4> SUFFICES ASSUME ~At(w, "idle"), At(w, "idle")' PROVE Finish(w) \/ WorkerCrash(w)
        BY DEF WorkerCrash
      <4>1. worker[w] \in Slot /\ worker \in [Workers -> Slot]
        BY <1>0 DEF QueueInv, QueueTypeOK
      <4>2. ASSUME Heartbeat(w) PROVE FALSE
        <5>1. worker' = worker \/ worker' = [worker EXCEPT ![w].lost = TRUE]
          BY <4>2 DEF Heartbeat
        <5>2. worker'[w].pc = worker[w].pc
          BY <4>1, <5>1 DEF Slot
        <5> QED BY <5>2 DEF At
      <4>3. ASSUME NEW pc, Become(w, pc), pc # "idle" PROVE FALSE
        BY <4>1, <4>3 DEF Become, At, Slot
      <4>4. ASSUME NEW outcome, Settle(w, outcome) \/ ReleaseThen(w, outcome) PROVE FALSE
        <5>1. PICK pc \in {"finish", "release"} : Marked(w, pc, outcome)
          BY <4>4 DEF Settle, ReleaseThen, Marked
        <5> DEFINE a == [worker EXCEPT ![w].pc = pc]
        <5>2. worker' = [a EXCEPT ![w].outcome = outcome]
          BY <5>1 DEF Marked
        <5>3. a \in [Workers -> Slot] /\ a[w].pc = pc
          BY <4>1, <5>1 DEF Slot, SlotPcs
        <5> HIDE DEF a
        <5>4. worker'[w].pc = pc
          BY <5>2, <5>3 DEF Slot
        <5> QED BY <5>1, <5>4 DEF At
      <4>5. ASSUME BeginStep(w) PROVE FALSE
        <5>1. Granted(w) \/ Settle(w, "error") \/ Starts(w, fences[worker[w].job] + 1)
          BY <4>5 DEF BeginStep, Starts
        <5>2. Starts(w, fences[worker[w].job] + 1) => worker'[w].pc = "claim"
          <6>1. fences[worker[w].job] + 1 \in Nat
            BY <1>0, <4>5, FenceAssumption DEF BeginStep, At, QueueInv, SlotsNamed, IInv, StoreTypeOK
          <6> QED BY <1>0, <6>1, GrantTyped DEF QueueInv
        <5> QED BY <4>4, <5>1, <5>2 DEF Granted, At
      <4>6. ~CatchRetryable(w)
        BY <4>3 DEF CatchRetryable
      <4> QED BY <3>1, <4>2, <4>3, <4>4, <4>5, <4>6
              DEF SlotSteps, Take, ClaimStep, SearchProviders, AssertOwnership, Persist, MarkRetry,
                  RenewForRetry, MarkFailed, ReleaseStep
    <3>3. ~At(w, "idle")' =>
             \/ Taken(w)
             \/ /\ ~At(w, "idle") /\ worker'[w].job = worker[w].job
                /\ worker'[w].owner = worker[w].owner /\ worker'[w].exec = worker[w].exec
      BY <2>1, <2>3 DEF Granted, GoesOn, Freed, SameExecution, At
    <3> QED BY <3>1, <3>2, <3>3
  <2> QED BY <2>2, <2>3
<1>3. ASSUME NEW r \in Requests, Web(r) \/ WebFault(r) PROVE worker' = worker
  BY <1>3 DEF Web, WebFault, UnchangedByWeb, CreateSession, ReserveStep, AddJob, GetJob,
     GetState, ReleaseTerminalStep, AdoptStep, UndoReservation, ClearOwnSession, CreateTimeout, ReserveTimeout,
     AddTimeout, ReadTimeout, RetainedTimeout, ClearTimeout, WebCrash
<1> QED BY <1>0, <1>1, <1>2, <1>3, ElseUnchanged

-----------------------------------------------------------------------------
(* A search that is over stays over; a session that is gone stays gone.     *)
LEMMA OverStays ==
  ASSUME Calm, NEW s \in Requests
  PROVE  /\ Over(s) => Over(s)'
         /\ session[s].stage = "cleared" => session'[s].stage = "cleared"
BY FinalStep DEF Calm, Over

(* What a step does to the session of a request that has begun. *)
LEMMA SessionMoves ==
  ASSUME Calm, NEW s \in Requests, api[s].pc # "new"
  PROVE  \/ session'[s] = session[s]
         \/ session'[s].stage = "cleared"
         \/ \E w \in Workers : worker[w].owner = s /\ (ClaimedBy(w, s) \/ WrittenBy(w, s))
<1>0. QueueInv /\ QueueNext
  BY DEF Calm
<1>1. ASSUME NEW r \in Requests, Web(r) \/ WebFault(r)
      PROVE  session'[s] = session[s] \/ session'[s].stage = "cleared"
  <2>1. OtherSessionsSame(r) /\ (session'[r] = session[r] \/ Made(r) \/ ClearedOf(r))
    BY <1>0, <1>1, WebSession
  <2> QED BY <2>1 DEF OtherSessionsSame, Made, ClearedOf
<1>2. ASSUME NEW w \in Workers, Work(w) \/ Heartbeat(w) \/ WorkFault(w)
      PROVE  \/ session'[s] = session[s]
             \/ worker[w].owner = s /\ (ClaimedBy(w, s) \/ WrittenBy(w, s))
  <2> DEFINE q == worker[w].owner
  <2>1. \/ session' = session
        \/ q \in Requests /\ OtherSessionsSame(q) /\ (ClaimedBy(w, q) \/ WrittenBy(w, q))
    BY <1>0, <1>2, WorkSession
  <2> HIDE DEF q
  <2>2. CASE q = s
    BY <2>1, <2>2 DEF q
  <2>3. CASE q # s
    BY <2>1, <2>3 DEF OtherSessionsSame
  <2> QED BY <2>2, <2>3
<1> QED BY <1>0, <1>1, <1>2, ElseUnchanged

(* Whom a token is of. *)
LEMMA NamedRequest ==
  ASSUME Calm, NEW s, NEW j, Names(s, j)
  PROVE  s \in Requests /\ api[s].pc # "new" /\ api[s].pc # "reserve" /\ s \in issued /\ KeyOf[s] = j
BY RequestsAssumption DEF Calm, QueueInv, IInv, StoreTypeOK, AdmittingNamed, Names

LEMMA SlotNamed ==
  ASSUME Calm, NEW w \in Workers, ~At(w, "idle")
  PROVE  /\ worker[w].job \in Jobs /\ Names(worker[w].owner, worker[w].job) /\ SlotServed(w)
         /\ worker[w].owner \in Requests /\ KeyOf[worker[w].owner] = worker[w].job
         /\ job[worker[w].job].state = "active" /\ job[worker[w].job].owner = worker[w].owner
BY NamedRequest DEF Calm, QueueInv, SlotsNamed, Served, SlotsServed, SlotsAlone

LEMMA Fences ==
  ASSUME Calm, NEW j \in Jobs
  PROVE  fences[j] \in Nat /\ fences'[j] \in Nat
<1>1. StoreTypeOK /\ StoreTypeOK'
  BY QueueInvKept DEF Calm, QueueInv, IInv
<1> QED BY <1>1, FenceAssumption DEF StoreTypeOK

LEMMA SessionFences ==
  ASSUME Calm, NEW s \in Requests
  PROVE  session[s].fence \in Nat /\ session'[s].fence \in Nat
<1>1. QueueTypeOK /\ QueueTypeOK'
  BY QueueInvKept DEF Calm, QueueInv
<1> QED BY <1>1 DEF QueueTypeOK, Session

LEMMA BehindStays ==
  ASSUME Calm, NEW j \in Jobs, NEW s, Names(s, j), Over(s) \/ Behind(s, j), fences[j] <= fences'[j]
  PROVE  Over(s)' \/ Behind(s, j)'
<1>0. s \in Requests /\ api[s].pc # "new" /\ KeyOf[s] = j
  BY NamedRequest
<1>1. session[s].fence \in Nat /\ session'[s].fence \in Nat /\ fences[j] \in Nat /\ fences'[j] \in Nat
  BY <1>0, Fences, SessionFences
<1>2. CASE Over(s)
  BY <1>0, <1>2, OverStays
<1>3. ASSUME Behind(s, j), NEW w \in Workers, worker[w].owner = s, ClaimedBy(w, s) PROVE Behind(s, j)'
  <2>1. At(w, "claim") /\ ~Over(s) /\ session'[s].fence = worker[w].fence
    BY <1>3 DEF ClaimedBy, MayClaim, Over
  <2>2. worker[w].fence = fences[j]
    BY <1>0, <1>3, <2>1, SlotNamed DEF SlotServed, At
  <2> QED BY <1>1, <2>1, <2>2 DEF Behind
<1>4. ASSUME Behind(s, j), NEW w \in Workers, worker[w].owner = s, WrittenBy(w, s) PROVE Behind(s, j)'
  BY <1>1, <1>4 DEF Behind, WrittenBy
<1>5. ASSUME Behind(s, j), session'[s] = session[s] PROVE Behind(s, j)'
  BY <1>1, <1>5 DEF Behind
<1> QED BY <1>0, <1>2, <1>3, <1>4, <1>5, SessionMoves DEF Over

-----------------------------------------------------------------------------
(* The slots and their jobs. *)
(* A job loses its execution only to the death of its worker, and stalls    *)
(* only then.                                                               *)
LEMMA CrashesGrow == Calm => crashes \in Nat /\ crashes' \in Nat /\ crashes <= crashes'
<1> SUFFICES ASSUME Calm PROVE crashes \in Nat /\ crashes' \in Nat /\ crashes <= crashes'
  OBVIOUS
<1>1. QueueNext /\ crashes \in Nat /\ crashes' \in Nat
  BY QueueInvKept DEF Calm, QueueInv, QueueTypeOK
<1> QED BY <1>1, CountersGrow

LEMMA StalledOrphan ==
  ASSUME Calm, NEW j \in Jobs, Stalled(j)
  PROVE  Orphaned(j) /\ (NotGivenUp' => job'[j].state = "waiting") /\ job'[j].state # "active"
<1>1. job[j].state = "active" /\ ~LockHeld(j)
  BY DEF Stalled, Stall
<1>2. Orphaned(j)
  BY <1>1 DEF Orphaned, LockHeld, Calm, Served, SlotsAlone
<1>3. NotGivenUp' => job[j].stalls + 1 <= MaxStalled
  BY DEF NotGivenUp, Stalled
<1>4. job[j].stalls \in Nat /\ MaxStalled \in Nat
  BY QueueBoundsAssumption DEF Calm, QueueInv, QueueTypeOK, StoredJob
<1> QED BY <1>2, <1>3, <1>4 DEF Stalled

LEMMA StallsCountedKept == Calm /\ StallsCounted => StallsCounted'
<1> SUFFICES ASSUME Calm, StallsCounted, NEW j \in Jobs
             PROVE  job'[j].stalls + (IF Orphaned(j)' THEN 1 ELSE 0) <= crashes'
  BY DEF StallsCounted
<1>0. /\ crashes \in Nat /\ crashes' \in Nat /\ crashes <= crashes' /\ job[j].stalls \in Nat
      /\ job[j].stalls + (IF Orphaned(j) THEN 1 ELSE 0) <= crashes
  BY CrashesGrow DEF Calm, StallsCounted, QueueInv, QueueTypeOK, StoredJob
<1>1. CASE job'[j] = job[j]
  <2>1. ASSUME Orphaned(j)', ~Orphaned(j) PROVE crashes' = crashes + 1
    <3>1. job[j].state = "active"
      BY <1>1, <2>1 DEF Orphaned
    <3> PICK w \in Workers : ~At(w, "idle") /\ worker[w].job = j
      BY <2>1, <3>1 DEF Orphaned
    <3>2. At(w, "idle")'
      <4> SUFFICES ASSUME ~At(w, "idle")' PROVE FALSE
        OBVIOUS
      <4>1. ~Taken(w)
        BY DEF Taken
      <4>2. worker'[w].job = j
        BY <4>1, SlotMoves
      <4> QED BY <2>1, <4>2 DEF Orphaned
    <3>3. ASSUME Finish(w) PROVE FALSE
      <4>1. job[j].lock = worker[w].exec
        BY DEF Calm, Served, SlotsAlone
      <4> DEFINE next == IF worker[w].outcome = "completed" THEN "completed"
                         ELSE IF Retries(w) THEN "waiting" ELSE "failed"
      <4>2. MovesOn(job', job, j, next, 0, worker[w].attempt)
        BY <3>1, <3>3, <4>1 DEF Finish, MovesOn, Retries
      <4>3. next # "active"
        OBVIOUS
      <4> HIDE DEF next
      <4>4. job'[j].state = next
        BY <4>2, FinishFields DEF Calm, QueueInv, QueueTypeOK
      <4> QED BY <1>1, <3>1, <4>3, <4>4
    <3> QED BY <3>2, <3>3, SlotMoves
  <2> QED BY <1>0, <1>1, <2>1
<1>2. ASSUME NEW r \in Requests, AddedBy(r, j)
      PROVE  job'[j].stalls + (IF Orphaned(j)' THEN 1 ELSE 0) <= crashes'
  BY <1>0, <1>2 DEF AddedBy, Orphaned
<1>3. ASSUME NEW w \in Workers, TakenBy(w, j)
      PROVE  job'[j].stalls + (IF Orphaned(j)' THEN 1 ELSE 0) <= crashes'
  <2>1. Taken(w) /\ worker'[w].pc = "begin" /\ worker'[w].job = j
    <3>1. \E k \in Jobs : worker'[w].job = k
      BY <1>3, TakeTyped DEF TakenBy, Calm, Taken
    <3> DEFINE s5 == [Idle EXCEPT !.pc = "begin", !.job = j, !.owner = job[j].owner,
                                  !.exec = FreshExec, !.attempt = job[j].attempts + 1]
    <3>2. worker' = [worker EXCEPT ![w] = s5] /\ s5.job = j
      BY <1>3 DEF TakenBy, Take, Idle
    <3>3. worker'[w].job = j
      <4> HIDE DEF s5
      <4> QED BY <3>2 DEF Calm, QueueInv, QueueTypeOK
    <3> QED BY <1>3, <3>3, TakeTyped DEF TakenBy, Calm, Taken
  <2>2. ~Orphaned(j)'
    BY <2>1 DEF Orphaned, At
  <2> QED BY <1>0, <1>3, <2>2 DEF TakenBy, SameOwner
<1>4. ASSUME NEW w \in Workers, FinishedBy(w, j)
      PROVE  job'[j].stalls + (IF Orphaned(j)' THEN 1 ELSE 0) <= crashes'
  BY <1>0, <1>4 DEF FinishedBy, SameOwner, Orphaned
<1>5. ASSUME Stalled(j) PROVE job'[j].stalls + (IF Orphaned(j)' THEN 1 ELSE 0) <= crashes'
  <2>1. job'[j].state # "active" /\ Orphaned(j) /\ job'[j].stalls = job[j].stalls + 1
    BY <1>5, StalledOrphan DEF Stalled
  <2> QED BY <1>0, <2>1 DEF Orphaned
<1>6. ASSUME RetiredNow(j) PROVE job'[j].stalls + (IF Orphaned(j)' THEN 1 ELSE 0) <= crashes'
  BY <1>0, <1>6 DEF RetiredNow, Orphaned
<1> QED BY <1>1, <1>2, <1>3, <1>4, <1>5, <1>6, JobCalm DEF JobMoves

-----------------------------------------------------------------------------
(* The admission of the stored job stays until its search is over.          *)
LEMMA HoldsStays ==
  ASSUME Calm, NEW j \in Jobs, NEW s \in Requests, job[j].owner = s, Holds(j, s),
         Over(s) \/ Behind(s, j)
  PROVE  Over(s)' \/ (Holds(j, s)' /\ Behind(s, j)')
<1>0. QueueInv /\ Names(s, j) /\ job[j].state # "none" /\ s # None
  BY StoredOwner, RequestsAssumption DEF Calm
<1>1. ASSUME records'[j] = records[j], fences[j] <= fences'[j]
      PROVE  Over(s)' \/ (Holds(j, s)' /\ Behind(s, j)')
  BY <1>0, <1>1, BehindStays DEF Holds
<1>2. CASE SameRecord(j)
  BY <1>1, <1>2, Fences DEF SameRecord
<1>3. ASSUME NEW w \in Workers, BegunBy(w, j) PROVE Over(s)' \/ (Holds(j, s)' /\ Behind(s, j)')
  BY <1>1, <1>3, Fences DEF BegunBy
<1>4. ASSUME NEW w \in Workers, ReleasedBy(w, j) PROVE Over(s)' \/ (Holds(j, s)' /\ Behind(s, j)')
  <2>1. worker[w].owner = s /\ At(w, "release") /\ ~At(w, "idle")
    BY <1>4 DEF ReleasedBy, Owned, HoldsFenced, Holds, ReleaseStep, At
  <2>2. Over(s)
    BY <2>1, SlotNamed DEF SlotServed
  <2> QED BY <2>2, OverStays
<1>5. ASSUME NEW r \in Requests, EndedBy(r, j) \/ AdoptedBy(r, j) PROVE FALSE
  <2>1. api[r].pc \in Comparing /\ KeyOf[r] = j /\ api[r].reserved = s
    BY <1>5 DEF EndedBy, AdoptedBy, ReleaseTerminalStep, AdoptStep, Comparing, HoldsFenced, Holds
  <2>2. job[j].owner \in {None, api[r].stored} /\ api[r].stored # api[r].reserved
    BY <2>1 DEF Calm, Served, RequestsServed, RequestServed, QueueInv, AdmittingNamed
  <2> QED BY <1>0, <2>1, <2>2
<1>6. ASSUME NEW r \in Requests, UndoneBy(r, j) PROVE FALSE
  <2>1. r = s /\ api[s].pc = "undo"
    BY <1>6 DEF UndoneBy, UndoReservation, HoldsFenced, Holds
  <2>2. OwnJobAdded(s)
    BY <1>0 DEF Calm, Ordered, JobsLive
  <2> QED BY <2>1, <2>2 DEF OwnJobAdded, InProgress
<1>7. ASSUME NEW r \in Requests, CreatedBy(r, j) PROVE FALSE
  BY <1>7 DEF CreatedBy, Holds
<1> QED BY <1>2, <1>3, <1>4, <1>5, <1>6, <1>7, RecordCalm DEF RecordMoves

LEMMA JobsServedKept == Calm /\ NotGivenUp' => JobsServed'
<1> DEFINE Goal(j) == /\ Pending(j)' => \/ Over(job[j].owner)'
                                        \/ Holds(j, job[j].owner)' /\ Behind(job[j].owner, j)'
                      /\ job'[j].state \in {"completed", "failed"} => Over(job[j].owner)'
<1> SUFFICES ASSUME Calm, NotGivenUp', NEW j \in Jobs PROVE Goal(j)
  BY DEF JobsServed
<1>0. QueueInv /\ JobsServed
  BY DEF Calm, Served
<1>1. ASSUME job'[j].owner = job[j].owner, job[j].state # "none",
             Over(job[j].owner) \/ (Pending(j) /\ job'[j].state \notin {"completed", "failed"})
      PROVE  Goal(j)
  <2>0. job[j].owner \in issued /\ issued \subseteq Requests
    BY <1>0, <1>1, RequestsAssumption DEF QueueInv, JobsNamed, Names, IInv, StoreTypeOK
  <2> PICK s \in Requests : s = job[j].owner /\ s = job'[j].owner
    BY <1>1, <2>0
  <2>1. CASE Over(s)
    <3>1. Over(s)'
      BY <2>1, OverStays
    <3> QED BY <3>1 DEF Over
  <2>2. CASE ~Over(s)
    <3>1. Holds(j, s) /\ Behind(s, j) /\ job'[j].state \notin {"completed", "failed"}
      BY <1>0, <1>1, <2>2 DEF JobsServed
    <3>2. Over(s)' \/ (Holds(j, s)' /\ Behind(s, j)')
      BY <3>1, HoldsStays
    <3> QED BY <3>1, <3>2 DEF Over, Holds, Behind
  <2> QED BY <2>1, <2>2
<1>2. CASE job'[j] = job[j]
  <2>1. job[j].state \in JobStates
    BY <1>0 DEF QueueInv, QueueTypeOK, StoredJob
  <2>2. CASE job[j].state = "none"
    BY <1>2, <2>2 DEF Pending
  <2>3. CASE job[j].state # "none"
    BY <1>0, <1>1, <1>2, <2>1, <2>3 DEF Pending, JobStates, JobsServed
  <2> QED BY <2>2, <2>3
<1>3. ASSUME NEW w \in Workers, TakenBy(w, j) PROVE Goal(j)
  BY <1>1, <1>3 DEF TakenBy, Take, SameOwner, Pending
<1>4. ASSUME NEW w \in Workers, FinishedBy(w, j) PROVE Goal(j)
  <2>1. At(w, "finish") /\ ~At(w, "idle") /\ worker[w].job = j /\ job'[j].owner = job[j].owner
    BY <1>4 DEF FinishedBy, Finish, SameOwner, At
  <2>2. job[j].state = "active" /\ job[j].owner = worker[w].owner /\ (Retries(w) \/ Over(worker[w].owner))
    BY <2>1, SlotNamed DEF SlotServed
  <2> QED BY <1>1, <1>4, <2>1, <2>2 DEF FinishedBy, Pending
<1>5. ASSUME Stalled(j) PROVE Goal(j)
  BY <1>1, <1>5, StalledOrphan DEF Stalled, Stall, Pending
<1>6. ASSUME NEW r \in Requests, AddedBy(r, j) PROVE Goal(j)
  <2>1. api[r].pc = "add" /\ KeyOf[r] = j /\ UNCHANGED storeVars
    BY <1>6 DEF AddedBy, AddJob
  <2>2. Names(api[r].reserved, j) /\ (Over(api[r].reserved) \/ Holds(j, api[r].reserved))
    BY <2>1 DEF Calm, Served, RequestsServed, RequestServed, QueueInv, AdmittingNamed, Reserved
  <2> PICK s : s = api[r].reserved
    OBVIOUS
  <2>3. s \in Requests /\ job'[j].owner = s /\ job'[j].state = "waiting"
    BY <1>6, <2>2, NamedRequest DEF AddedBy
  <2>4. Over(s) \/ (Holds(j, s) /\ Behind(s, j))
    BY <2>2 DEF Calm, Served, RecordsServed, Holds
  <2>5. Over(s)' \/ Behind(s, j)'
    BY <2>1, <2>2, <2>4, Fences, BehindStays DEF storeVars
  <2>6. Over(s)' \/ (Holds(j, s)' /\ Behind(s, j)')
    BY <2>1, <2>3, <2>4, <2>5, OverStays DEF storeVars, Holds
  <2> QED BY <2>3, <2>6 DEF Over, Holds, Behind
<1>7. ASSUME RetiredNow(j) PROVE Goal(j)
  BY <1>7 DEF RetiredNow, Pending
<1> QED BY <1>2, <1>3, <1>4, <1>5, <1>6, <1>7, JobCalm DEF JobMoves

LEMMA RecordsServedKept == Calm => RecordsServed'
<1> SUFFICES ASSUME Calm, NEW j \in Jobs, records'[j] # None
             PROVE  Over(records[j].token)' \/ Behind(records[j].token, j)'
  BY DEF RecordsServed
<1>1. ASSUME records'[j] = records[j], fences[j] <= fences'[j]
      PROVE  Over(records[j].token)' \/ Behind(records[j].token, j)'
  <2> PICK t : t = records[j].token /\ t = records'[j].token
    BY <1>1
  <2>1. Names(t, j) /\ (Over(t) \/ Behind(t, j))
    BY <1>1 DEF Calm, Served, RecordsServed, QueueInv, RecordsNamed
  <2>2. Over(t)' \/ Behind(t, j)'
    BY <1>1, <2>1, BehindStays
  <2> QED BY <2>2 DEF Over, Behind
<1>2. CASE SameRecord(j)
  BY <1>1, <1>2, Fences DEF SameRecord
<1>3. ASSUME NEW w \in Workers, BegunBy(w, j) PROVE Over(records[j].token)' \/ Behind(records[j].token, j)'
  BY <1>1, <1>3, Fences DEF BegunBy
<1>4. ASSUME NEW r \in Requests, CreatedBy(r, j) PROVE Over(records[j].token)' \/ Behind(records[j].token, j)'
  <2>1. session'[r].fence = 0 /\ records'[j].token = r /\ fences'[j] = 0
    BY <1>4 DEF CreatedBy, ReserveStep, Calm, Served, RequestsServed, RequestServed
  <2> QED BY <2>1 DEF Behind
<1>5. ASSUME NEW r \in Requests, AdoptedBy(r, j) PROVE Over(records[j].token)' \/ Behind(records[j].token, j)'
  <2>1. Over(api[r].stored) /\ UNCHANGED session /\ records'[j].token = api[r].stored
    BY <1>5 DEF AdoptedBy, AdoptStep, Calm, Served, RequestsServed, RequestServed, Comparing
  <2> QED BY <2>1 DEF Over
<1> QED BY <1>2, <1>3, <1>4, <1>5, RecordCalm DEF RecordMoves, ReleasedBy, EndedBy, UndoneBy, NoRecord

-----------------------------------------------------------------------------
(* What a step of a slot leaves of it. *)
SameTask(w) ==
    /\ worker'[w].job = worker[w].job /\ worker'[w].owner = worker[w].owner
    /\ worker'[w].exec = worker[w].exec /\ worker'[w].attempt = worker[w].attempt

LEMMA BecomeTask ==
  ASSUME Calm, NEW w \in Workers, NEW pc \in SlotPcs, Become(w, pc)
  PROVE  /\ worker'[w].pc = pc /\ SameTask(w) /\ worker'[w].fence = worker[w].fence
         /\ worker'[w].lost = worker[w].lost
<1>1. worker[w] \in Slot /\ worker'[w] = [worker[w] EXCEPT !.pc = pc]
  BY DEF Calm, QueueInv, QueueTypeOK, Become
<1> QED BY <1>1 DEF Slot, SameTask

LEMMA MarkedTask ==
  ASSUME Calm, NEW w \in Workers, NEW pc \in SlotPcs, NEW outcome, Marked(w, pc, outcome)
  PROVE  /\ worker'[w].pc = pc /\ SameTask(w) /\ worker'[w].fence = worker[w].fence
         /\ worker'[w].lost = worker[w].lost /\ worker'[w].outcome = outcome
<1> DEFINE a == [worker EXCEPT ![w].pc = pc]
<1>1. /\ a \in [Workers -> Slot] /\ a[w].pc = pc
      /\ a[w].job = worker[w].job /\ a[w].owner = worker[w].owner /\ a[w].exec = worker[w].exec
      /\ a[w].attempt = worker[w].attempt /\ a[w].fence = worker[w].fence /\ a[w].lost = worker[w].lost
  BY DEF Calm, QueueInv, QueueTypeOK, Slot
<1>2. worker' = [a EXCEPT ![w].outcome = outcome]
  BY DEF Marked
<1> HIDE DEF a
<1>3. a[w] \in Slot /\ worker'[w] = [a[w] EXCEPT !.outcome = outcome]
  BY <1>1, <1>2
<1> QED BY <1>1, <1>3 DEF Slot, SameTask

LEMMA StartsTask ==
  ASSUME Calm, NEW w \in Workers, NEW n \in Nat, Starts(w, n)
  PROVE  /\ worker'[w].pc = "claim" /\ SameTask(w) /\ worker'[w].fence = n
         /\ worker'[w].lost = worker[w].lost
<1> DEFINE a == [worker EXCEPT ![w].pc = "claim"]
<1>1. /\ a \in [Workers -> Slot] /\ a[w].pc = "claim"
      /\ a[w].job = worker[w].job /\ a[w].owner = worker[w].owner /\ a[w].exec = worker[w].exec
      /\ a[w].attempt = worker[w].attempt /\ a[w].lost = worker[w].lost
  BY DEF Calm, QueueInv, QueueTypeOK, Slot, SlotPcs
<1>2. worker' = [a EXCEPT ![w].fence = n]
  BY DEF Starts
<1> HIDE DEF a
<1>3. a[w] \in Slot /\ worker'[w] = [a[w] EXCEPT !.fence = n]
  BY <1>1, <1>2
<1> QED BY <1>1, <1>3 DEF Slot, SameTask

LEMMA LostTask ==
  ASSUME Calm, NEW w \in Workers, worker' = [worker EXCEPT ![w].lost = TRUE]
  PROVE  worker'[w].pc = worker[w].pc /\ SameTask(w) /\ worker'[w].fence = worker[w].fence
         /\ worker'[w].outcome = worker[w].outcome
<1>1. worker[w] \in Slot /\ worker'[w] = [worker[w] EXCEPT !.lost = TRUE]
  BY DEF Calm, QueueInv, QueueTypeOK
<1> QED BY <1>1 DEF Slot, SameTask

LEMMA TakeLost ==
  ASSUME Calm, NEW w \in Workers, NEW j \in Jobs, Take(w, j)
  PROVE  worker'[w].pc = "begin" /\ ~worker'[w].lost
<1> DEFINE o == job[j].owner
           n == FreshExec
           t == job[j].attempts + 1
           a == [Idle EXCEPT !.pc = "begin", !.job = j, !.owner = o, !.exec = n, !.attempt = t]
<1>1. worker'[w] = a
  BY DEF Take, Calm, QueueInv, QueueTypeOK
<1> HIDE DEF o, n, t
<1>2. a.pc = "begin" /\ a.lost = FALSE
  BY DEF Idle
<1> HIDE DEF a
<1> QED BY <1>1, <1>2

LEMMA WrittenStage ==
  ASSUME Calm, NEW w \in Workers, NEW s \in Requests, worker[w].owner = s, NEW stage,
         session' = Written(w, stage)
  PROVE  /\ session'[s].stage = stage /\ session'[s].fence = session[s].fence
         /\ session'[s].exec = IF stage \in Terminal THEN 0 ELSE session[s].exec
<1> DEFINE n == IF stage \in Terminal THEN 0 ELSE session[s].exec
           a == [session EXCEPT ![s].stage = stage]
<1>1. /\ DOMAIN a = Requests /\ DOMAIN a[s] = {"stage", "fence", "exec"}
      /\ a[s].stage = stage /\ a[s].fence = session[s].fence /\ a[s].exec = session[s].exec
  BY DEF Calm, QueueInv, QueueTypeOK, Session
<1>2. session' = [a EXCEPT ![s].exec = n]
  BY <1>1 DEF Written
<1> HIDE DEF a, n
<1>3. session'[s].stage = stage /\ session'[s].fence = session[s].fence /\ session'[s].exec = n
  BY <1>1, <1>2
<1> QED BY <1>3 DEF n

(* The record and the session of an execution that its own step leaves      *)
(* alone.                                                                   *)
LEMMA OtherWork ==
  ASSUME Calm, NEW w \in Workers, NEW v \in Workers, ~At(w, "idle"), ~At(v, "idle"), v # w
  PROVE  worker[v].job # worker[w].job /\ worker[v].owner # worker[w].owner
<1>1. worker[v].job # worker[w].job
  BY DEF Calm, Served, SlotsAlone
<1> QED BY <1>1, SlotNamed

LEMMA SlotRecord ==
  ASSUME Calm, NEW w \in Workers, ~At(w, "idle"), ~BeginStep(w), ~ReleaseStep(w)
  PROVE  LET j == worker[w].job IN
         /\ fences'[j] = fences[j]
         /\ Holds(j, worker[w].owner) => records'[j] = records[j]
<1> PICK j \in Jobs, s \in Requests :
       /\ j = worker[w].job /\ s = worker[w].owner /\ job[j].owner = s /\ job[j].state # "none"
       /\ Names(s, j)
  BY SlotNamed
<1>1. ~Holds(j, s) => fences[j] = 0
  BY DEF Calm, Served, BegunPending
<1>2. CASE SameRecord(j)
  BY <1>2 DEF SameRecord
<1>3. ASSUME NEW v \in Workers, ReleasedBy(v, j) \/ BegunBy(v, j) PROVE FALSE
  <2>1. ~At(v, "idle") /\ worker[v].job = j /\ v # w
    BY <1>3 DEF ReleasedBy, BegunBy, ReleaseStep, BeginStep, At
  <2> QED BY <2>1, OtherWork
<1>4. ASSUME NEW r \in Requests, EndedBy(r, j) \/ AdoptedBy(r, j) PROVE ~Holds(j, s) /\ fences'[j] = 0
  <2>1. /\ api[r].pc \in Comparing /\ KeyOf[r] = j /\ Holds(j, api[r].reserved)
        /\ fences'[j] = 0
    BY <1>4 DEF EndedBy, AdoptedBy, ReleaseTerminalStep, AdoptStep, Comparing, HoldsFenced, NoRecord
  <2>2. job[j].owner \in {None, api[r].stored} /\ api[r].stored # api[r].reserved
    BY <2>1 DEF Calm, Served, RequestsServed, RequestServed, QueueInv, AdmittingNamed
  <2>3. s # None
    BY RequestsAssumption
  <2> QED BY <2>1, <2>2, <2>3 DEF Holds
<1>5. ASSUME NEW r \in Requests, UndoneBy(r, j) PROVE ~Holds(j, s) /\ fences'[j] = 0
  <2>1. Holds(j, r) /\ api[r].pc = "undo" /\ fences'[j] = 0
    BY <1>5 DEF UndoneBy, UndoReservation, HoldsFenced, NoRecord
  <2>2. OwnJobAdded(s)
    BY DEF Calm, Ordered, JobsLive
  <2>3. r # s
    BY <2>1, <2>2 DEF OwnJobAdded, InProgress
  <2> QED BY <2>1, <2>3 DEF Holds
<1>6. ASSUME NEW r \in Requests, CreatedBy(r, j) PROVE ~Holds(j, s) /\ fences'[j] = 0
  BY <1>6 DEF CreatedBy, Holds
<1> QED BY <1>1, <1>2, <1>3, <1>4, <1>5, <1>6, RecordCalm DEF RecordMoves

LEMMA SlotSession ==
  ASSUME Calm, NEW w \in Workers, ~At(w, "idle"),
         ~ClaimStep(w), ~Persist(w), ~MarkRetry(w), ~MarkFailed(w)
  PROVE  LET s == worker[w].owner IN session'[s] = session[s] \/ session'[s].stage = "cleared"
<1> PICK s \in Requests : s = worker[w].owner /\ api[s].pc # "new"
  BY SlotNamed, NamedRequest
<1>0. QueueInv /\ QueueNext
  BY DEF Calm
<1>1. ASSUME NEW r \in Requests, Web(r) \/ WebFault(r)
      PROVE  session'[s] = session[s] \/ session'[s].stage = "cleared"
  <2>1. OtherSessionsSame(r) /\ (session'[r] = session[r] \/ Made(r) \/ ClearedOf(r))
    BY <1>0, <1>1, WebSession
  <2> QED BY <2>1 DEF OtherSessionsSame, Made, ClearedOf
<1>2. ASSUME NEW v \in Workers, Work(v) \/ Heartbeat(v) \/ WorkFault(v) PROVE session'[s] = session[s]
  <2>1. CASE v = w
    BY <1>2, <2>1 DEF Work, Heartbeat, WorkFault, Take, BeginStep, SearchProviders, AssertOwnership,
       RenewForRetry, ReleaseStep, Finish, BeginTimeout, ClaimTimeout, AssertTimeout, RenewTimeout, PersistTimeout,
       MarkTimeout, ReleaseTimeout, WorkerCrash, Calm
  <2>2. CASE v # w
    <3> DEFINE q == worker[v].owner
    <3>1. \/ session' = session
          \/ q \in Requests /\ OtherSessionsSame(q) /\ (ClaimedBy(v, q) \/ WrittenBy(v, q))
      BY <1>0, <1>2, WorkSession
    <3>2. ClaimedBy(v, q) \/ WrittenBy(v, q) => q # s
      BY <2>2, OtherWork DEF ClaimedBy, WrittenBy, At
    <3> HIDE DEF q
    <3> QED BY <3>1, <3>2 DEF OtherSessionsSame
  <2> QED BY SMTT(30), <2>1, <2>2
<1> QED BY <1>0, <1>1, <1>2, ElseUnchanged

-----------------------------------------------------------------------------
(* The first execution step finds the admission or a search that is over.   *)
LEMMA BeginServed ==
  ASSUME Calm, NEW w \in Workers, BeginStep(w)
  PROVE  SlotServed(w)'
<1> PICK j \in Jobs, s \in Requests :
       /\ j = worker[w].job /\ s = worker[w].owner /\ job[j].owner = s /\ job[j].state = "active"
  BY SlotNamed DEF BeginStep, At
<1>0. /\ fences[j] \in Nat /\ session[s].fence \in Nat /\ ~worker[w].lost /\ session' = session
      /\ DOMAIN fences = Jobs
  BY SlotNamed, Fences, SessionFences
  DEF BeginStep, At, SlotServed, Calm, QueueInv, IInv, StoreTypeOK
<1>1. Over(s) \/ (Holds(j, s) /\ Behind(s, j))
  BY DEF Calm, Served, JobsServed, Pending
<1>2. CASE Begin(j, s, now) /\ Starts(w, fences[j] + 1)
  <2>1. /\ worker'[w].pc = "claim" /\ SameTask(w) /\ worker'[w].fence = fences[j] + 1
        /\ worker'[w].lost = worker[w].lost
    BY <1>0, <1>2, StartsTask
  <2>2. fences'[j] = fences[j] + 1 /\ records' = records /\ Holds(j, s)
    BY <1>0, <1>2 DEF Begin
  <2>3. session'[s].fence < fences'[j] \/ Over(s)'
    BY <1>0, <1>1, <2>2 DEF Behind, Over
  <2> QED BY <1>0, <2>1, <2>2, <2>3
          DEF SlotServed, At, Over, Claimers, Owned, HoldsFenced, Holds, SameTask
<1>3. CASE ~Holds(j, s) /\ Settle(w, "error") /\ UNCHANGED storeVars
  <2>1. fences[j] = 0 /\ Over(s)
    BY <1>1, <1>3 DEF Calm, Served, BegunPending
  <2>2. /\ worker'[w].pc = "finish" /\ SameTask(w) /\ worker'[w].lost = worker[w].lost
    BY <1>3, MarkedTask DEF Settle, Marked, SlotPcs
  <2> QED BY <1>0, <1>3, <2>1, <2>2 DEF SlotServed, At, Over, Claimers, SameTask, storeVars
<1> QED BY <1>2, <1>3 DEF BeginStep, Starts

LEMMA ReleaseServed ==
  ASSUME Calm, NEW w \in Workers, ReleaseStep(w)
  PROVE  SlotServed(w)'
<1> PICK j \in Jobs, s \in Requests : j = worker[w].job /\ s = worker[w].owner
  BY SlotNamed DEF ReleaseStep, At
<1>0. At(w, "release") /\ session' = session /\ Become(w, "finish") /\ DOMAIN fences = Jobs
  BY DEF ReleaseStep, Calm, QueueInv, IInv, StoreTypeOK
<1>1. Over(s) /\ (fences[j] = 0 \/ Owned(w))
  BY <1>0, SlotNamed DEF SlotServed, At
<1>2. fences'[j] = 0
  BY <1>0, <1>1 DEF ReleaseStep, Release, Remove, storeVars
<1>3. worker'[w].pc = "finish" /\ SameTask(w)
  BY <1>0, BecomeTask DEF SlotPcs
<1> QED BY <1>0, <1>1, <1>2, <1>3 DEF SlotServed, At, Over, Claimers, SameTask

(* What the claim and the writes on the session leave the execution with.   *)
LEMMA ClaimServed ==
  ASSUME Calm, NEW w \in Workers, ClaimStep(w)
  PROVE  SlotServed(w)'
<1> PICK j \in Jobs, s \in Requests : j = worker[w].job /\ s = worker[w].owner
  BY SlotNamed DEF ClaimStep, At
<1>0. /\ At(w, "claim") /\ UNCHANGED storeVars /\ SlotServed(w)
      /\ worker[w].fence \in Nat /\ session[s].fence \in Nat /\ DOMAIN session = Requests
  BY SlotNamed, SessionFences DEF ClaimStep, At, Calm, QueueInv, QueueTypeOK, Slot
<1>1. /\ Over(s) \/ (worker[w].fence = fences[j] /\ session[s].fence < fences[j])
      /\ worker[w].fence > 0 /\ (fences[j] = 0 \/ Owned(w)) /\ (worker[w].lost => fences[j] = 0)
  BY <1>0 DEF SlotServed, At
<1>2. CASE MayClaim(w) /\ session' = Claimed(w) /\ Become(w, "search")
  <2>1. worker'[w].pc = "search" /\ SameTask(w) /\ worker'[w].fence = worker[w].fence
        /\ worker'[w].lost = worker[w].lost
    BY <1>2, BecomeTask DEF SlotPcs
  <2>2. session'[s].exec = worker[w].exec /\ session'[s].fence = worker[w].fence
    BY <1>0, <1>2 DEF Claimed
  <2>3. worker[w].fence = fences[j]
    BY <1>1, <1>2 DEF MayClaim, Over
  <2> QED BY <1>0, <1>1, <2>1, <2>2, <2>3
          DEF SlotServed, At, Claimers, SessionOwned, Owned, HoldsFenced, Holds, SameTask, storeVars
<1>3. CASE ~MayClaim(w) /\ UNCHANGED session
  <2>1. Over(s)
    BY <1>1, <1>3 DEF MayClaim, Over
  <2>2. CASE session[s].stage \in Terminal /\ ReleaseThen(w, "completed")
    <3>1. worker'[w].pc = "release" /\ SameTask(w) /\ worker'[w].fence = worker[w].fence
          /\ worker'[w].lost = worker[w].lost
      BY <2>2, MarkedTask DEF ReleaseThen, Marked, SlotPcs
    <3> QED BY <1>0, <1>1, <1>3, <2>1, <3>1
            DEF SlotServed, At, Claimers, Over, Owned, HoldsFenced, Holds, SameTask, storeVars
  <2>3. CASE session[s].stage = "cleared" /\ Become(w, "fail")
    <3>1. worker'[w].pc = "fail" /\ SameTask(w) /\ worker'[w].fence = worker[w].fence
          /\ worker'[w].lost = worker[w].lost
      BY <2>3, BecomeTask DEF SlotPcs
    <3> QED BY <1>0, <1>1, <1>3, <2>3, <3>1
            DEF SlotServed, At, Claimers, SessionGone, Owned, HoldsFenced, Holds, SameTask, storeVars
  <2> QED BY <1>3, <2>1, <2>2, <2>3 DEF ClaimStep, Over
<1> QED BY <1>2, <1>3 DEF ClaimStep

LEMMA WriteServed ==
  ASSUME Calm, NEW w \in Workers, Persist(w) \/ MarkRetry(w) \/ MarkFailed(w)
  PROVE  SlotServed(w)'
<1> PICK j \in Jobs, s \in Requests : j = worker[w].job /\ s = worker[w].owner
  BY SlotNamed DEF Persist, MarkRetry, MarkFailed, At
<1>0. /\ worker[w].pc \in {"persist", "retry", "fail"} /\ UNCHANGED storeVars
  BY DEF Persist, MarkRetry, MarkFailed, At
<1>1. SlotServed(w)
  BY <1>0, SlotNamed DEF At
<1>2. /\ SessionGone(w) \/ (SessionOwned(w) /\ worker[w].fence = fences[j])
      /\ worker[w].fence > 0 /\ (fences[j] = 0 \/ Owned(w)) /\ (worker[w].lost => fences[j] = 0)
      /\ At(w, "retry") => worker[w].attempt < MaxAttempts
  BY <1>0, <1>1 DEF SlotServed, Claimers, At
<1>g. ~(SessionOwned(w) /\ SessionGone(w))
  BY <1>0 DEF SessionOwned, SessionGone, Calm, QueueInv, SessionsClosed, SlotsNamed, At
<1>3. ASSUME NEW outcome, ReleaseThen(w, outcome), Over(s)' PROVE SlotServed(w)'
  <2>1. worker'[w].pc = "release" /\ SameTask(w) /\ worker'[w].fence = worker[w].fence
        /\ worker'[w].lost = worker[w].lost
    BY <1>3, MarkedTask DEF ReleaseThen, Marked, SlotPcs
  <2> QED BY <1>0, <1>2, <1>3, <2>1
          DEF SlotServed, At, Claimers, Over, Owned, HoldsFenced, Holds, SameTask, storeVars
<1>4. ASSUME NEW pc \in {"renew", "fail"}, Become(w, pc), pc = "renew" => At(w, "retry"),
             \/ session'[s].stage = "cleared"
             \/ SessionOwned(w) /\ session'[s].exec = session[s].exec /\ session'[s].fence = session[s].fence
      PROVE  SlotServed(w)'
  <2>1. worker'[w].pc = pc /\ SameTask(w) /\ worker'[w].fence = worker[w].fence
        /\ worker'[w].lost = worker[w].lost
    BY <1>4, BecomeTask DEF SlotPcs
  <2>2. session'[s].stage = "cleared" \/
        /\ worker[w].fence = fences[j]
        /\ session'[s].exec = worker[w].exec /\ session'[s].fence = worker[w].fence
    BY <1>2, <1>4, <1>g DEF SessionOwned, SessionGone
  <2> QED BY <1>0, <1>2, <1>4, <2>1, <2>2
          DEF SlotServed, At, Claimers, SessionOwned, SessionGone, Owned, HoldsFenced, Holds, SameTask, storeVars
<1>5. CASE Persist(w)
  <2>1. CASE SessionOwned(w) /\ session' = Written(w, "complete") /\ ReleaseThen(w, "completed")
    <3>1. Over(s)'
      BY <2>1, WrittenStage DEF Over, Terminal
    <3> QED BY <1>3, <2>1, <3>1
  <2>2. CASE Become(w, "fail") /\ UNCHANGED session
    BY <1>2, <1>4, <1>5, <2>2 DEF SessionGone, Persist, At
  <2> QED BY <1>2, <1>5, <2>1, <2>2 DEF Persist
<1>6. CASE MarkRetry(w)
  <2>1. CASE SessionOwned(w) /\ session' = Written(w, "retrying") /\ Become(w, "renew")
    <3>1. session'[s].exec = session[s].exec /\ session'[s].fence = session[s].fence
      BY <2>1, WrittenStage DEF Terminal
    <3> QED BY <1>4, <1>6, <2>1, <3>1 DEF MarkRetry
  <2>2. CASE SessionGone(w) /\ UNCHANGED session /\ Become(w, "renew")
    BY <1>4, <1>6, <2>2 DEF SessionGone, MarkRetry
  <2> QED BY <1>2, <1>6, <2>1, <2>2 DEF MarkRetry
<1>7. CASE MarkFailed(w)
  <2>1. CASE SessionOwned(w) /\ session' = Written(w, "failed") /\ ReleaseThen(w, "unrecoverable")
    <3>1. Over(s)'
      BY <2>1, WrittenStage DEF Over, Terminal
    <3> QED BY <1>3, <2>1, <3>1
  <2>2. CASE SessionGone(w) /\ UNCHANGED session /\ ReleaseThen(w, "unrecoverable")
    BY <1>3, <2>2 DEF SessionGone, Over
  <2> QED BY <1>2, <1>7, <2>1, <2>2 DEF MarkFailed
<1> QED BY <1>5, <1>6, <1>7

(* Any other step of the queue, of this execution or not. *)
LEMMA QuietServed ==
  ASSUME Calm, NEW w \in Workers, ~At(w, "idle"),
         ~BeginStep(w), ~ReleaseStep(w), ~ClaimStep(w), ~Persist(w), ~MarkRetry(w), ~MarkFailed(w),
         \/ worker'[w] = worker[w]
         \/ SearchProviders(w) \/ AssertOwnership(w) \/ RenewForRetry(w) \/ Heartbeat(w)
  PROVE  SlotServed(w)'
<1> PICK j \in Jobs, s \in Requests : j = worker[w].job /\ s = worker[w].owner
  BY SlotNamed
<1>0. SlotServed(w) /\ worker[w] \in Slot
  BY SlotNamed DEF Calm, QueueInv, QueueTypeOK
<1>1. fences'[j] = fences[j] /\ (Holds(j, s) => records'[j] = records[j])
  BY SlotRecord
<1>2. session'[s] = session[s] \/ session'[s].stage = "cleared"
  BY SlotSession
<1>3. Over(s) => Over(s)'
  BY OverStays
<1>4. CASE worker'[w] = worker[w]
  BY <1>0, <1>1, <1>2, <1>3, <1>4
  DEF SlotServed, At, Claimers, SessionOwned, SessionGone, Owned, HoldsFenced, Holds, Over, Retries
<1>5. ASSUME NEW pc \in {"assert", "persist", "retry", "fail"}, Become(w, pc),
             worker[w].pc \in {"search", "assert"}, pc = "retry" => worker[w].attempt < MaxAttempts
      PROVE  SlotServed(w)'
  <2>1. worker'[w].pc = pc /\ SameTask(w) /\ worker'[w].fence = worker[w].fence
        /\ worker'[w].lost = worker[w].lost
    BY <1>5, BecomeTask DEF SlotPcs
  <2>2. /\ SessionGone(w) \/ (SessionOwned(w) /\ worker[w].fence = fences[j])
        /\ worker[w].fence > 0 /\ (fences[j] = 0 \/ Owned(w)) /\ (worker[w].lost => fences[j] = 0)
    BY <1>0, <1>5 DEF SlotServed, Claimers
  <2>3. session'[s].stage = "cleared" \/
        /\ worker[w].fence = fences[j]
        /\ session'[s].exec = worker[w].exec /\ session'[s].fence = worker[w].fence
    BY <1>2, <2>2 DEF SessionOwned, SessionGone
  <2> QED BY <1>1, <1>5, <2>1, <2>2, <2>3
          DEF SlotServed, At, Claimers, SessionOwned, SessionGone, Owned, HoldsFenced, Holds, SameTask
<1>6. CASE SearchProviders(w)
  <2>1. worker[w].pc = "search"
    BY <1>6 DEF SearchProviders, At
  <2>2. Become(w, "assert") \/ Become(w, "fail") \/ (Become(w, "retry") /\ worker[w].attempt < MaxAttempts)
    BY <1>6 DEF SearchProviders, CatchRetryable
  <2> QED BY <1>5, <2>1, <2>2
<1>7. CASE AssertOwnership(w)
  <2>1. worker[w].pc = "assert"
    BY <1>7 DEF AssertOwnership, At
  <2>2. CASE Become(w, "persist")
    BY <1>5, <2>1, <2>2
  <2>3. CASE (~Owned(w) \/ worker[w].lost) /\ Settle(w, "unrecoverable")
    <3>1. worker'[w].pc = "finish" /\ SameTask(w)
      BY <2>3, MarkedTask DEF Settle, Marked, SlotPcs
    <3>2. fences[j] = 0 /\ SessionGone(w)
      BY <1>0, <2>1, <2>3 DEF SlotServed, Claimers
    <3>3. Over(s)'
      BY <1>3, <3>2 DEF SessionGone, Over
    <3> QED BY <1>1, <3>1, <3>2, <3>3 DEF SlotServed, At, Claimers, Over, SameTask
  <2> QED BY <1>7, <2>2, <2>3 DEF AssertOwnership
<1>8. CASE RenewForRetry(w)
  <2>1. worker'[w].pc = "finish" /\ SameTask(w) /\ worker'[w].outcome = "error"
        /\ worker'[w].lost = worker[w].lost
    BY <1>8, MarkedTask DEF RenewForRetry, Settle, Marked, SlotPcs
  <2>2. worker[w].attempt < MaxAttempts /\ (worker[w].lost => fences[j] = 0)
    BY <1>0, <1>8 DEF SlotServed, RenewForRetry, At
  <2> QED BY <1>1, <2>1, <2>2 DEF SlotServed, At, Claimers, Retries, SameTask
<1>9. CASE Heartbeat(w) /\ worker'[w] # worker[w]
  <2>1. ~Owned(w) /\ worker' = [worker EXCEPT ![w].lost = TRUE]
        /\ worker[w].pc \in Claimers \cup {"claim"}
    BY <1>9 DEF Heartbeat, Executing, Claimers
  <2>2. worker'[w].pc = worker[w].pc /\ SameTask(w) /\ worker'[w].fence = worker[w].fence
    BY <2>1, LostTask
  <2>3. fences[j] = 0
    BY <1>0, <2>1 DEF SlotServed
  <2> QED BY <1>0, <1>1, <1>2, <1>3, <2>1, <2>2, <2>3
          DEF SlotServed, At, Claimers, SessionOwned, SessionGone, Over, SameTask
<1> QED BY <1>4, <1>6, <1>7, <1>8, <1>9

LEMMA SlotsServedKept == Calm => SlotsServed'
<1> SUFFICES ASSUME Calm, NEW w \in Workers, ~At(w, "idle")' PROVE SlotServed(w)'
  BY DEF SlotsServed
<1>1. ASSUME NEW j \in Jobs, Take(w, j) PROVE SlotServed(w)'
  BY <1>1, TakeLost DEF SlotServed, At, Claimers
<1>2. ~(Finish(w) \/ WorkerCrash(w))
  <2>1. Finish(w) \/ WorkerCrash(w) => worker'[w] = Idle
    BY DEF Finish, WorkerCrash, Calm, QueueInv, QueueTypeOK
  <2> QED BY <2>1 DEF Idle, At
<1>3. CASE At(w, "idle")
  <2>1. worker'[w] # worker[w]
    BY <1>3 DEF At
  <2>2. SlotSteps(w)
    BY <2>1, SlotMoves
  <2> QED BY <1>1, <1>2, <1>3, <2>2
          DEF SlotSteps, At, BeginStep, ClaimStep, SearchProviders, AssertOwnership, Persist, MarkRetry,
              RenewForRetry, MarkFailed, ReleaseStep, Heartbeat, Executing
<1>4. CASE ~At(w, "idle")
  <2>1. ~\E j \in Jobs : Take(w, j)
    BY <1>4 DEF Take
  <2> QED BY <1>2, <1>4, <2>1, SlotMoves, BeginServed, ReleaseServed, ClaimServed, WriteServed, QuietServed
          DEF SlotSteps
<1> QED BY <1>3, <1>4

-----------------------------------------------------------------------------
(* The requests. *)
LEMMA OtherRequest ==
  ASSUME Calm, NEW r \in Requests, NEW q \in Requests, InProgress(r), InProgress(q), KeyOf[q] = KeyOf[r]
  PROVE  q = r
BY DEF Calm, Ordered, OnePerKey

LEMMA ReservedNow ==
  ASSUME Calm, NEW r \in Requests, ReserveStep(r), NEW t \in Requests, NEW o \in {"created", "existing"},
         Reserving(r, o, t)
  PROVE  Holds(KeyOf[r], t)'
<1> DEFINE j == KeyOf[r]
<1>0. j \in Jobs /\ Lapsed(now) = {} /\ Swept(records, now, None)[j] = records[j]
      /\ DOMAIN Swept(records, now, None) = Jobs
  BY Keys, NoneLapsed DEF Swept
<1>1. Reserve(j, r, r, FpOf[r], now) /\ o = ReserveReply(j, FpOf[r], now)
  BY DEF ReserveStep, Reserving
<1>2. CASE o = "existing"
  <2>1. records[j] # None /\ t = records[j].token
    BY <1>1, <1>2 DEF Reserving, ReserveReply
  <2>2. records' = Swept(records, now, None)
    BY <1>1, <1>2 DEF Reserve, ReserveRejected, ReserveExisting, ReserveCreated
  <2> QED BY <1>0, <2>1, <2>2 DEF Holds
<1>3. CASE o = "created"
  <2> DEFINE new == [searchId |-> r, token |-> r, fp |-> FpOf[r]]
  <2>1. records' = [Swept(records, now, None) EXCEPT ![j] = new] /\ t = r
    BY <1>1, <1>3 DEF Reserving, Reserve, ReserveRejected, ReserveExisting, ReserveCreated
  <2>2. new.token = r /\ new # None
    BY NoneAssumption, Keys
  <2> HIDE DEF new
  <2> QED BY <1>0, <2>1, <2>2 DEF Holds
<1> QED BY <1>2, <1>3

(* A session whose request has reserved nothing yet has no execution. *)
LEMMA NewSession ==
  ASSUME Calm, NEW r \in Requests, api[r].pc \in {"new", "reserve"}, ~CreateSession(r)
  PROVE  session'[r] = session[r]
<1>0. QueueInv /\ QueueNext
  BY DEF Calm
<1>1. ASSUME NEW q \in Requests, Web(q) \/ WebFault(q) PROVE session'[r] = session[r]
  <2>1. CASE q = r
    BY <1>0, <1>1, <2>1, WebSession DEF ClearedOf, Calm, CreateTimeout
  <2>2. CASE q # r
    BY <1>0, <1>1, <2>2, WebSession DEF OtherSessionsSame
  <2> QED BY <2>1, <2>2
<1>2. ASSUME NEW w \in Workers, Work(w) \/ Heartbeat(w) \/ WorkFault(w) PROVE session'[r] = session[r]
  <2> DEFINE q == worker[w].owner
  <2>1. \/ session' = session
        \/ q \in Requests /\ OtherSessionsSame(q) /\ (ClaimedBy(w, q) \/ WrittenBy(w, q))
    BY <1>0, <1>2, WorkSession
  <2>2. ClaimedBy(w, q) \/ WrittenBy(w, q) => q # r
    BY SlotNamed, NamedRequest DEF ClaimedBy, WrittenBy, At
  <2> HIDE DEF q
  <2> QED BY <2>1, <2>2 DEF OtherSessionsSame
<1> QED BY <1>0, <1>1, <1>2, ElseUnchanged

LEMMA BystanderServed ==
  ASSUME Calm, NEW r \in Requests, ~Moves(r)
  PROVE  RequestServed(r)'
<1> DEFINE j == KeyOf[r]
<1>0. RequestServed(r) /\ api'[r] = api[r] /\ j \in Jobs /\ ~CreateSession(r)
  BY Bystander, Keys DEF Calm, Served, RequestsServed, Moves, Web
<1>1. api[r].pc \in {"new", "reserve"} => session'[r].fence = 0
  BY <1>0, NewSession DEF RequestServed
<1>2. ASSUME api[r].pc \in Reserved
      PROVE  /\ ~\E q \in Requests : \/ EndedBy(q, j) \/ UndoneBy(q, j) \/ CreatedBy(q, j)
                                     \/ AdoptedBy(q, j) \/ AddedBy(q, j)
  <2> SUFFICES ASSUME NEW q \in Requests,
                      \/ EndedBy(q, j) \/ UndoneBy(q, j) \/ CreatedBy(q, j) \/ AdoptedBy(q, j) \/ AddedBy(q, j)
               PROVE  FALSE
    OBVIOUS
  <2>1. InProgress(q) /\ KeyOf[q] = j /\ Moves(q)
    BY DEF EndedBy, UndoneBy, CreatedBy, AdoptedBy, AddedBy, ReleaseTerminalStep, UndoReservation, ReserveStep,
       AdoptStep, AddJob, InProgress, Moves, Web
  <2>2. InProgress(r)
    BY <1>2 DEF InProgress, Reserved
  <2> QED BY <2>1, <2>2, OtherRequest
<1>3. ASSUME api[r].pc \in Reserved
      PROVE  /\ records'[j] = None \/ records'[j] = records[j]
             /\ Holds(j, api[r].reserved) => records'[j] = records[j] \/ Over(api[r].reserved)
  <2>1. ASSUME NEW w \in Workers, ReleasedBy(w, j), Holds(j, api[r].reserved) PROVE Over(api[r].reserved)
    <3>1. At(w, "release") /\ worker[w].owner = api[r].reserved
      BY <2>1 DEF ReleasedBy, ReleaseStep, Owned, HoldsFenced, Holds
    <3> QED BY <3>1, SlotNamed DEF SlotServed, At
  <2> QED BY <1>0, <1>2, <1>3, <2>1, RecordCalm DEF RecordMoves, SameRecord, BegunBy, ReleasedBy, NoRecord
<1>4. ASSUME api[r].pc \in Comparing
      PROVE  Over(api[r].stored)' /\ job'[j].owner \in {None, api[r].stored}
  <2>1. job'[j].owner = job[j].owner \/ job'[j].owner = None
    BY <1>0, <1>2, <1>4, JobCalm DEF JobMoves, TakenBy, FinishedBy, SameOwner, Stalled, RetiredNow,
       Comparing, Reserved
  <2> PICK s \in Requests : s = api[r].stored
    BY <1>4, AdmittingRead DEF Calm
  <2>2. Over(s)'
    BY <1>0, <1>4, OverStays DEF RequestServed
  <2> QED BY <1>0, <1>4, <2>1, <2>2 DEF RequestServed, Over
<1>5. ASSUME api[r].pc = "add" PROVE Over(api[r].reserved)' \/ Holds(j, api[r].reserved)'
  <2> PICK s \in Requests : s = api[r].reserved
    BY <1>5, AdmittingRead DEF Calm, Reserved
  <2>1. Over(s) \/ Holds(j, s)
    BY <1>0, <1>5 DEF RequestServed
  <2>2. Over(s)' \/ Holds(j, s)'
    BY <1>3, <1>5, <2>1, OverStays DEF Holds, Reserved
  <2> QED BY <1>0, <2>2 DEF Over, Holds
<1> QED BY <1>0, <1>1, <1>3, <1>4, <1>5 DEF RequestServed, Holds, Over

LEMMA MoverServed ==
  ASSUME Calm, NEW r \in Requests, Moves(r)
  PROVE  RequestServed(r)'
<1> DEFINE j == KeyOf[r]
<1>0. /\ RequestServed(r) /\ QueueInv /\ QueueTypeOK /\ api[r] \in Admitting /\ j \in Jobs /\ ~Fault
      /\ AdmittingNamed
  BY AdmittingRead, Keys DEF Calm, Served, RequestsServed, QueueInv
<1>1. ASSUME api'[r].pc \in {"undo", "clear", "dropOwn", "answered", "failed", "crashed"}
      PROVE  RequestServed(r)'
  BY <1>1 DEF RequestServed, Reserved, Comparing
<1>2. ASSUME AdmitError(r) PROVE RequestServed(r)'
  BY <1>0, <1>1, <1>2, AdmitErrorTyped DEF Ended
<1>3. ASSUME NEW s \in Requests, Answer(r, s) PROVE RequestServed(r)'
  BY <1>0, <1>1, <1>3, AnswerTyped DEF Ended
<1>4. CASE CreateSession(r)
  <2>1. api'[r].pc = "reserve"
    BY <1>0, <1>4, GotoTyped DEF CreateSession, ApiPcs
  <2>2. session'[r] = [session[r] EXCEPT !.stage = "queued"] /\ session[r] \in Session
    BY <1>0, <1>4 DEF CreateSession, QueueTypeOK
  <2>3. session'[r].fence = 0
    BY <1>0, <1>4, <2>2 DEF RequestServed, CreateSession, MayStart, Session
  <2> QED BY <2>1, <2>3 DEF RequestServed, Reserved, Comparing
<1>5. CASE ReserveStep(r)
  <2>1. CASE Goto(r, "clear")
    BY <1>0, <1>1, <2>1, GotoTyped DEF ApiPcs
  <2>2. ASSUME NEW t \in Requests, NEW o \in {"created", "existing"}, Reserving(r, o, t)
        PROVE  RequestServed(r)'
    <3>1. Holds(j, t)' /\ api'[r].pc = "add" /\ api'[r].reserved = t
      BY <1>5, <2>2, ReservedNow DEF Reserving
    <3> QED BY <3>1 DEF RequestServed, Reserved, Comparing, Holds
  <2> QED BY <1>0, <1>5, <2>1, <2>2, ReserveTyped
<1>6. CASE AddJob(r)
  <2>1. api'[r].pc = "get" /\ api'[r].reserved = api[r].reserved
    BY <1>0, <1>6, GotoTyped DEF AddJob, ApiPcs
  <2>2. records' = records /\ api[r].pc = "add"
    BY <1>6 DEF AddJob, storeVars
  <2> QED BY <1>0, <2>1, <2>2 DEF RequestServed, Reserved, Comparing, Holds
<1>7. CASE GetJob(r)
  <2> PICK s : s = job[j].owner
    OBVIOUS
  <2>1. CASE s \in Requests /\ s # api[r].reserved /\ Keeps(r, s)
    <3>1. /\ api'[r].pc = "state" /\ api'[r].stored = s /\ api'[r].reserved = api[r].reserved
      BY <1>0, <2>1, RetainedTyped DEF Retained
    <3>2. api[r].pc = "get" /\ records' = records /\ session' = session /\ job' = job
      BY <1>7 DEF GetJob, storeVars
    <3>3. records[j] = None \/ Holds(j, api[r].reserved)
      BY <1>0, <3>2 DEF RequestServed, Reserved
    <3>4. job[j].state # "none" /\ job[j].state \in JobStates
      BY <1>0, <2>1, StoredOwner, RequestsAssumption DEF QueueTypeOK, StoredJob
    <3>5. Over(s)
      BY <1>0, <2>1, <3>3, <3>4 DEF Calm, Served, JobsServed, Pending, JobStates, Holds
    <3> QED BY <3>1, <3>2, <3>3, <3>5 DEF RequestServed, Reserved, Comparing, Holds, Over
  <2> QED BY <1>0, <1>2, <1>3, <1>7, <2>1, GetJobCases
<1>8. CASE GetState(r)
  <2>1. ASSUME NEW pc \in {"releaseTerminal", "adopt"}, Goto(r, pc) PROVE RequestServed(r)'
    <3>1. api'[r].pc = pc /\ api'[r].reserved = api[r].reserved /\ api'[r].stored = api[r].stored
      BY <1>0, <2>1, GotoTyped DEF ApiPcs
    <3>2. api[r].pc = "state" /\ records' = records /\ session' = session /\ job' = job
      BY <1>8 DEF GetState, storeVars
    <3> QED BY <1>0, <2>1, <3>1, <3>2 DEF RequestServed, Reserved, Comparing, Holds, Over
  <2> QED BY <1>2, <1>8, <2>1 DEF GetState
<1>9. CASE ReleaseTerminalStep(r) \/ AdoptStep(r)
  <2>1. api[r].stored \in Requests
    BY <1>0, <1>9, AdmittingRead DEF ReleaseTerminalStep, AdoptStep, Comparing
  <2> QED BY <1>2, <1>3, <1>9, <2>1 DEF ReleaseTerminalStep, AdoptStep
<1>10. CASE UndoReservation(r)
  BY <1>0, <1>1, <1>10, GotoTyped DEF UndoReservation, ApiPcs
<1>11. CASE ClearOwnSession(r)
  BY <1>0, <1>1, <1>11, EndTyped, GotoTyped DEF ClearOwnSession, Ended, ApiPcs, SomeRequest
<1>12. CASE WebCrash(r)
  BY <1>0, <1>1, <1>12, EndTyped DEF WebCrash, Ended, ApiPcs, SomeRequest
<1> QED BY <1>0, <1>4, <1>5, <1>6, <1>7, <1>8, <1>9, <1>10, <1>11, <1>12, NoFaultStep

LEMMA RequestsServedKept == Calm => RequestsServed'
BY BystanderServed, MoverServed DEF RequestsServed

-----------------------------------------------------------------------------
(* Admissions that have been begun, told and adopted. *)
LEMMA BegunPendingKept == Calm /\ NotGivenUp' => BegunPending'
<1> SUFFICES ASSUME Calm, NotGivenUp', NEW j \in Jobs, fences'[j] # 0
             PROVE  Pending(j)' /\ records'[j] # None /\ records'[j].token = job'[j].owner
  BY DEF BegunPending, Holds
<1>0. fences[j] # 0 => Pending(j) /\ Holds(j, job[j].owner)
  BY DEF Calm, Served, BegunPending
<1>1. ASSUME SameRecord(j) PROVE Pending(j)' /\ records'[j] # None /\ records'[j].token = job'[j].owner
  <2>0. fences[j] # 0 /\ Pending(j) /\ records'[j] # None /\ records'[j].token = job[j].owner
    BY <1>0, <1>1 DEF SameRecord, Holds
  <2>1. ASSUME NEW w \in Workers, FinishedBy(w, j) PROVE Pending(j)' /\ SameOwner(j)
    <3>1. At(w, "finish") /\ worker[w].job = j
      BY <2>1 DEF FinishedBy, Finish
    <3>2. Retries(w)
      BY <2>0, <3>1, SlotNamed DEF SlotServed, At
    <3> QED BY <2>1, <3>2 DEF FinishedBy, Pending
  <2>2. ~RetiredNow(j) /\ \A r \in Requests : ~AddedBy(r, j)
    BY <2>0 DEF RetiredNow, Retire, AddedBy, Pending
  <2>3. Stalled(j) => Pending(j)' /\ job'[j].owner = job[j].owner
    BY StalledOrphan DEF Stalled, Pending
  <2> QED BY <2>0, <2>1, <2>2, <2>3, JobCalm DEF JobMoves, TakenBy, SameOwner, Pending
<1>2. ASSUME NEW w \in Workers, BegunBy(w, j)
      PROVE  Pending(j)' /\ records'[j] # None /\ records'[j].token = job'[j].owner
  BY <1>2, SlotNamed DEF BegunBy, BeginStep, At, Pending, Holds
<1> QED BY <1>1, <1>2, RecordCalm
        DEF RecordMoves, ReleasedBy, EndedBy, UndoneBy, CreatedBy, AdoptedBy, NoRecord

(* A request is told its own search only when its own job is stored.        *)
LEMMA NewlyTold ==
  ASSUME Calm, NEW t \in Requests, t \in issued, ~Told(t, t), Told(t, t)'
  PROVE  GetJob(t) /\ job[KeyOf[t]].owner = t
<1>0. QueueInv /\ QueueTypeOK /\ QueueNext /\ Ordered /\ Row(t)
  BY DEF Calm, QueueInv, Ordered
<1>1. Moves(t)
  BY <1>0, Bystander DEF Told
<1>2. InProgress(t)
  BY <1>0, <1>1, NamedBegan
<1>3. api'[t].pc = "answered" /\ api'[t].answer = t
  BY DEF Told
<1>4. ASSUME AdmitError(t) PROVE FALSE
  BY <1>0, <1>3, <1>4, AdmitErrorTyped DEF Ended
<1>5. ASSUME NEW pc \in ApiPcs \ {"answered"}, Goto(t, pc) PROVE FALSE
  BY <1>0, <1>3, <1>5, GotoTyped
<1>6. ASSUME GetJob(t), job[KeyOf[t]].owner # t PROVE FALSE
  <2> PICK s : s = job[KeyOf[t]].owner
    OBVIOUS
  <2>1. ASSUME s \in Requests, Answer(t, s) PROVE FALSE
    BY <1>0, <1>3, <1>6, <2>1, AnswerTyped DEF Ended
  <2>2. ASSUME s \in Requests, Keeps(t, s) PROVE FALSE
    BY <1>0, <1>3, <2>2, RetainedTyped DEF Retained
  <2> QED BY <1>0, <1>4, <1>6, <2>1, <2>2, GetJobCases
<1>7. ASSUME ReleaseTerminalStep(t) \/ AdoptStep(t) PROVE FALSE
  <2>1. api[t].stored \in Requests /\ Stands(api[t].stored)
    BY <1>0, <1>7, AdmittingRead DEF ReleaseTerminalStep, AdoptStep, Comparing, Row
  <2>2. api[t].stored # t
    BY <1>2, <2>1 DEF Stands
  <2>3. ~Answer(t, api[t].stored)
    BY <1>0, <1>3, <2>1, <2>2, AnswerTyped DEF Ended
  <2> QED BY <1>4, <1>7, <2>3 DEF ReleaseTerminalStep, AdoptStep
<1>8. ASSUME ClearOwnSession(t) PROVE FALSE
  <2>1. CASE api[t].pc = "clear"
    <3>1. Ended(t, "failed", None)
      BY <1>0, <1>8, <2>1, EndTyped DEF ClearOwnSession, ApiPcs, SomeRequest
    <3> QED BY <1>3, <3>1 DEF Ended
  <2>2. CASE api[t].pc = "dropOwn"
    <3>1. Goto(t, "answered")
      BY <1>8, <2>2 DEF ClearOwnSession
    <3>2. api'[t].answer = api[t].answer
      BY <1>0, <3>1, GotoTyped DEF ApiPcs
    <3> QED BY <1>0, <1>3, <2>2, <3>2 DEF Row
  <2> QED BY <1>8, <2>1, <2>2 DEF ClearOwnSession
<1>9. ASSUME WebCrash(t) PROVE FALSE
  <2>1. Ended(t, "crashed", None)
    BY <1>0, <1>9, EndTyped DEF WebCrash, ApiPcs, SomeRequest
  <2> QED BY <1>3, <2>1 DEF Ended
<1>10. ASSUME ReserveStep(t) PROVE FALSE
  BY <1>0, <1>3, <1>5, <1>10, ReserveTyped DEF Reserving, ApiPcs
<1>11. ~(CreateSession(t) \/ AddJob(t) \/ UndoReservation(t) \/ (GetState(t) /\ ~AdmitError(t)))
  BY <1>5 DEF CreateSession, AddJob, UndoReservation, GetState, ApiPcs
<1> QED BY <1>1, <1>4, <1>6, <1>7, <1>8, <1>9, <1>10, <1>11, NoFaultStep DEF Calm

LEMMA ToldTokensKept == Calm => ToldTokens'
<1> SUFFICES ASSUME Calm, NEW j \in Jobs, NEW t, records'[j] # None, t = records'[j].token,
                    job'[j].state # "none", Told(t, t)'
             PROVE  t = job'[j].owner
  <2> SUFFICES ASSUME Calm, NEW j \in Jobs, records'[j] # None, job'[j].state # "none",
                      Told(records[j].token, records[j].token)'
               PROVE  records'[j].token = job'[j].owner
    BY DEF ToldTokens
  <2> PICK t : t = records'[j].token
    OBVIOUS
  <2>1. Told(t, t)'
    BY DEF Told
  <2> QED BY <2>1
<1>0. QueueInv /\ ToldTokens
  BY DEF Calm, Served
<1>1. ASSUME records'[j] = records[j] PROVE t = job'[j].owner
  <2>0. t \in Requests /\ t \in issued /\ KeyOf[t] = j
    BY <1>1, NamedRequest DEF Calm, QueueInv, RecordsNamed
  <2>1. CASE ~Told(t, t)
    BY <2>0, <2>1, NewlyTold DEF GetJob
  <2>2. CASE Told(t, t) /\ job[j].state # "none"
    <3>1. t = job[j].owner
      BY <1>0, <1>1, <2>2 DEF ToldTokens
    <3> QED BY <2>2, <3>1, JobCalm DEF JobMoves, TakenBy, FinishedBy, SameOwner, AddedBy, Stalled, RetiredNow
  <2>3. CASE job[j].state = "none"
    <3> PICK r \in Requests : AddedBy(r, j)
      BY <2>3, JobCalm, SlotNamed DEF JobMoves, TakenBy, Take, FinishedBy, Finish, Stalled, Stall, RetiredNow, At
    <3>1. Holds(j, api[r].reserved) /\ job'[j].owner = api[r].reserved
      BY <1>1 DEF AddedBy, AddJob, Calm, Served, RequestsServed, RequestServed, Reserved
    <3> QED BY SMTT(30), <1>1, <3>1 DEF Holds
  <2> QED BY <2>1, <2>2, <2>3
<1>2. ASSUME NEW r \in Requests, CreatedBy(r, j) PROVE FALSE
  <2>1. ReserveStep(r) /\ t = r
    BY <1>2 DEF CreatedBy
  <2>2. api'[r].pc \in {"add", "clear"}
    BY <1>0, <2>1, ReserveTyped, GotoTyped DEF Reserving, QueueInv, ApiPcs
  <2> QED BY <2>1, <2>2 DEF Told
<1>3. ASSUME NEW r \in Requests, AdoptedBy(r, j) PROVE t = job'[j].owner
  <2>1. t = api[r].stored /\ job'[j] = job[j] /\ job[j].owner \in {None, t}
    BY <1>3 DEF AdoptedBy, AdoptStep, Calm, Served, RequestsServed, RequestServed, Comparing
  <2>2. job[j].owner # None
    BY <1>0, <2>1, RequestsAssumption DEF QueueInv, JobsNamed, Names, IInv, StoreTypeOK
  <2> QED BY <2>1, <2>2
<1> QED BY <1>1, <1>2, <1>3, RecordCalm
        DEF RecordMoves, SameRecord, BegunBy, ReleasedBy, EndedBy, UndoneBy, NoRecord

LEMMA AdopterStays ==
  ASSUME Calm, NEW r \in Requests, NEW s \in Requests, Adopter(r, s)
  PROVE  Adopter(r, s)'
<1>0. QueueInv /\ QueueTypeOK /\ QueueNext
  BY DEF Calm, QueueInv
<1>1. CASE ~Moves(r)
  BY <1>0, <1>1, Bystander DEF Adopter
<1>2. CASE Moves(r)
  <2>1. api[r].pc = "dropOwn" /\ api[r].answer = s
    BY <1>2, MoverPc DEF Adopter, InProgress, CreateSession, CreateTimeout, MayStart
  <2>2. ClearOwnSession(r) \/ WebCrash(r)
    BY <1>2, <2>1, NoFaultStep DEF Calm, CreateSession, MayStart, ReserveStep, AddJob, GetJob, GetState,
       ReleaseTerminalStep, AdoptStep, UndoReservation
  <2>3. CASE ClearOwnSession(r)
    <3>1. Goto(r, "answered")
      BY <2>1, <2>3 DEF ClearOwnSession
    <3> QED BY <1>0, <2>1, <3>1, GotoTyped DEF Adopter, ApiPcs
  <2>4. CASE WebCrash(r)
    <3>1. Ended(r, "crashed", None)
      BY <1>0, <2>4, EndTyped DEF WebCrash, ApiPcs, SomeRequest
    <3> QED BY <3>1 DEF Ended, Adopter
  <2> QED BY <2>2, <2>3, <2>4
<1> QED BY <1>1, <1>2

(* An execution leaves its first step only by beginning the admission.      *)
LEMMA UnstartedStays ==
  ASSUME Calm, NotGivenUp', NEW j \in Jobs, Unstarted(j), Holds(j, job[j].owner), SameRecord(j)
  PROVE  Unstarted(j)'
<1>1. Pending(j)'
  <2>1. ASSUME NEW w \in Workers PROVE ~FinishedBy(w, j)
    BY DEF FinishedBy, Finish, At, Unstarted
  <2>2. ~RetiredNow(j) /\ \A r \in Requests : ~AddedBy(r, j)
    BY DEF RetiredNow, Retire, AddedBy, Unstarted, Pending
  <2>3. Stalled(j) => Pending(j)'
    BY StalledOrphan DEF Pending
  <2> QED BY <2>1, <2>2, <2>3, JobCalm DEF JobMoves, TakenBy, Pending, Unstarted
<1>2. ASSUME NEW w \in Workers, ~At(w, "idle")', worker'[w].job = j, ~At(w, "begin")' PROVE FALSE
  <2>1. ~Taken(w)
    BY <1>2 DEF Taken, At
  <2>2. ~At(w, "idle") /\ worker[w].job = j /\ worker'[w] # worker[w]
    BY <1>2, <2>1, SlotMoves DEF Unstarted, At
  <2>3. At(w, "begin") /\ SlotSteps(w) /\ job[j].owner = worker[w].owner
    BY <2>2, SlotMoves, SlotNamed DEF Unstarted
  <2>4. BeginStep(w)
    <3>1. ~WorkerCrash(w)
      BY <1>2 DEF WorkerCrash, Calm, QueueInv, QueueTypeOK, Idle, At
    <3> QED BY <2>3, <3>1 DEF SlotSteps, At, Take, ClaimStep, SearchProviders, AssertOwnership, Persist,
            MarkRetry, RenewForRetry, MarkFailed, ReleaseStep, Finish, Heartbeat, Executing
  <2>5. Begin(j, worker[w].owner, now)
    BY <2>2, <2>3, <2>4 DEF BeginStep
  <2>6. fences'[j] = fences[j] + 1 /\ fences[j] \in Nat
    BY <2>5, Fences DEF Begin, Calm, QueueInv, IInv, StoreTypeOK
  <2> QED BY <2>6 DEF SameRecord
<1> QED BY <1>1, <1>2 DEF Unstarted

LEMMA LeftToAdoptersKept == Calm /\ NotGivenUp' => LeftToAdopters'
<1> DEFINE Goal(j) == Unstarted(j)' \/ \E r \in Requests : Adopter(r, job[j].owner)'
<1> SUFFICES ASSUME Calm, NotGivenUp', NEW j \in Jobs, records'[j] # None,
                    records'[j].token = job'[j].owner, fences'[j] = 0
             PROVE  Goal(j)
  BY DEF LeftToAdopters, Holds
<1>0. QueueInv /\ LeftToAdopters
  BY DEF Calm, Served
<1>1. ASSUME SameRecord(j) PROVE Goal(j)
  <2>0. records'[j].token \in Requests
    BY <1>1, NamedRequest DEF SameRecord, Calm, QueueInv, RecordsNamed
  <2>1. ASSUME job'[j].owner = job[j].owner PROVE Goal(j)
    <3>1. Holds(j, job[j].owner) /\ fences[j] = 0
      BY <1>1, <2>1 DEF SameRecord, Holds
    <3>2. CASE Unstarted(j)
      BY <1>1, <3>1, <3>2, UnstartedStays
    <3>3. ASSUME NEW r \in Requests, Adopter(r, job[j].owner) PROVE Goal(j)
      <4> PICK s \in Requests : s = job[j].owner /\ s = job'[j].owner
        BY <2>0, <2>1
      <4>1. Adopter(r, s)'
        BY <3>3, AdopterStays
      <4> QED BY <4>1 DEF Adopter
    <3> QED BY <1>0, <3>1, <3>2, <3>3 DEF LeftToAdopters
  <2>2. ASSUME NEW r \in Requests, AddedBy(r, j) PROVE Goal(j)
    <3>1. job'[j].state = "waiting" /\ job[j].state = "none" /\ worker' = worker
      BY <2>2 DEF AddedBy, AddJob, UnchangedByWeb
    <3>2. \A w \in Workers : ~At(w, "idle") => worker[w].job # j
      BY <3>1, SlotNamed
    <3> QED BY <3>1, <3>2 DEF Unstarted, Pending, At
  <2>3. ~RetiredNow(j)
    BY <2>0, RequestsAssumption DEF RetiredNow
  <2> QED BY <2>1, <2>2, <2>3, JobCalm DEF JobMoves, TakenBy, FinishedBy, SameOwner, Stalled
<1>2. ASSUME NEW r \in Requests, CreatedBy(r, j) PROVE FALSE
  <2>1. api[r].pc = "reserve" /\ job[j].owner = r
    BY <1>2 DEF CreatedBy, ReserveStep
  <2>2. r \notin issued
    BY <1>0, <2>1 DEF QueueInv, AdmittingNamed
  <2> QED BY <1>0, <2>1, <2>2, StoredOwner, RequestsAssumption DEF Names
<1>3. ASSUME NEW r \in Requests, AdoptedBy(r, j) PROVE Goal(j)
  <2>1. /\ AdoptStep(r) /\ KeyOf[r] = j /\ InProgress(r) /\ api[r].pc \in Comparing
        /\ job'[j].owner = api[r].stored
    BY <1>3 DEF AdoptedBy, AdoptStep, InProgress, Comparing
  <2> PICK s \in Requests : s = api[r].stored
    BY <1>0, <2>1, AdmittingRead
  <2>2. Stands(s) /\ Names(s, j)
    BY <1>0, <2>1 DEF Calm, Ordered, Row, QueueInv, AdmittingNamed
  <2>3. s # r /\ KeyOf[s] = j
    BY <2>1, <2>2 DEF Stands, Names
  <2>4. Answer(r, s)
    BY <1>3, <2>1 DEF AdoptedBy, AdoptStep
  <2>5. Ended(r, "dropOwn", s)
    BY <1>0, <2>3, <2>4, AnswerTyped DEF QueueInv
  <2>6. Adopter(r, s)'
    BY <2>1, <2>3, <2>5 DEF Ended, Adopter
  <2> QED BY <2>1, <2>6 DEF Adopter
<1> QED BY <1>1, <1>2, <1>3, Fences, RecordCalm
        DEF RecordMoves, BegunBy, ReleasedBy, EndedBy, UndoneBy, NoRecord

-----------------------------------------------------------------------------
(* In time, from the first step on. *)
LEMMA ServedStep == Calm /\ NotGivenUp' => Served'
<1> SUFFICES ASSUME Calm, NotGivenUp' PROVE Served'
  OBVIOUS
<1>1. SlotsAlone'
  BY SlotsAloneKept DEF Calm, Served
<1> QED BY <1>1, RecordCalm, JobsServedKept, RecordsServedKept, SlotsServedKept, RequestsServedKept,
           BegunPendingKept, ToldTokensKept, LeftToAdoptersKept
        DEF Served

LEMMA StepsInTime ==
  ASSUME QueueInv, InOrder, InTime => Served, QueueNext, InTime'
  PROVE  Calm /\ InTime
<1>0. faults \in Nat /\ pauses \in Nat /\ now \in Nat /\ Lease \in Nat
  BY ClockAssumption DEF QueueInv, QueueTypeOK
<1>1. ~Fault /\ faults = 0
  BY <1>0, FaultsStep DEF Fault, InTime
<1>2. pauses = 0 /\ pauses' = pauses /\ now < Lease
  BY <1>0, CountersGrow DEF InTime
<1> QED BY <1>0, <1>1, <1>2 DEF Calm, InTime, InOrder

LEMMA ServedStutters == UNCHANGED queueVars /\ Served => Served'
<1> SUFFICES ASSUME UNCHANGED queueVars, Served PROVE Served'
  OBVIOUS
<1>1. UNCHANGED <<records, expiry, fences, issued, api, session, job, worker>>
  BY DEF queueVars, storeVars
<1>2. LeasesRun' /\ SlotsAlone' /\ JobsServed' /\ RecordsServed'
  BY <1>1 DEF Served, LeasesRun, SlotsAlone, JobsServed, RecordsServed, Pending, Over, Holds, Behind, At
<1>3. SlotsServed' /\ RequestsServed'
  BY <1>1 DEF Served, SlotsServed, RequestsServed, SlotServed, RequestServed, SessionGone, SessionOwned,
     Owned, HoldsFenced, Holds, Over, At, Retries
<1>4. BegunPending' /\ ToldTokens' /\ LeftToAdopters'
  BY <1>1 DEF Served, BegunPending, ToldTokens, LeftToAdopters, Unstarted, Adopter, Told, Pending, Holds, At
<1> QED BY <1>2, <1>3, <1>4 DEF Served

LEMMA ServedInTimeKept ==
  QueueInv /\ InOrder /\ ServedInTime /\ [QueueNext]_queueVars /\ NotGivenUp' => ServedInTime'
<1> SUFFICES ASSUME QueueInv, InOrder, ServedInTime, [QueueNext]_queueVars, NotGivenUp', InTime'
             PROVE  Served'
  BY DEF ServedInTime
<1>1. CASE UNCHANGED queueVars
  BY <1>1, ServedStutters DEF queueVars, InTime, ServedInTime
<1>2. CASE QueueNext
  BY <1>2, StepsInTime, ServedStep DEF ServedInTime
<1> QED BY <1>1, <1>2

LEMMA ServedStarts == QueueInit => Served /\ StallsCounted
<1> SUFFICES ASSUME QueueInit PROVE Served /\ StallsCounted
  OBVIOUS
<1>1. LeasesRun /\ SlotsAlone /\ JobsServed /\ RecordsServed /\ BegunPending /\ ToldTokens /\ LeftToAdopters
  BY DEF QueueInit, StoreInit, NoJob, Idle, LeasesRun, SlotsAlone, JobsServed, RecordsServed, BegunPending,
     ToldTokens, LeftToAdopters, Pending, Holds, At
<1>2. SlotsServed /\ RequestsServed /\ StallsCounted
  BY DEF QueueInit, StoreInit, NewRequest, NoSession, NoJob, Idle, SlotsServed, RequestsServed, RequestServed,
     StallsCounted, Orphaned, Reserved, Comparing, At
<1> QED BY <1>1, <1>2 DEF Served

(* Whatever Served says of jobs, admissions, sessions, executions and       *)
(* requests holds for as long as no reply has been lost, no live worker has *)
(* lost its job lock and less time has passed than the admission lease      *)
(* lasts, as long as the stalled check gives up no job: web requests and    *)
(* workers may crash between any two of their steps.                        *)
THEOREM ServedAlways == QueueSpec /\ []NotGivenUp => []ServedInTime
<1>1. QueueInit => ServedInTime
  BY ServedStarts DEF ServedInTime
<1> QED BY <1>1, ServedInTimeKept, QueueAlways, InOrderAlways, PTL DEF QueueSpec

(* A job stalls at most once for each process that died, so that few deaths *)
(* are a reason why none is given up.                                       *)
FewDeaths == InTime /\ crashes <= MaxStalled

LEMMA FewDeathsKept ==
  QueueInv /\ InOrder /\ (FewDeaths => Served /\ StallsCounted) /\ [QueueNext]_queueVars
    => (FewDeaths => Served /\ StallsCounted)'
<1> SUFFICES ASSUME QueueInv, InOrder, FewDeaths => Served /\ StallsCounted, [QueueNext]_queueVars, FewDeaths'
             PROVE  Served' /\ StallsCounted'
  OBVIOUS
<1>1. CASE UNCHANGED queueVars
  <2>1. Served /\ StallsCounted
    BY <1>1 DEF queueVars, FewDeaths, InTime
  <2> QED BY <1>1, <2>1, ServedStutters DEF queueVars, StallsCounted, Orphaned, At
<1>2. CASE QueueNext
  <2>0. crashes \in Nat /\ crashes <= MaxStalled /\ crashes' <= MaxStalled /\ MaxStalled \in Nat
        /\ faults \in Nat /\ pauses \in Nat /\ now \in Nat /\ Lease \in Nat
    BY <1>2, CountersGrow, QueueBoundsAssumption, ClockAssumption DEF FewDeaths, QueueInv, QueueTypeOK
  <2>1. InTime
    <3>1. faults = 0
      BY <1>2, <2>0, FaultsStep DEF Fault, FewDeaths, InTime
    <3>2. pauses = 0 /\ now < Lease
      BY <1>2, <2>0, CountersGrow DEF FewDeaths, InTime
    <3> QED BY <3>1, <3>2 DEF InTime
  <2>2. Served /\ StallsCounted
    BY <2>0, <2>1 DEF FewDeaths
  <2>3. Calm
    BY <1>2, <2>2, StepsInTime DEF FewDeaths
  <2>4. StallsCounted'
    BY <2>2, <2>3, StallsCountedKept
  <2>5. NotGivenUp'
    <3> SUFFICES ASSUME NEW j \in Jobs PROVE job'[j].stalls <= MaxStalled
      BY DEF NotGivenUp
    <3>1. job'[j].stalls \in Nat /\ crashes' \in Nat
      BY <1>2, QueueInvKept DEF QueueInv, QueueTypeOK, StoredJob
    <3>2. job'[j].stalls <= crashes'
      BY <2>4, <3>1 DEF StallsCounted
    <3> QED BY <2>0, <3>1, <3>2
  <2> QED BY <2>3, <2>4, <2>5, ServedStep
<1> QED BY <1>1, <1>2

LEMMA FewDeathsAlways == QueueSpec => [](FewDeaths => Served /\ StallsCounted)
BY ServedStarts, FewDeathsKept, QueueAlways, InOrderAlways, PTL DEF QueueSpec

LEMMA ServedNotLost == Served => NoLostSearch
BY DEF Served, JobsServed, Over, NoLostSearch, Settled

(* No lost job.  In time, once BullMQ has completed or failed a job and     *)
(* nobody works on it, its search has reached a terminal stage or was       *)
(* cleared by the route, as long as the stalled check gives up no job: a    *)
(* job is failed only by the worker that also fails the session.            *)
THEOREM SearchesNotLost == QueueSpec /\ []NotGivenUp => [](InTime => NoLostSearch)
BY ServedAlways, ServedNotLost, PTL DEF ServedInTime

LEMMA ServedNotLeaked == QueueInv /\ Ordered /\ Served => NoLeakedSlot
<1> SUFFICES ASSUME QueueInv, Ordered, Served, NEW j \in Jobs, Settled(j), records[j] # None,
                    \A r \in Requests : KeyOf[r] = j => ~InProgress(r) /\ api[r].pc # "crashed"
             PROVE  /\ fences[j] = 0
                    /\ \E q, r \in Requests : q # r /\ Told(q, job[j].owner) /\ Told(r, job[j].owner)
  BY DEF NoLeakedSlot
<1> DEFINE t == records[j].token
<1>1. t \in Requests /\ KeyOf[t] = j
  BY RequestsAssumption DEF QueueInv, RecordsNamed, Names, IInv, StoreTypeOK
<1>2. Told(t, t)
  BY <1>1 DEF Ordered, RecordsLive, Live, InProgress, Reserved
<1>3. ~Pending(j) /\ job[j].state # "none"
  BY DEF Settled, Pending
<1>4. t = job[j].owner /\ fences[j] = 0
  BY <1>2, <1>3 DEF Served, ToldTokens, BegunPending
<1>5. PICK r \in Requests : Adopter(r, t)
  BY <1>3, <1>4 DEF Served, LeftToAdopters, Unstarted, Holds
<1>6. r # t /\ Told(r, t)
  BY <1>1, <1>5 DEF Adopter, Told, InProgress
<1> QED BY <1>1, <1>2, <1>4, <1>6

(* No leaked slot.  In time, once BullMQ is done with a job and no request  *)
(* of its key is under way or has died, the admission has been released, or *)
(* is one that nobody has begun, adopted by a second request that is told   *)
(* the same search.                                                         *)
THEOREM SlotsNotLeaked == QueueSpec /\ []NotGivenUp => [](InTime => NoLeakedSlot)
<1>1. QueueInv /\ InOrder /\ ServedInTime => (InTime => NoLeakedSlot)
  BY ServedNotLeaked DEF InOrder, ServedInTime, InTime
<1> QED BY <1>1, ServedAlways, QueueAlways, InOrderAlways, PTL

(* Both hold whenever no more processes have died than maxStalledCount: a   *)
(* job stalls at most once for each of them, so that none is given up.      *)
THEOREM FewDeathsLoseNothing ==
  QueueSpec => [](InTime /\ crashes <= MaxStalled => NoLostSearch /\ NoLeakedSlot)
<1>1. QueueInv /\ InOrder /\ (FewDeaths => Served /\ StallsCounted)
      => (InTime /\ crashes <= MaxStalled => NoLostSearch /\ NoLeakedSlot)
  BY ServedNotLost, ServedNotLeaked DEF FewDeaths, InOrder, InTime
<1> QED BY <1>1, FewDeathsAlways, QueueAlways, InOrderAlways, PTL
=============================================================================
