-------------------------- MODULE SharedStores_proof --------------------------
(***************************************************************************)
(* Proofs about what the processes share through Valkey besides the queue. *)
(* The session store: for any sessions, sizes, limits and readings of the  *)
(* callers' clocks.  The idempotency of searches: for any calls, keys,     *)
(* payloads and limits, and any number of expiries and faults.  The        *)
(* booking records: for any ids, redirects, caps, TTL and readings of the  *)
(* clocks.  The life of a worker process: for any number of failed         *)
(* commands and of sweeps.  They share no state.                           *)
(***************************************************************************)
EXTENDS SearchSessionStore, IdempotencyStore, BookingStores, WorkerRuntime, FiniteSums

(***************************** Session store *******************************)

SessionTypeOK ==
    /\ DOMAIN revision = SessionIds /\ tombstone \subseteq SessionIds
    /\ expiresAt \in [SessionIds -> Nat \cup {NoSession}]
    /\ sizeOf \in [SessionIds -> Sizes \cup {NoSession}]
    /\ total \in Nat

(* The hash of sizes itself stays within the cap; it holds every session.   *)
CountCap == Cardinality(Counted) <= MaxSessions

SessionsCovered == Bytes(Counted) <= total /\ total <= SessionBudget

SessionInv == SessionTypeOK /\ SessionKeysAgree

-----------------------------------------------------------------------------
(* What a sweep leaves of an index. *)
LEMMA SweepLeaves ==
  ASSUME SessionInv, NEW t, Sweep(t)
  PROVE  /\ sizeOf' \in [SessionIds -> Sizes \cup {NoSession}]
         /\ expiresAt' \in [SessionIds -> Nat \cup {NoSession}]
         /\ DOMAIN revision' = SessionIds
         /\ Counted' = Counted \ Expired(t) /\ Stored' = Stored \ Expired(t)
         /\ \A s \in Counted \ Expired(t) : sizeOf'[s] = sizeOf[s]
         /\ Counted' = {s \in SessionIds : expiresAt'[s] # NoSession}
BY SessionStoreAssumption DEF SessionInv, SessionTypeOK, SessionKeysAgree, Sweep, Counted, Stored, Expired

(* A write that is stored leaves what the sweep leaves, and its session.    *)
LEMMA WriteLeaves ==
  ASSUME SessionInv, NEW s \in SessionIds, NEW t \in SessionClock, NEW size \in Sizes,
         NEW expected \in (1..MaxRevision) \cup {NoSession}, WriteStored(s, expected, size, t)
  PROVE  /\ sizeOf' \in [SessionIds -> Sizes \cup {NoSession}]
         /\ expiresAt' \in [SessionIds -> Nat \cup {NoSession}]
         /\ DOMAIN revision' = SessionIds
         /\ Counted' = (Counted \ Expired(t)) \cup {s}
         /\ Stored' = (Stored \ Expired(t)) \cup {s}
         /\ sizeOf'[s] = size
         /\ \A x \in (Counted \ Expired(t)) \ {s} : sizeOf'[x] = sizeOf[x]
         /\ Counted' = {x \in SessionIds : expiresAt'[x] # NoSession}
<1> USE SessionStoreAssumption DEF SessionInv, SessionTypeOK, SessionKeysAgree
<1>1. t + SessionTtl \in Nat /\ t + SessionTtl # NoSession /\ size # NoSession
  OBVIOUS
<1>2. 1 # NoSession /\ (expected # NoSession => expected + 1 # NoSession)
  OBVIOUS
<1>3. /\ DOMAIN revision' = SessionIds /\ Stored' = (Stored \ Expired(t)) \cup {s}
  BY <1>2 DEF WriteStored, Stored
<1>4. /\ expiresAt' \in [SessionIds -> Nat \cup {NoSession}]
      /\ {x \in SessionIds : expiresAt'[x] # NoSession} = (Counted \ Expired(t)) \cup {s}
  BY <1>1 DEF WriteStored, Counted, Expired
<1>5. /\ sizeOf' \in [SessionIds -> Sizes \cup {NoSession}]
      /\ Counted' = (Counted \ Expired(t)) \cup {s}
      /\ sizeOf'[s] = size
      /\ \A x \in (Counted \ Expired(t)) \ {s} : sizeOf'[x] = sizeOf[x]
  BY <1>1 DEF WriteStored, Counted, Expired
<1> QED BY <1>3, <1>4, <1>5

LEMMA BytesType ==
  ASSUME SessionTypeOK, NEW ids
  PROVE  /\ IsFiniteSet(Counted) /\ Sized(sizeOf, Counted)
         /\ Bytes(ids) = Total(sizeOf, ids \cap Counted)
         /\ Bytes(ids) \in Nat
<1>1. IsFiniteSet(Counted)
  BY SessionStoreAssumption, FS_Subset DEF Counted
<1>2. Sized(sizeOf, Counted)
  BY SessionStoreAssumption DEF SessionTypeOK, Counted, Sized
<1>3. Bytes(ids) = Total(sizeOf, ids \cap Counted)
  BY DEF Bytes, Total
<1>4. Total(sizeOf, ids \cap Counted) \in Nat
  BY <1>1, <1>2, TotalStep
<1> QED BY <1>1, <1>2, <1>3, <1>4

LEMMA BytesNow == /\ Bytes(Counted) = Total(sizeOf, Counted)
                 /\ Bytes(Counted)' = Total(sizeOf', Counted')
<1> DEFINE C == Counted
           D == Counted'
           f == sizeOf'
<1>1. C \cap C = C /\ D \cap D = D
  OBVIOUS
<1>2. Bytes(Counted) = Total(sizeOf, C)
  BY <1>1 DEF Bytes, Total, MapThenSumSet, MapThenFoldSet
<1>3. Bytes(Counted)' = Total(f, D)
  BY <1>1 DEF Bytes, Total, MapThenSumSet, MapThenFoldSet
<1> QED BY <1>2, <1>3

LEMMA BytesTypeNext == ASSUME SessionTypeOK' PROVE Bytes(Counted)' \in Nat
<1> DEFINE C == Counted'
           f == sizeOf'
<1>1. C \subseteq SessionIds /\ Sized(f, C)
  BY SessionStoreAssumption DEF SessionTypeOK, Counted, Sized
<1>2. Bytes(Counted)' = Total(f, C)
  BY BytesNow
<1> HIDE DEF C, f
<1>3. IsFiniteSet(C) /\ C \in SUBSET C
  BY <1>1, SessionStoreAssumption, FS_Subset
<1>4. Total(f, C) \in Nat
  BY <1>1, <1>3, TotalStep
<1> QED BY <1>2, <1>4

(* The bytes of some sessions and of the rest add up to all bytes.          *)
LEMMA BytesSplit ==
  ASSUME SessionTypeOK, NEW ids
  PROVE  Bytes(Counted) = Bytes(ids) + Total(sizeOf, Counted \ ids)
         /\ Total(sizeOf, Counted \ ids) \in Nat
<1> DEFINE C == Counted
           T == ids \cap C
<1>1. IsFiniteSet(C) /\ Sized(sizeOf, C) /\ Bytes(C) = Total(sizeOf, C) /\ Bytes(ids) = Total(sizeOf, T)
  <2>1. C \cap C = C
    OBVIOUS
  <2>2. Bytes(C) = Total(sizeOf, C \cap C)
    BY BytesType
  <2> QED BY <2>1, <2>2, BytesType
<1>2. C \ ids = C \ T /\ T \in SUBSET C /\ C \ T \in SUBSET C
  OBVIOUS
<1> HIDE DEF C, T
<1>3. Total(sizeOf, C) = Total(sizeOf, T) + Total(sizeOf, C \ T)
  BY <1>1, <1>2, TotalUnion
<1>4. Total(sizeOf, C \ T) \in Nat
  BY <1>1, <1>2, TotalStep
<1> QED BY <1>1, <1>2, <1>3, <1>4 DEF C

-----------------------------------------------------------------------------
(* The store is empty at first. *)
LEMMA InitSessionInv == SessionStoreInit => SessionInv /\ CountCap /\ SessionsCovered
<1> SUFFICES ASSUME SessionStoreInit PROVE SessionInv /\ CountCap /\ SessionsCovered
  OBVIOUS
<1> USE SessionStoreAssumption
<1>1. SessionInv
  BY DEF SessionStoreInit, SessionInv, SessionTypeOK, SessionKeysAgree, Stored, Counted
<1>2. Counted = {} /\ total = 0
  BY DEF SessionStoreInit, Counted
<1>3. CountCap
  BY <1>2, FS_EmptySet DEF CountCap
<1>4. Bytes(Counted) = 0
  <2>1. Total(sizeOf, {}) = 0
    BY FS_EmptySet, TotalStep DEF Sized
  <2> QED BY <1>1, <1>2, <2>1, BytesType DEF SessionInv
<1> QED BY <1>1, <1>2, <1>3, <1>4 DEF SessionsCovered

(* A script writes or removes the keys of a session together; a TTL only    *)
(* takes the session before its tombstone.                                  *)
LEMMA StepSessionInv == SessionInv /\ [SessionStoreNext]_sessionStoreVars => SessionInv'
<1> SUFFICES ASSUME SessionInv, [SessionStoreNext]_sessionStoreVars PROVE SessionInv'
  OBVIOUS
<1> USE SessionStoreAssumption DEF SessionInv, SessionTypeOK, SessionKeysAgree
<1>1. ASSUME NEW t \in SessionClock, Sweep(t), tombstone' = tombstone, total' \in Nat PROVE SessionInv'
  BY <1>1, SweepLeaves
<1>2. ASSUME NEW s \in SessionIds, NEW t \in SessionClock, Write(s, t) PROVE SessionInv'
  <2>1. CASE WriteLocked(s, t)
    BY <2>1, <1>1 DEF WriteLocked
  <2>2. ASSUME NEW expected \in (1..MaxRevision) \cup {NoSession}, NEW size \in Sizes,
               WriteRefused(s, expected, size, t)
        PROVE  SessionInv'
    BY <2>2, <1>1 DEF WriteRefused
  <2>3. ASSUME NEW expected \in (1..MaxRevision) \cup {NoSession}, NEW size \in Sizes,
               WriteStored(s, expected, size, t)
        PROVE  SessionInv'
    <3>1. tombstone' = tombstone \cup {s} /\ total' \in Nat
      <4>1. Bytes(Expired(t)) \in Nat /\ Bytes({s} \ Expired(t)) \in Nat
        BY BytesType
      <4> QED BY <2>3, <4>1 DEF WriteStored, SweptTotal, Minus
    <3> QED BY <2>3, <3>1, WriteLeaves
  <2> QED BY <1>2, <2>1, <2>2, <2>3 DEF Write
<1>3. ASSUME NEW s \in SessionIds, Clear(s) PROVE SessionInv'
  <2>1. Bytes({s}) \in Nat
    BY BytesType
  <2> QED BY <1>3, <2>1 DEF Clear, Minus, Stored, Counted
<1>4. ASSUME NEW t \in SessionClock, Stats(t) PROVE SessionInv'
  <2>1. Bytes(Expired(t)) \in Nat
    BY BytesType
  <2> QED BY <1>4, <1>1, <2>1 DEF Stats, SweptTotal, Minus
<1>5. ASSUME NEW s \in SessionIds, KeyExpires(s), UNCHANGED <<expiresAt, sizeOf, total>> PROVE SessionInv'
  BY <1>5 DEF KeyExpires, Stored, Counted
<1>6. CASE UNCHANGED sessionStoreVars
  BY <1>6 DEF sessionStoreVars, Stored, Counted
<1> QED BY <1>2, <1>3, <1>4, <1>5, <1>6 DEF SessionStoreNext

(* The keys describe the same sessions, whatever expires, is cleared or     *)
(* refused.                                                                 *)
THEOREM SessionKeysAlwaysAgree == SessionStoreSpec => []SessionKeysAgree
<1>1. SessionInv => SessionKeysAgree
  BY DEF SessionInv
<1> QED BY <1>1, InitSessionInv, StepSessionInv, PTL DEF SessionStoreSpec

-----------------------------------------------------------------------------
(* A write that adds a session has counted the sessions that its sweep      *)
(* left; nothing else adds one.                                             *)
LEMMA StepCountCap == SessionInv /\ CountCap /\ [SessionStoreNext]_sessionStoreVars => CountCap'
<1> SUFFICES ASSUME SessionInv, CountCap, [SessionStoreNext]_sessionStoreVars PROVE CountCap'
  OBVIOUS
<1> USE SessionStoreAssumption
<1>1. IsFiniteSet(Counted) /\ Cardinality(Counted) \in Nat
  BY BytesType, FS_CardinalityType DEF SessionInv
<1>2. ASSUME Counted' \subseteq Counted PROVE CountCap'
  <2> DEFINE S == Counted'
  <2>1. S \subseteq Counted
    BY <1>2
  <2> HIDE DEF S
  <2>2. Cardinality(S) \in Nat /\ Cardinality(S) <= Cardinality(Counted)
    BY <1>1, <2>1, FS_Subset, FS_CardinalityType
  <2>3. Cardinality(S) <= MaxSessions
    BY <1>1, <2>2 DEF CountCap
  <2> QED BY <2>3 DEF S, CountCap
<1>3. ASSUME NEW t \in SessionClock, Sweep(t) PROVE CountCap'
  BY <1>2, <1>3, SweepLeaves
<1>4. ASSUME NEW s \in SessionIds, NEW t \in SessionClock, Write(s, t) PROVE CountCap'
  <2>1. CASE WriteLocked(s, t)
    BY <2>1, <1>3 DEF WriteLocked
  <2>2. ASSUME NEW expected \in (1..MaxRevision) \cup {NoSession}, NEW size \in Sizes,
               WriteRefused(s, expected, size, t)
        PROVE  CountCap'
    BY <2>2, <1>3 DEF WriteRefused
  <2>3. ASSUME NEW expected \in (1..MaxRevision) \cup {NoSession}, NEW size \in Sizes,
               WriteStored(s, expected, size, t)
        PROVE  CountCap'
    <3>1. Counted' = (Counted \ Expired(t)) \cup {s}
      BY <2>3, WriteLeaves
    <3>2. CASE s \in Counted
      BY <3>1, <3>2, <1>2
    <3>3. CASE s \notin Counted
      <4> DEFINE left == Counted \ Expired(t)
      <4>1. expected = NoSession /\ ~Full(Cardinality(left))
        BY <2>3, <3>3 DEF WriteStored, Refused, SessionInv, SessionKeysAgree
      <4>2. left \subseteq Counted /\ s \notin left
        BY <3>3
      <4> HIDE DEF left
      <4>3. IsFiniteSet(left) /\ Cardinality(left) \in Nat
        BY <4>2, <1>1, FS_Subset, FS_CardinalityType
      <4>4. Cardinality(left \cup {s}) = Cardinality(left) + 1
        BY <4>2, <4>3, FS_AddElement
      <4>5. Cardinality(left \cup {s}) <= MaxSessions
        BY <4>1, <4>3, <4>4 DEF Full
      <4> QED BY <3>1, <4>5 DEF left, CountCap
    <3> QED BY <3>2, <3>3
  <2> QED BY <1>4, <2>1, <2>2, <2>3 DEF Write
<1>5. ASSUME NEW s \in SessionIds, Clear(s) PROVE CountCap'
  BY <1>5, <1>2 DEF Clear, Counted, SessionInv, SessionTypeOK
<1>6. ASSUME NEW t \in SessionClock, Stats(t) PROVE CountCap'
  BY <1>6, <1>3 DEF Stats
<1>7. ASSUME UNCHANGED sizeOf PROVE CountCap'
  BY <1>7, <1>2 DEF Counted
<1> QED BY <1>4, <1>5, <1>6, <1>7 DEF SessionStoreNext, sessionStoreVars

-----------------------------------------------------------------------------
(* The bytes of sessions that are counted once each. *)
LEMMA BytesOnce ==
  ASSUME SessionTypeOK, NEW ids, NEW more
  PROVE  Bytes(ids \cup more) = Bytes(ids) + Bytes(more \ ids)
<1> DEFINE C == Counted
           S == (ids \cup more) \cap C
           T == ids \cap C
           U == (more \ ids) \cap C
<1>1. IsFiniteSet(C) /\ Sized(sizeOf, C)
  BY BytesType
<1>2. Bytes(ids \cup more) = Total(sizeOf, S) /\ Bytes(ids) = Total(sizeOf, T)
      /\ Bytes(more \ ids) = Total(sizeOf, U)
  BY BytesType
<1>3. S \in SUBSET C /\ T \in SUBSET S /\ S \ T = U
  OBVIOUS
<1> HIDE DEF C, S, T, U
<1>4. Total(sizeOf, S) = Total(sizeOf, T) + Total(sizeOf, S \ T)
  BY <1>1, <1>3, TotalUnion
<1> QED BY <1>2, <1>3, <1>4

(* The bytes after a sweep, after a stored write and after a clear. *)
LEMMA SweepBytes ==
  ASSUME SessionInv, NEW t, Sweep(t)
  PROVE  Bytes(Counted)' = Bytes(Counted) - Bytes(Expired(t))
<1> DEFINE D == Counted \ Expired(t)
           f == sizeOf'
<1>1. IsFiniteSet(D) /\ Sized(sizeOf, D)
  BY BytesType, FS_Subset DEF Sized, SessionInv
<1>2. \A s \in D : f[s] = sizeOf[s]
  BY SweepLeaves
<1>3. Bytes(Counted)' = Total(f, D)
  BY SweepLeaves, BytesNow
<1>4. Total(sizeOf, D) = Bytes(Counted) - Bytes(Expired(t))
  <2>1. Bytes(Counted) = Bytes(Expired(t)) + Total(sizeOf, D) /\ Total(sizeOf, D) \in Nat
    BY BytesSplit DEF SessionInv
  <2>2. Bytes(Expired(t)) \in Nat
    BY BytesType DEF SessionInv
  <2> HIDE DEF D
  <2> QED BY <2>1, <2>2
<1> HIDE DEF D, f
<1>5. Total(f, D) = Total(sizeOf, D)
  BY <1>1, <1>2, TotalSame
<1> QED BY <1>3, <1>4, <1>5

LEMMA WriteBytes ==
  ASSUME SessionInv, NEW s \in SessionIds, NEW t \in SessionClock, NEW size \in Sizes,
         NEW expected \in (1..MaxRevision) \cup {NoSession}, WriteStored(s, expected, size, t)
  PROVE  Bytes(Counted)' = Bytes(Counted) - (Bytes(Expired(t)) + Bytes({s} \ Expired(t))) + size
<1> DEFINE E == Expired(t) \cup {s}
           D == Counted \ E
           N == D \cup {s}
           f == sizeOf'
<1>1. IsFiniteSet(D) /\ Sized(sizeOf, D)
  BY BytesType, FS_Subset DEF Sized, SessionInv
<1>2. \A x \in D : f[x] = sizeOf[x]
  BY WriteLeaves
<1>3. f[s] = size /\ size \in Nat
  BY WriteLeaves, SessionStoreAssumption
<1>4. Bytes(Counted)' = Total(f, N)
  <2>1. Counted' = N
    BY WriteLeaves
  <2> QED BY <2>1, BytesNow
<1>5. Total(sizeOf, D) = Bytes(Counted) - Bytes(E) /\ Bytes(Counted) \in Nat /\ Bytes(E) \in Nat
  <2>1. Bytes(Counted) = Bytes(E) + Total(sizeOf, D) /\ Total(sizeOf, D) \in Nat
    BY BytesSplit DEF SessionInv
  <2>2. Bytes(E) \in Nat
    BY BytesType DEF SessionInv
  <2> HIDE DEF D, E
  <2> QED BY <2>1, <2>2
<1>6. Bytes(E) = Bytes(Expired(t)) + Bytes({s} \ Expired(t))
  BY BytesOnce DEF SessionInv
<1>7. s \in N /\ N \ {s} = D
  OBVIOUS
<1>8. IsFiniteSet(N)
  BY <1>1, FS_AddElement
<1> HIDE DEF D, N, E, f
<1>9. Sized(f, N)
  BY <1>1, <1>2, <1>3, <1>7 DEF Sized
<1>10. Total(f, N) = size + Total(f, D)
  BY <1>3, <1>7, <1>8, <1>9, TotalAdd
<1>11. Total(f, D) = Total(sizeOf, D)
  BY <1>1, <1>2, TotalSame
<1>12. Bytes(Expired(t)) \in Nat /\ Bytes({s} \ Expired(t)) \in Nat
  BY BytesType DEF SessionInv
<1> QED BY <1>3, <1>4, <1>5, <1>6, <1>10, <1>11, <1>12

LEMMA ClearBytes ==
  ASSUME SessionInv, NEW s \in SessionIds, Clear(s)
  PROVE  Bytes(Counted)' = Bytes(Counted) - Bytes({s})
<1> DEFINE D == Counted \ {s}
           f == sizeOf'
<1>1. IsFiniteSet(D) /\ Sized(sizeOf, D)
  BY BytesType, FS_Subset DEF Sized, SessionInv
<1>2. Counted' = D /\ \A x \in D : f[x] = sizeOf[x]
  BY DEF Clear, Counted, SessionInv, SessionTypeOK
<1>3. Bytes(Counted)' = Total(f, D)
  BY <1>2, BytesNow
<1>4. Total(sizeOf, D) = Bytes(Counted) - Bytes({s})
  <2>1. Bytes(Counted) = Bytes({s}) + Total(sizeOf, D) /\ Total(sizeOf, D) \in Nat
    BY BytesSplit DEF SessionInv
  <2>2. Bytes({s}) \in Nat
    BY BytesType DEF SessionInv
  <2> HIDE DEF D
  <2> QED BY <2>1, <2>2
<1> HIDE DEF D, f
<1>5. Total(f, D) = Total(sizeOf, D)
  BY <1>1, <1>2, TotalSame
<1> QED BY <1>3, <1>4, <1>5

(* Whose bytes are taken off the total: what they are is counted in it.     *)
LEMMA PartOfTotal ==
  ASSUME SessionInv, SessionsCovered, NEW ids
  PROVE  /\ Bytes(ids) \in Nat /\ Bytes(Counted) \in Nat /\ total \in Nat
         /\ Bytes(ids) <= Bytes(Counted)
         /\ Bytes(Counted) <= total /\ total <= SessionBudget
         /\ Minus(total, Bytes(ids)) = total - Bytes(ids)
<1>1. Bytes(ids) \in Nat /\ Bytes(Counted) \in Nat /\ total \in Nat
  BY BytesType DEF SessionInv, SessionTypeOK
<1>2. Bytes(Counted) = Bytes(ids) + Total(sizeOf, Counted \ ids) /\ Total(sizeOf, Counted \ ids) \in Nat
  BY BytesSplit DEF SessionInv
<1> QED BY <1>1, <1>2 DEF SessionsCovered, Minus

(* How each step changes total and bytes: together, but for the sweep of a  *)
(* write that is then refused.                                              *)
StepsTogether == total' - Bytes(Counted)' = total - Bytes(Counted) /\ total' <= SessionBudget

LEMMA StepBytes ==
  ASSUME SessionInv, SessionsCovered, [SessionStoreNext]_sessionStoreVars
  PROVE  \/ StepsTogether
         \/ total' = total /\ \E t \in SessionClock : Sweep(t)
<1> USE SessionStoreAssumption
<1>1. ASSUME NEW s \in SessionIds, NEW t \in SessionClock, NEW size \in Sizes,
             NEW expected \in (1..MaxRevision) \cup {NoSession}, WriteStored(s, expected, size, t)
      PROVE  StepsTogether
  <2> DEFINE e == Bytes(Expired(t))
             o == Bytes({s} \ Expired(t))
             B == Bytes(Counted)
  <2>1. Bytes(Counted)' = B - (e + o) + size
    BY <1>1, WriteBytes
  <2>2. e \in Nat /\ o \in Nat /\ B \in Nat /\ total \in Nat /\ size \in Nat
    BY PartOfTotal
  <2>3. e + o <= B /\ B <= total
    <3>1. Bytes(Expired(t) \cup {s}) = e + o
      BY BytesOnce DEF SessionInv
    <3>2. Bytes(Expired(t) \cup {s}) <= B /\ B <= total
      BY PartOfTotal
    <3> QED BY <3>1, <3>2
  <2>4. ~OverBudget(s, size, t) /\ total' = Minus(SweptTotal(t), o) + size
    BY <1>1 DEF WriteStored, Refused
  <2>5. Minus(SweptTotal(t), o) = total - e - o
    <3> HIDE DEF e, o, B
    <3>1. SweptTotal(t) = total - e
      BY <2>2, <2>3 DEF SweptTotal, Minus, e
    <3> QED BY <3>1, <2>2, <2>3 DEF Minus
  <2>6. total' = total - e - o + size /\ total' <= SessionBudget
    <3>1. Minus(SweptTotal(t), o) + size <= SessionBudget
      BY <2>4, <2>2, <2>3, <2>5 DEF OverBudget
    <3> QED BY <3>1, <2>4, <2>5
  <2> HIDE DEF e, o, B
  <2>7. total' - Bytes(Counted)' = total - B
    BY <2>1, <2>2, <2>6
  <2> QED BY <2>6, <2>7 DEF B, StepsTogether
<1>2. ASSUME NEW s \in SessionIds, Clear(s) PROVE StepsTogether
  <2>1. Bytes(Counted)' = Bytes(Counted) - Bytes({s}) /\ total' = total - Bytes({s})
    BY <1>2, ClearBytes, PartOfTotal DEF Clear
  <2> QED BY <2>1, PartOfTotal DEF StepsTogether
<1>3. ASSUME NEW t \in SessionClock, Stats(t) PROVE StepsTogether
  <2>1. Bytes(Counted)' = Bytes(Counted) - Bytes(Expired(t)) /\ total' = total - Bytes(Expired(t))
    BY <1>3, SweepBytes, PartOfTotal DEF Stats, SweptTotal
  <2> QED BY <2>1, PartOfTotal DEF StepsTogether
<1>4. ASSUME UNCHANGED <<sizeOf, total>> PROVE StepsTogether
  <2>1. Bytes(Counted)' = Bytes(Counted)
    BY <1>4, BytesNow DEF Counted
  <2> QED BY <2>1, <1>4, PartOfTotal DEF StepsTogether
<1>5. ASSUME NEW s \in SessionIds, NEW t \in SessionClock, Write(s, t)
      PROVE  StepsTogether \/ (total' = total /\ Sweep(t))
  BY <1>5, <1>1 DEF Write, WriteLocked, WriteRefused
<1> QED BY <1>2, <1>3, <1>4, <1>5 DEF SessionStoreNext, sessionStoreVars

LEMMA StepCovered == SessionInv /\ SessionsCovered /\ [SessionStoreNext]_sessionStoreVars => SessionsCovered'
<1> SUFFICES ASSUME SessionInv, SessionsCovered, [SessionStoreNext]_sessionStoreVars PROVE SessionsCovered'
  OBVIOUS
<1>1. Bytes(Counted) \in Nat /\ total \in Nat /\ Bytes(Counted) <= total /\ total <= SessionBudget
  BY PartOfTotal
<1>2. Bytes(Counted)' \in Nat /\ total' \in Nat
  <2>1. SessionInv'
    BY StepSessionInv
  <2>2. SessionTypeOK'
    BY <2>1 DEF SessionInv
  <2> QED BY <2>2, BytesTypeNext DEF SessionTypeOK
<1>3. CASE StepsTogether
  BY <1>1, <1>2, <1>3 DEF StepsTogether, SessionsCovered
<1>4. ASSUME NEW t \in SessionClock, Sweep(t), total' = total PROVE SessionsCovered'
  <2>1. Bytes(Counted)' = Bytes(Counted) - Bytes(Expired(t)) /\ Bytes(Expired(t)) \in Nat
    BY <1>4, SweepBytes, PartOfTotal
  <2> QED BY <1>1, <1>2, <1>4, <2>1 DEF SessionsCovered
<1> QED BY <1>3, <1>4, StepBytes

(* However the clocks disagree, sessions and bytes stay within their limits *)
(* and no session is missing from the total.                                *)
THEOREM SessionsStayBounded == SessionStoreSpec => []SessionsBounded
<1> DEFINE Inv == SessionInv /\ CountCap /\ SessionsCovered
<1>1. Inv => SessionsBounded
  <2> SUFFICES ASSUME Inv PROVE SessionsBounded
    OBVIOUS
  <2>1. IsFiniteSet(Counted) /\ Stored \subseteq Counted
    BY BytesType DEF SessionInv, SessionKeysAgree
  <2>2. /\ Cardinality(Stored) \in Nat /\ Cardinality(Counted) \in Nat
        /\ Cardinality(Stored) <= Cardinality(Counted)
    BY <2>1, FS_Subset, FS_CardinalityType
  <2>3. Cardinality(Stored) <= MaxSessions
    BY <2>2, SessionStoreAssumption DEF CountCap
  <2> QED BY <2>3 DEF SessionsBounded, SessionsCovered
<1>2. Inv /\ [SessionStoreNext]_sessionStoreVars => Inv'
  BY StepSessionInv, StepCountCap, StepCovered
<1>3. SessionStoreInit => Inv
  BY InitSessionInv
<1> QED BY <1>1, <1>2, <1>3, PTL DEF SessionStoreSpec

(* Only the sweep of a write that is then refused lets the total drift.     *)
THEOREM DriftIsRefusal == SessionStoreSpec => DriftOnlyByRefusal
<1> DEFINE Inv == SessionInv /\ SessionsCovered
           OnlyRefusal == Drift' > Drift => /\ total' = total
                                            /\ \E t \in SessionClock : Expired(t) # {} /\ Sweep(t)
<1>1. Inv /\ [SessionStoreNext]_sessionStoreVars => OnlyRefusal
  <2> SUFFICES ASSUME Inv, [SessionStoreNext]_sessionStoreVars, Drift' > Drift PROVE OnlyRefusal
    OBVIOUS
  <2>1. Bytes(Counted) \in Nat /\ total \in Nat
    BY PartOfTotal
  <2>2. ~StepsTogether
    BY <2>1 DEF StepsTogether, Drift
  <2>3. PICK t \in SessionClock : Sweep(t) /\ total' = total
    BY <2>2, StepBytes
  <2>4. Expired(t) # {}
    <3> SUFFICES ASSUME Expired(t) = {} PROVE FALSE
      OBVIOUS
    <3>1. sizeOf' = sizeOf
      BY <2>3 DEF Sweep, SessionInv, SessionTypeOK
    <3>2. Bytes(Counted)' = Bytes(Counted)
      BY <3>1, BytesNow DEF Counted
    <3> QED BY <2>1, <2>3, <3>2 DEF Drift
  <2> QED BY <2>3, <2>4
<1>2. Inv /\ [SessionStoreNext]_sessionStoreVars => Inv'
  BY StepSessionInv, StepCovered
<1>3. SessionStoreInit => Inv
  BY InitSessionInv
<1>4. SessionStoreSpec => [][OnlyRefusal]_sessionStoreVars
  BY <1>1, <1>2, <1>3, PTL DEF SessionStoreSpec
<1> QED BY <1>4 DEF DriftOnlyByRefusal

-----------------------------------------------------------------------------
(************************** Idempotency of searches ************************)

Records == [state : {"pending", "fulfilled"}, owner : Calls, payload : Payloads]
OwnerPcs == {"execute", "complete", "giveBack", "giveUp", "done"}
Pcs == {"new", "claim", "wait", "read"} \cup OwnerPcs
CallStates == [pc : Pcs, key : IdempotencyKeys \cup {NoRecord}, payload : Payloads \cup {NoRecord},
               claims : Nat, answer : Calls \cup {NoRecord, Failed}]

CallsOK ==
    /\ call \in [Calls -> CallStates]
    /\ \A c \in Calls : ~At(c, "new") => call[c].key \in IdempotencyKeys /\ call[c].payload \in Payloads

(* The types of the store; and the four keys stay in step. *)
StoreOK ==
    /\ record \in [IdempotencyKeys -> Records \cup {NoRecord}]
    /\ response \in [IdempotencyKeys -> Calls \cup {NoRecord}]
    /\ score \in [IdempotencyKeys -> {"live", "old"} \cup {NoRecord}]
    /\ bytes \in [IdempotencyKeys -> Nat \cup {NoRecord}]
    /\ stored \in Nat
    /\ gone \in [IdempotencyKeys -> SUBSET {"aged", "evicted", "released"}]
    /\ RecordsAgree

(* A record is the one its owner made for the request it sent. *)
OwnersLinked ==
    \A k \in Present :
        LET o == record[k].owner IN
        call[o].pc \in OwnerPcs /\ call[o].key = k /\ call[o].payload = record[k].payload

-----------------------------------------------------------------------------
(* What a call that is where it is knows of the record of its key, unless   *)
(* that record has gone.  A call that executes owns the pending record, and *)
(* only age takes it away.                                                  *)
OwnsWhileExecuting(c) ==
    call[c].pc \in {"execute", "complete"} => Owns(c) \/ "aged" \in gone[call[c].key]

OwnsGivingBack(c) ==
    At(c, "giveBack") => Owns(c) \/ gone[call[c].key] # {}

(* A call that waits or reads has seen the record of its own payload.       *)
HasSeen(c) ==
    LET k == call[c].key IN
    call[c].pc \in {"wait", "read"} =>
        \/ gone[k] # {}
        \/ k \in Present /\ record[k].payload = call[c].payload /\ (At(c, "read") => Fulfilled(k))

(* A call that is answered is answered with the search of the record.       *)
AnsweredFromRecord(c) ==
    LET k == call[c].key IN
    c \in Answered =>
        \/ gone[k] # {}
        \/ Fulfilled(k) /\ record[k].owner = call[c].answer /\ record[k].payload = call[c].payload

Knows(c) == OwnsWhileExecuting(c) /\ OwnsGivingBack(c) /\ HasSeen(c) /\ AnsweredFromRecord(c)

IdempotencyInv ==
    /\ StoreOK /\ CallsOK /\ callFaults \in Nat /\ OwnersLinked /\ NoAbandonedRecord
    /\ \A c \in Calls : Knows(c)

(* How a step can change the record of a key, and what its history then     *)
(* says: it stays; its owner fulfils it and is done with it; or it goes,    *)
(* and a pending one only by age or by its owner's release.                 *)
Stays(k) == record'[k] = record[k]
Fulfils(k) ==
    /\ Pending(k) /\ record'[k] = [record[k] EXCEPT !.state = "fulfilled"]
    /\ call'[record[k].owner].pc \in {"done", "giveUp"}
Goes(k) ==
    /\ gone'[k] # {}
    /\ Pending(k) => \/ "aged" \in gone'[k]
                     \/ call[record[k].owner].pc \in {"giveBack", "giveUp"}

Fate(k) == gone[k] \subseteq gone'[k] /\ (k \in Present => Stays(k) \/ Fulfils(k) \/ Goes(k))

(* What a step does to a call: an owner stays one, and a request is the     *)
(* same until the end.                                                      *)
SameRequest(c) ==
    /\ ~At(c, "new") => call'[c].key = call[c].key /\ call'[c].payload = call[c].payload
    /\ call[c].pc \in OwnerPcs => call'[c].pc \in OwnerPcs

-----------------------------------------------------------------------------
(* What moves a call. *)
OthersStay(c) == \A d \in Calls \ {c} : call'[d] = call[d]
Moved(c, pc) ==
    /\ CallsOK' /\ call'[c].pc = pc /\ OthersStay(c)
    /\ ~At(c, "new") => call'[c].key = call[c].key /\ call'[c].payload = call[c].payload

LEMMA GotoMoves ==
  ASSUME CallsOK, NEW c \in Calls, ~At(c, "new"), NEW pc \in Pcs \ {"new"}, Goto(c, pc)
  PROVE  Moved(c, pc)
BY DEF Goto, CallsOK, CallStates, Moved, OthersStay, At

LEMMA EndMoves ==
  ASSUME CallsOK, NEW c \in Calls, ~At(c, "new"), NEW a \in Calls \cup {NoRecord, Failed}, End(c, a)
  PROVE  Moved(c, "done") /\ call'[c].answer = a
<1> DEFINE one == [call EXCEPT ![c].pc = "done"]
<1>1. one \in [Calls -> CallStates] /\ call' = [one EXCEPT ![c].answer = a]
  BY DEF End, CallsOK, CallStates, Pcs, OwnerPcs
<1>2. call'[c] = [one[c] EXCEPT !.answer = a] /\ one[c] = [call[c] EXCEPT !.pc = "done"]
  BY <1>1 DEF CallsOK
<1>3. \A d \in Calls \ {c} : call'[d] = call[d]
  BY <1>1 DEF CallsOK
<1>4. call' \in [Calls -> CallStates]
  BY <1>1 DEF CallStates
<1>5. /\ call'[c].pc = "done" /\ call'[c].answer = a
      /\ call'[c].key = call[c].key /\ call'[c].payload = call[c].payload
  <2> HIDE DEF one
  <2> QED BY <1>2 DEF CallsOK, CallStates
<1>6. CallsOK'
  BY <1>3, <1>4, <1>5 DEF CallsOK, At
<1> QED BY <1>3, <1>5, <1>6 DEF Moved, OthersStay

-----------------------------------------------------------------------------
(* The record that a CLAIM makes. *)
Made(c) == [state |-> "pending", owner |-> c, payload |-> call[c].payload]

(* The sizes of the records are numbers, and what they sum to is one.       *)
LEMMA BytesOfType ==
  ASSUME StoreOK, NEW keys
  PROVE  /\ IsFiniteSet(Indexed) /\ Sized(bytes, Indexed)
         /\ BytesOf(keys) = Total(bytes, keys \cap Indexed)
         /\ BytesOf(keys) \in Nat
<1>1. IsFiniteSet(Indexed)
  BY IdempotencyAssumption, FS_Subset DEF Indexed
<1>2. Sized(bytes, Indexed)
  BY DEF StoreOK, RecordsAgree, Indexed, Sized
<1>3. BytesOf(keys) = Total(bytes, keys \cap Indexed)
  BY DEF BytesOf, Total, MapThenSumSet, MapThenFoldSet
<1>4. Total(bytes, keys \cap Indexed) \in Nat
  BY <1>1, <1>2, TotalStep
<1> QED BY <1>1, <1>2, <1>3, <1>4

LEMMA LessType == ASSUME StoreOK, NEW keys PROVE Less(stored, BytesOf(keys)) \in Nat
<1>1. BytesOf(keys) \in Nat /\ stored \in Nat
  BY BytesOfType DEF StoreOK
<1> QED BY <1>1 DEF Less

(* The history of what is swept and evicted. *)
LEMMA GoneWith ==
  ASSUME StoreOK, NEW aged, NEW evicted, gone' = WithGone(aged, evicted)
  PROVE  /\ gone' \in [IdempotencyKeys -> SUBSET {"aged", "evicted", "released"}]
         /\ \A k \in IdempotencyKeys : gone[k] \subseteq gone'[k]
         /\ \A k \in aged \cap Present : "aged" \in gone'[k]
         /\ \A k \in evicted \cap Present : gone'[k] # {}
BY DEF WithGone, StoreOK, Present

LEMMA RemoveKeeps ==
  ASSUME StoreOK, NEW keys \in SUBSET IdempotencyKeys, RemoveRecords(keys), stored' \in Nat,
         gone' \in [IdempotencyKeys -> SUBSET {"aged", "evicted", "released"}]
  PROVE  /\ StoreOK'
         /\ \A k \in IdempotencyKeys : record'[k] = IF k \in keys THEN NoRecord ELSE record[k]
<1> USE IdempotencyAssumption
<1>1. /\ record' \in [IdempotencyKeys -> Records \cup {NoRecord}]
      /\ response' \in [IdempotencyKeys -> Calls \cup {NoRecord}]
      /\ score' \in [IdempotencyKeys -> {"live", "old"} \cup {NoRecord}]
      /\ bytes' \in [IdempotencyKeys -> Nat \cup {NoRecord}]
  BY DEF StoreOK, RemoveRecords, Without
<1>2. \A k \in IdempotencyKeys : record'[k] = IF k \in keys THEN NoRecord ELSE record[k]
  BY DEF RemoveRecords, Without
<1>3. RecordsAgree'
  <2>1. \A k \in IdempotencyKeys :
          /\ response'[k] = IF k \in keys THEN NoRecord ELSE response[k]
          /\ score'[k] = IF k \in keys THEN NoRecord ELSE score[k]
          /\ bytes'[k] = IF k \in keys THEN NoRecord ELSE bytes[k]
    BY DEF RemoveRecords, Without
  <2> QED BY <1>2, <2>1 DEF StoreOK, RecordsAgree, Present, Indexed, Fulfilled
<1> QED BY <1>1, <1>2, <1>3 DEF StoreOK

(* A step that only removes, some for their age and the others evicted.     *)
LEMMA RemoveFate ==
  ASSUME StoreOK, NEW aged \in SUBSET IdempotencyKeys, NEW evicted \in SUBSET IdempotencyKeys,
         \A k \in evicted : ~Pending(k),
         RemoveRecords(aged \cup evicted), stored' \in Nat, gone' = WithGone(aged, evicted)
  PROVE  /\ StoreOK' /\ \A k \in IdempotencyKeys : Fate(k)
         /\ \A k \in Present' : Stays(k)
         /\ \A k \in IdempotencyKeys \ (aged \cup evicted) : Stays(k)
<1>1. gone' \in [IdempotencyKeys -> SUBSET {"aged", "evicted", "released"}]
  BY GoneWith
<1>2. StoreOK' /\ \A k \in IdempotencyKeys : record'[k] = IF k \in aged \cup evicted THEN NoRecord ELSE record[k]
  BY <1>1, RemoveKeeps
<1>3. \A k \in IdempotencyKeys : Fate(k)
  BY <1>2, GoneWith DEF Fate, Stays, Goes
<1> QED BY <1>2, <1>3 DEF Present, Stays

(* A key is written with a value of its kind. *)
LEMMA PutType ==
  ASSUME NEW V, NEW f \in [IdempotencyKeys -> V \cup {NoRecord}], NEW keys,
         NEW k \in IdempotencyKeys, NEW v \in V
  PROVE  /\ Without(f, keys) \in [IdempotencyKeys -> V \cup {NoRecord}]
         /\ Put(f, k, keys, v) \in [IdempotencyKeys -> V \cup {NoRecord}]
BY DEF Without, Put

LEMMA CreateFate ==
  ASSUME StoreOK, CallsOK, NEW c \in Calls, ~At(c, "new"), NEW swept \in SUBSET Old,
         NEW evicted \in SUBSET Indexed, ClaimCreates(c, swept, evicted)
  PROVE  /\ StoreOK' /\ \A k \in IdempotencyKeys : Fate(k)
         /\ record'[call[c].key] = Made(c)
         /\ \A k \in Present' : k # call[c].key => Stays(k)
<1> USE IdempotencyAssumption
<1> DEFINE key == call[c].key
           out == swept \cup evicted
<1>1. key \in IdempotencyKeys /\ call[c].payload \in Payloads
  BY DEF CallsOK
<1>2. Made(c) \in Records /\ Made(c) # NoRecord /\ Made(c).state = "pending"
  BY <1>1 DEF Made, Records
<1>3. \A k \in IdempotencyKeys :
        /\ record'[k] = IF k = key THEN Made(c) ELSE IF k \in out THEN NoRecord ELSE record[k]
        /\ response'[k] = IF k \in out THEN NoRecord ELSE response[k]
        /\ score'[k] = IF k = key THEN "live" ELSE IF k \in out THEN NoRecord ELSE score[k]
        /\ bytes'[k] = IF k = key THEN 0 ELSE IF k \in out THEN NoRecord ELSE bytes[k]
  BY <1>1 DEF ClaimCreates, Put, Without, Made
<1>4. /\ record' \in [IdempotencyKeys -> Records \cup {NoRecord}]
      /\ response' \in [IdempotencyKeys -> Calls \cup {NoRecord}]
      /\ score' \in [IdempotencyKeys -> {"live", "old"} \cup {NoRecord}]
      /\ bytes' \in [IdempotencyKeys -> Nat \cup {NoRecord}]
  <2>1. record' = Put(record, key, out, Made(c)) /\ response' = Without(response, out)
        /\ score' = Put(score, key, out, "live") /\ bytes' = Put(bytes, key, out, 0)
    BY DEF ClaimCreates, Made
  <2> HIDE DEF key, out
  <2> QED BY <1>1, <1>2, <2>1, PutType DEF StoreOK
<1>5. stored' \in Nat
  BY LessType DEF ClaimCreates
<1>6. gone' = WithGone(swept, evicted)
  BY DEF ClaimCreates
<1>7. gone' \in [IdempotencyKeys -> SUBSET {"aged", "evicted", "released"}]
  BY <1>6, GoneWith
<1>8. key \in Present => key \in swept
  BY DEF ClaimCreates, Existing
<1>9. RecordsAgree'
  <2>1. response'[key] = NoRecord
    BY <1>1, <1>3, <1>8 DEF StoreOK, RecordsAgree, Fulfilled
  <2>2. \A k \in IdempotencyKeys \ {key} :
          /\ k \in Present' <=> k \in Present \ out
          /\ k \in Indexed' <=> k \in Indexed \ out
          /\ record'[k] = IF k \in out THEN NoRecord ELSE record[k]
    BY <1>3 DEF Present, Indexed
  <2> HIDE DEF out, key
  <2> QED BY <1>1, <1>2, <1>3, <2>1, <2>2 DEF StoreOK, RecordsAgree, Present, Indexed, Fulfilled
<1>10. \A k \in evicted : ~Pending(k)
  BY DEF ClaimCreates, Evicts, Evictable
<1>11. \A k \in IdempotencyKeys : Fate(k)
  BY <1>3, <1>6, <1>8, <1>10, GoneWith DEF Fate, Stays, Goes
<1> QED BY <1>1, <1>3, <1>4, <1>5, <1>7, <1>9, <1>11 DEF StoreOK, Present, Stays

LEMMA CompleteFate ==
  ASSUME StoreOK, CallsOK, NEW c \in Calls, ~At(c, "new"), NEW size \in ResponseSizes,
         NEW evicted \in SUBSET Others(c), Owns(c), CompleteStores(c, size, evicted),
         call'[c].pc \in {"done", "giveUp"}
  PROVE  /\ StoreOK' /\ \A k \in IdempotencyKeys : Fate(k)
         /\ record'[call[c].key] = [record[call[c].key] EXCEPT !.state = "fulfilled"]
         /\ \A k \in Present' : Stays(k) \/ Fulfils(k)
<1> USE IdempotencyAssumption
<1> DEFINE key == call[c].key
           made == [record[key] EXCEPT !.state = "fulfilled"]
<1>1. key \in Present /\ record[key] \in Records /\ record[key].owner = c /\ Pending(key)
      /\ key \notin evicted /\ evicted \in SUBSET IdempotencyKeys /\ key \in IdempotencyKeys
  BY DEF Owns, Pending, Present, StoreOK, Others, Evictable, Indexed
<1>2. made \in Records /\ made # NoRecord /\ made.state = "fulfilled" /\ made.owner = c
  BY <1>1 DEF Records
<1>3. \A k \in IdempotencyKeys :
        /\ record'[k] = IF k = key THEN made ELSE IF k \in evicted THEN NoRecord ELSE record[k]
        /\ response'[k] = IF k = key THEN c ELSE IF k \in evicted THEN NoRecord ELSE response[k]
        /\ score'[k] = IF k = key THEN "live" ELSE IF k \in evicted THEN NoRecord ELSE score[k]
        /\ bytes'[k] = IF k = key THEN size ELSE IF k \in evicted THEN NoRecord ELSE bytes[k]
  BY <1>1 DEF CompleteStores, Put, Without
<1>4. /\ record' \in [IdempotencyKeys -> Records \cup {NoRecord}]
      /\ response' \in [IdempotencyKeys -> Calls \cup {NoRecord}]
      /\ score' \in [IdempotencyKeys -> {"live", "old"} \cup {NoRecord}]
      /\ bytes' \in [IdempotencyKeys -> Nat \cup {NoRecord}]
  <2>1. record' = Put(record, key, evicted, made) /\ response' = Put(response, key, evicted, c)
        /\ score' = Put(score, key, evicted, "live") /\ bytes' = Put(bytes, key, evicted, size)
        /\ size \in Nat
    BY DEF CompleteStores
  <2> HIDE DEF key, made
  <2> QED BY <1>1, <1>2, <2>1, PutType DEF StoreOK
<1>5. stored' \in Nat
  <2>1. size \in Nat
    OBVIOUS
  <2> QED BY <2>1, LessType DEF CompleteStores
<1>6. gone' = WithGone({}, evicted)
  BY DEF CompleteStores
<1>7. gone' \in [IdempotencyKeys -> SUBSET {"aged", "evicted", "released"}]
  BY <1>6, GoneWith
<1>8. RecordsAgree'
  <2>1. \A k \in IdempotencyKeys \ {key} :
          /\ k \in Present' <=> k \in Present \ evicted
          /\ k \in Indexed' <=> k \in Indexed \ evicted
          /\ record'[k] = IF k \in evicted THEN NoRecord ELSE record[k]
    BY <1>3 DEF Present, Indexed
  <2> HIDE DEF key, made
  <2>2. key \in Present' /\ key \in Indexed' /\ record'[key] = made /\ bytes'[key] # NoRecord
    BY <1>1, <1>2, <1>3 DEF Present, Indexed
  <2> QED BY <1>1, <1>2, <1>3, <2>1, <2>2 DEF StoreOK, RecordsAgree, Present, Indexed, Fulfilled
<1>9. \A k \in evicted : ~Pending(k)
  BY DEF Others, Evictable
<1>10. Fulfils(key)
  BY <1>1, <1>3 DEF Fulfils
<1>11. \A k \in IdempotencyKeys : Fate(k)
  BY <1>3, <1>6, <1>9, <1>10, GoneWith DEF Fate, Stays, Goes
<1> QED BY <1>1, <1>3, <1>4, <1>5, <1>7, <1>8, <1>10, <1>11 DEF StoreOK, Present, Stays

(* A step that leaves the records alone. *)
LEMMA NothingHappens ==
  ASSUME StoreOK, UNCHANGED <<recordVars, gone>>
  PROVE  /\ StoreOK' /\ \A k \in IdempotencyKeys : Fate(k)
         /\ \A k \in IdempotencyKeys : Stays(k)
BY DEF recordVars, StoreOK, RecordsAgree, Present, Indexed, Fulfilled, Fate, Stays

(* A release takes the record of its owner, or nothing. *)
LEMMA ReleaseFate ==
  ASSUME StoreOK, CallsOK, NEW c \in Calls, call[c].pc \in {"giveBack", "giveUp"}, RemoveReleased(c)
  PROVE  /\ StoreOK' /\ \A k \in IdempotencyKeys : Fate(k)
         /\ \A k \in Present' : Stays(k)
         /\ Owns(c) => record'[call[c].key] = NoRecord /\ "released" \in gone'[call[c].key]
         /\ ~Owns(c) => UNCHANGED <<recordVars, gone>>
<1> USE IdempotencyAssumption
<1> DEFINE key == call[c].key
<1>1. CASE Owns(c)
  <2>1. key \in Present /\ key \in IdempotencyKeys /\ record[key].owner = c
    BY <1>1 DEF Owns, Pending, Present
  <2>2. RemoveRecords({key}) /\ stored' = Less(stored, BytesOf({key}))
        /\ gone' = [gone EXCEPT ![key] = @ \cup {"released"}]
    BY <1>1 DEF RemoveReleased
  <2>3. stored' \in Nat /\ gone' \in [IdempotencyKeys -> SUBSET {"aged", "evicted", "released"}]
    BY <2>1, <2>2, LessType DEF StoreOK
  <2>4. StoreOK' /\ \A k \in IdempotencyKeys : record'[k] = IF k \in {key} THEN NoRecord ELSE record[k]
    BY SMTT(30), <2>1, <2>2, <2>3, RemoveKeeps
  <2>5. "released" \in gone'[key]
    BY <2>1, <2>2 DEF StoreOK
  <2>6. \A k \in IdempotencyKeys : Fate(k)
    BY <2>1, <2>2, <2>4, <2>5 DEF Fate, Stays, Goes, StoreOK
  <2> QED BY <1>1, <2>4, <2>5, <2>6, <2>1 DEF Stays, Present
<1>2. CASE ~Owns(c)
  <2>1. UNCHANGED <<recordVars, gone>>
    BY <1>2 DEF RemoveReleased
  <2> QED BY <1>2, <2>1, NothingHappens DEF Present
<1> QED BY <1>1, <1>2

(* The TTLs take record and response together; a score only comes of age.   *)
LEMMA ExpireFate ==
  ASSUME StoreOK, NEW k \in IdempotencyKeys, RecordExpires(k)
  PROVE  /\ StoreOK' /\ \A x \in IdempotencyKeys : Fate(x)
         /\ \A x \in Present' : Stays(x)
<1> USE IdempotencyAssumption
<1>1. gone' = WithGone({k}, {}) /\ k \in Present
  BY DEF RecordExpires
<1>2. gone' \in [IdempotencyKeys -> SUBSET {"aged", "evicted", "released"}]
  BY <1>1, GoneWith
<1>3. /\ record' \in [IdempotencyKeys -> Records \cup {NoRecord}]
      /\ response' \in [IdempotencyKeys -> Calls \cup {NoRecord}]
  BY DEF RecordExpires, Without, StoreOK
<1>4. /\ \A x \in IdempotencyKeys : record'[x] = IF x = k THEN NoRecord ELSE record[x]
      /\ \A x \in IdempotencyKeys : response'[x] = IF x = k THEN NoRecord ELSE response[x]
      /\ UNCHANGED <<score, bytes, stored>>
  BY DEF RecordExpires, Without
<1>5. RecordsAgree'
  BY <1>4 DEF StoreOK, RecordsAgree, Present, Indexed, Fulfilled
<1>6. \A x \in IdempotencyKeys : Fate(x)
  BY <1>1, <1>4, GoneWith DEF Fate, Stays, Goes
<1> QED BY <1>2, <1>3, <1>4, <1>5, <1>6 DEF StoreOK, Present, Stays

LEMMA AgeFate ==
  ASSUME StoreOK, NEW k \in IdempotencyKeys, ComesOfAge(k)
  PROVE  /\ StoreOK' /\ \A x \in IdempotencyKeys : Fate(x) /\ Stays(x)
<1> USE IdempotencyAssumption
<1>1. /\ score' = [score EXCEPT ![k] = "old"] /\ score[k] # NoRecord
      /\ UNCHANGED <<record, response, bytes, stored, gone>>
  BY DEF ComesOfAge, Indexed, Old
<1>2. Indexed' = Indexed
  BY <1>1 DEF Indexed, StoreOK
<1>3. score' \in [IdempotencyKeys -> {"live", "old"} \cup {NoRecord}]
  BY <1>1 DEF StoreOK
<1> QED BY <1>1, <1>2, <1>3 DEF StoreOK, RecordsAgree, Present, Fulfilled, Fate, Stays

-----------------------------------------------------------------------------
(* What a step of a call does to the store and to the call. *)
MadeNow(k) ==
    \E c \in Calls :
        /\ At(c, "claim") /\ call[c].key = k /\ record'[k] = Made(c) /\ call'[c].pc \in OwnerPcs
        /\ callFaults' = 0 => call'[c].pc # "done"

(* Without faults an owner does not end while its record is pending.        *)
Settled(c) ==
    callFaults' = 0 /\ call[c].pc \in OwnerPcs \ {"done"} /\ call'[c].pc = "done" /\ Owns(c)
        => ~Stays(call[c].key)

FaultsOK == callFaults' \in Nat /\ (callFaults' = 0 => callFaults = 0)

StoreStep ==
    /\ StoreOK' /\ \A k \in IdempotencyKeys : Fate(k)
    /\ \A k \in Present' : Stays(k) \/ Fulfils(k) \/ MadeNow(k)

Steps(c) ==
    /\ StoreStep /\ CallsOK' /\ OthersStay(c) /\ SameRequest(c) /\ Knows(c)' /\ Settled(c)
    /\ FaultsOK

(* A call that is neither waiting, owning nor answered knows nothing.       *)
LEMMA KnowsNothing ==
  ASSUME NEW c \in Calls,
         call'[c].pc \in {"claim", "giveUp"} \/ (call'[c].pc = "done" /\ call'[c].answer = Failed)
  PROVE  Knows(c)'
BY DEF Knows, OwnsWhileExecuting, OwnsGivingBack, HasSeen, AnsweredFromRecord, Answered, At

LEMMA FaultCounts == ASSUME callFaults \in Nat, CallFault \/ UNCHANGED callFaults PROVE FaultsOK
BY DEF CallFault, FaultsOK

LEMMA StartSteps ==
  ASSUME IdempotencyInv, NEW c \in Calls, Start(c)
  PROVE  Steps(c)
<1> USE DEF IdempotencyInv
<1>1. UNCHANGED <<recordVars, gone>> /\ FaultsOK
  BY FaultCounts DEF Start, recordVars
<1>2. StoreStep
  BY <1>1, NothingHappens DEF StoreStep, recordVars, Present
<1>3. PICK k \in IdempotencyKeys, f \in Payloads :
        call' = [call EXCEPT ![c] = [@ EXCEPT !.pc = "claim", !.key = k, !.payload = f]]
  BY DEF Start
<1>4. call'[c] = [call[c] EXCEPT !.pc = "claim", !.key = k, !.payload = f] /\ OthersStay(c)
  BY <1>3 DEF CallsOK, OthersStay
<1>5. call'[c] \in CallStates /\ call'[c].pc = "claim" /\ call'[c].key = k /\ call'[c].payload = f
  BY <1>4, ZenonT(60) DEF CallsOK, CallStates, Pcs
<1>6. CallsOK'
  <2>1. call' \in [Calls -> CallStates]
    BY <1>3, <1>4, <1>5 DEF CallsOK
  <2> QED BY <2>1, <1>4, <1>5 DEF CallsOK, OthersStay, At
<1>7. Knows(c)'
  BY <1>5, KnowsNothing
<1> QED BY <1>1, <1>2, <1>4, <1>5, <1>6, <1>7 DEF Steps, SameRequest, Settled, Start, At, OwnerPcs

(* A call that moves on without a record to keep. *)
LEMMA MovesOn ==
  ASSUME IdempotencyInv, NEW c \in Calls, ~At(c, "new"), NEW pc \in Pcs \ {"new"}, Moved(c, pc),
         call[c].pc \in OwnerPcs => pc \in OwnerPcs,
         StoreStep, FaultsOK, Knows(c)',
         callFaults' = 0 /\ call[c].pc \in OwnerPcs \ {"done"} /\ pc = "done" /\ Owns(c)
            => ~Stays(call[c].key)
  PROVE  Steps(c)
BY DEF Moved, Steps, SameRequest, Settled

LEMMA ClaimSteps ==
  ASSUME IdempotencyInv, NEW c \in Calls, Claim(c)
  PROVE  Steps(c)
<1> USE DEF IdempotencyInv
<1> DEFINE key == call[c].key
<1>1. ~At(c, "new") /\ At(c, "claim") /\ call[c].pc \notin OwnerPcs /\ key \in IdempotencyKeys
  BY DEF Claim, At, OwnerPcs, CallsOK
<1>2. FaultsOK
  BY FaultCounts DEF Claim
<1>3. ASSUME StoreStep, End(c, Failed) PROVE Steps(c)
  <2>1. Moved(c, "done") /\ call'[c].answer = Failed
    BY <1>1, <1>3, EndMoves
  <2>2. Knows(c)'
    BY <2>1, KnowsNothing DEF Moved
  <2> QED BY <1>1, <1>2, <1>3, <2>1, <2>2, MovesOn DEF Pcs, OwnerPcs
<1>4. ASSUME NEW swept \in SUBSET Old, ClaimFinds(c, swept)
      PROVE  StoreStep /\ Stays(key) /\ key \in Present
  <2>1. swept \in SUBSET IdempotencyKeys /\ swept \cup {} = swept
    BY DEF Old, Indexed
  <2>2. RemoveRecords(swept \cup {}) /\ stored' \in Nat /\ gone' = WithGone(swept, {})
    BY <1>4, <2>1 DEF ClaimFinds, StoreOK
  <2>3. /\ StoreOK' /\ \A k \in IdempotencyKeys : Fate(k)
        /\ \A k \in Present' : Stays(k)
        /\ \A k \in IdempotencyKeys \ (swept \cup {}) : Stays(k)
    BY <2>1, <2>2, RemoveFate
  <2> QED BY <1>1, <1>4, <2>1, <2>3 DEF StoreStep, ClaimFinds, Existing
<1>5. ASSUME NEW swept \in SUBSET Old, ClaimFinds(c, swept), Found(c) # "conflict",
             Goto(c, IF Found(c) = "pending" THEN "wait" ELSE "read")
      PROVE  Steps(c)
  <2> DEFINE pc == IF Found(c) = "pending" THEN "wait" ELSE "read"
  <2>1. pc \in {"wait", "read"} /\ Goto(c, pc)
    BY <1>5
  <2>2. record[key] \in Records /\ record[key].payload = call[c].payload /\ Found(c) = record[key].state
    BY <1>4, <1>5 DEF Found, StoreOK, Present
  <2>3. pc = "read" => Fulfilled(key)
    BY <1>4, <1>5, <2>2 DEF Fulfilled, Records
  <2> HIDE DEF pc
  <2>4. Moved(c, pc)
    BY <2>1, <1>1, GotoMoves DEF Pcs
  <2>5. call'[c].key = key /\ call'[c].payload = call[c].payload /\ call'[c].pc = pc
    BY <2>4, <1>1 DEF Moved
  <2>6. StoreStep /\ record'[key] = record[key] /\ key \in Present' /\ key \in Present
    BY <1>4, <1>5 DEF Stays, Present
  <2>7. HasSeen(c)'
    BY <2>2, <2>3, <2>5, <2>6 DEF HasSeen, Fulfilled, At
  <2>8. Knows(c)'
    BY <2>1, <2>5, <2>7 DEF Knows, OwnsWhileExecuting, OwnsGivingBack, AnsweredFromRecord, Answered, At
  <2> QED BY <1>1, <1>2, <2>1, <2>4, <2>6, <2>8, MovesOn DEF Pcs, OwnerPcs
<1>6. ASSUME NEW swept \in SUBSET Old, NEW evicted \in SUBSET Indexed, ClaimCreates(c, swept, evicted),
             \/ Goto(c, "execute") /\ UNCHANGED callFaults
             \/ End(c, Failed) /\ CallFault
      PROVE  Steps(c)
  <2>1. /\ StoreOK' /\ \A k \in IdempotencyKeys : Fate(k)
        /\ record'[key] = Made(c)
        /\ \A k \in Present' : k # key => Stays(k)
    BY <1>1, <1>6, CreateFate
  <2>2. ASSUME call'[c].pc \in OwnerPcs, callFaults' = 0 => call'[c].pc # "done"
        PROVE  StoreStep
    BY <1>1, <2>1, <2>2 DEF StoreStep, MadeNow, Present
  <2>3. CASE End(c, Failed) /\ CallFault
    <3>1. call'[c].pc = "done" /\ callFaults' # 0
      BY <2>3, <1>1, EndMoves DEF Moved, CallFault
    <3> QED BY <3>1, <2>2, <2>3, <1>3 DEF OwnerPcs
  <2>4. CASE Goto(c, "execute")
    <3>1. Moved(c, "execute")
      BY <2>4, <1>1, GotoMoves DEF Pcs, OwnerPcs
    <3>2. StoreStep
      BY <3>1, <2>2 DEF Moved, OwnerPcs
    <3>3. call'[c].key = key /\ call'[c].pc = "execute"
      BY <3>1, <1>1 DEF Moved
    <3>4. Owns(c)'
      <4>1. Made(c) \in Records
        BY <1>1 DEF Made, Records, CallsOK
      <4>2. record'[key] # NoRecord
        BY <4>1, <2>1, IdempotencyAssumption DEF Records
      <4> QED BY <1>1, <2>1, <3>3, <4>2 DEF Owns, Pending, Present, Made
    <3>5. Knows(c)'
      BY <3>3, <3>4 DEF Knows, OwnsWhileExecuting, OwnsGivingBack, HasSeen, AnsweredFromRecord, Answered, At
    <3> QED BY <1>1, <1>2, <3>1, <3>2, <3>5, MovesOn DEF Pcs, OwnerPcs
  <2> QED BY <1>6, <2>3, <2>4
<1>7. ASSUME NEW swept \in SUBSET Old, ClaimRefused(c, swept), End(c, Failed)
      PROVE  Steps(c)
  <2> DEFINE evicted == Evictable(Indexed \ swept)
  <2>1. swept \in SUBSET IdempotencyKeys /\ evicted \in SUBSET IdempotencyKeys
        /\ \A k \in evicted : ~Pending(k)
    BY DEF Old, Indexed, Evictable
  <2>2. RemoveRecords(swept \cup evicted) /\ gone' = WithGone(swept, evicted)
    BY <1>7 DEF ClaimRefused
  <2>3. stored' \in Nat
    BY <1>7, LessType DEF ClaimRefused
  <2> HIDE DEF evicted
  <2>4. StoreStep
    BY <2>1, <2>2, <2>3, RemoveFate DEF StoreStep
  <2> QED BY <1>3, <1>7, <2>4
<1>8. ASSUME UNCHANGED <<recordVars, gone>>, End(c, Failed) PROVE Steps(c)
  <2>1. StoreStep
    BY <1>8, NothingHappens DEF StoreStep, Present
  <2> QED BY <1>3, <1>8, <2>1
<1> QED BY <1>3, <1>4, <1>5, <1>6, <1>7, <1>8 DEF Claim

(* A call that fails without touching the store. *)
LEMMA FailsQuietly ==
  ASSUME IdempotencyInv, NEW c \in Calls, ~At(c, "new"), UNCHANGED <<recordVars, gone>>,
         FaultsOK, End(c, Failed), call[c].pc \in OwnerPcs \ {"done"} => callFaults' # 0
  PROVE  Steps(c)
<1> USE DEF IdempotencyInv
<1>1. Moved(c, "done") /\ call'[c].answer = Failed
  BY EndMoves
<1>2. Knows(c)'
  BY <1>1, KnowsNothing DEF Moved
<1>3. StoreStep
  BY NothingHappens DEF StoreStep, Present
<1> QED BY <1>1, <1>2, <1>3, MovesOn DEF Pcs, OwnerPcs

(* A call whose record has gone claims again, or has claimed often enough.  *)
LEMMA ClaimAgainMoves ==
  ASSUME CallsOK, NEW c \in Calls, ~At(c, "new"), ClaimAgain(c)
  PROVE  \E pc \in {"claim", "done"} : Moved(c, pc) /\ (pc = "done" => call'[c].answer = Failed)
<1>1. CASE call[c].claims < MaxClaims
  <2> DEFINE n == call[c].claims + 1
             one == [call EXCEPT ![c].pc = "claim"]
  <2>1. n \in Nat
    BY DEF CallsOK, CallStates
  <2>2. one \in [Calls -> CallStates] /\ one[c].claims = call[c].claims
    BY DEF CallsOK, CallStates, Pcs
  <2>3. call' = [one EXCEPT ![c].claims = n]
    BY <1>1, <2>2 DEF ClaimAgain
  <2> HIDE DEF n
  <2>4. call' \in [Calls -> CallStates]
    BY <2>1, <2>2, <2>3 DEF CallStates
  <2>5. Moved(c, "claim")
    BY <2>3, <2>4 DEF CallsOK, CallStates, Moved, OthersStay, At
  <2> QED BY <2>5
<1>2. CASE ~(call[c].claims < MaxClaims)
  BY <1>2, EndMoves DEF ClaimAgain
<1> QED BY <1>1, <1>2

LEMMA ReadSteps ==
  ASSUME IdempotencyInv, NEW c \in Calls, Read(c)
  PROVE  Steps(c)
<1> USE IdempotencyAssumption DEF IdempotencyInv
<1> DEFINE key == call[c].key
<1>1. ~At(c, "new") /\ call[c].pc \in {"read", "wait"} /\ call[c].pc \notin OwnerPcs /\ key \in IdempotencyKeys
  BY DEF Read, At, OwnerPcs, CallsOK
<1>2. FaultsOK /\ UNCHANGED <<recordVars, gone>>
  BY FaultCounts DEF Read
<1>3. StoreStep /\ UNCHANGED <<record, gone>>
  BY <1>2, NothingHappens DEF StoreStep, Present, recordVars
<1>4. CASE ClaimAgain(c)
  <2>1. PICK pc \in {"claim", "done"} : Moved(c, pc) /\ (pc = "done" => call'[c].answer = Failed)
    BY <1>1, <1>4, ClaimAgainMoves
  <2>2. Knows(c)'
    BY <2>1, KnowsNothing DEF Moved
  <2> QED BY <1>1, <1>2, <1>3, <2>1, <2>2, MovesOn DEF Pcs, OwnerPcs
<1>5. CASE End(c, Failed)
  BY <1>1, <1>2, <1>5, FailsQuietly
<1>6. ASSUME NEW a \in Calls \cup {NoRecord}, End(c, a), AnsweredFromRecord(c)'
      PROVE  Steps(c)
  <2>1. Moved(c, "done") /\ call'[c].answer = a
    BY <1>1, <1>6, EndMoves
  <2>2. Knows(c)'
    BY <2>1, <1>6 DEF Moved, Knows, OwnsWhileExecuting, OwnsGivingBack, HasSeen, At
  <2> QED BY <1>1, <1>2, <1>3, <2>1, <2>2, MovesOn DEF Pcs, OwnerPcs
<1>7. CASE Fulfilled(key) /\ response[key] # NoRecord /\ End(c, response[key])
  <2>1. response[key] = record[key].owner /\ response[key] \in Calls /\ key \in Present
    BY <1>1, <1>7 DEF StoreOK, RecordsAgree, Fulfilled
  <2>2. call'[c].answer = response[key] /\ call'[c].key = key /\ call'[c].payload = call[c].payload
    BY <1>1, <1>7, <2>1, EndMoves DEF Moved
  <2>3. gone[key] # {} \/ record[key].payload = call[c].payload
    BY <1>1 DEF Knows, HasSeen
  <2>4. AnsweredFromRecord(c)'
    BY <1>3, <1>7, <2>1, <2>2, <2>3 DEF AnsweredFromRecord, Fulfilled, Present
  <2> QED BY <1>6, <1>7, <2>1, <2>4
<1>8. CASE Pending(key) /\ At(c, "read") /\ End(c, NoRecord)
  <2>1. call'[c].key = key
    BY <1>1, <1>8, EndMoves DEF Moved
  <2>2. gone[key] # {}
    BY <1>8 DEF Knows, HasSeen, Fulfilled, Pending, At
  <2>3. AnsweredFromRecord(c)'
    BY <1>3, <2>1, <2>2 DEF AnsweredFromRecord
  <2> QED BY <1>6, <1>8, <2>3
<1> QED BY <1>4, <1>5, <1>7, <1>8 DEF Read

LEMMA ExecuteSteps ==
  ASSUME IdempotencyInv, NEW c \in Calls, Execute(c)
  PROVE  Steps(c)
<1> USE DEF IdempotencyInv
<1>1. ~At(c, "new") /\ call[c].pc = "execute" /\ FaultsOK /\ UNCHANGED <<recordVars, gone>>
  BY FaultCounts DEF Execute, At
<1>2. StoreStep /\ UNCHANGED <<record, gone>>
  BY <1>1, NothingHappens DEF StoreStep, Present, recordVars
<1>3. ASSUME NEW pc \in {"complete", "giveBack", "giveUp"}, Goto(c, pc) PROVE Steps(c)
  <2>1. Moved(c, pc)
    BY <1>1, <1>3, GotoMoves DEF Pcs, OwnerPcs
  <2>2. call'[c].key = call[c].key /\ call'[c].payload = call[c].payload /\ call'[c].pc = pc
    BY <1>1, <2>1 DEF Moved
  <2>3. Owns(c)' <=> Owns(c)
    BY <1>2, <2>2 DEF Owns, Pending, Present
  <2>4. Owns(c) \/ "aged" \in gone[call[c].key]
    BY <1>1 DEF Knows, OwnsWhileExecuting
  <2>5. Knows(c)'
    BY <1>2, <2>2, <2>3, <2>4
       DEF Knows, OwnsWhileExecuting, OwnsGivingBack, HasSeen, AnsweredFromRecord, Answered, At
  <2> QED BY <1>1, <1>2, <1>3, <2>1, <2>5, MovesOn DEF Pcs, OwnerPcs
<1> QED BY <1>3 DEF Execute

LEMMA CompleteSteps ==
  ASSUME IdempotencyInv, NEW c \in Calls, Complete(c)
  PROVE  Steps(c)
<1> USE DEF IdempotencyInv
<1> DEFINE key == call[c].key
<1>1. ~At(c, "new") /\ call[c].pc = "complete" /\ key \in IdempotencyKeys
  BY DEF Complete, At, CallsOK
<1>2. FaultsOK
  BY FaultCounts DEF Complete
<1>3. ASSUME StoreStep, Goto(c, "giveUp") PROVE Steps(c)
  <2>1. Moved(c, "giveUp")
    BY <1>1, <1>3, GotoMoves DEF Pcs, OwnerPcs
  <2>2. Knows(c)'
    BY <2>1, KnowsNothing DEF Moved
  <2> QED BY <1>1, <1>2, <1>3, <2>1, <2>2, MovesOn DEF Pcs, OwnerPcs
<1>4. CASE UNCHANGED <<recordVars, gone>> /\ Goto(c, "giveUp")
  BY <1>3, <1>4, NothingHappens DEF StoreStep, Present
<1>5. ASSUME NEW size \in ResponseSizes, NEW evicted \in SUBSET Others(c), Owns(c),
             CompleteStores(c, size, evicted), End(c, c) \/ Goto(c, "giveUp")
      PROVE  Steps(c)
  <2>1. call'[c].pc \in {"done", "giveUp"}
    BY <1>1, <1>5, EndMoves, GotoMoves DEF Moved, Pcs, OwnerPcs
  <2>2. /\ StoreOK' /\ \A k \in IdempotencyKeys : Fate(k)
        /\ record'[key] = [record[key] EXCEPT !.state = "fulfilled"]
        /\ \A k \in Present' : Stays(k) \/ Fulfils(k)
    BY <1>1, <1>5, <2>1, CompleteFate
  <2>3. StoreStep
    BY <2>2 DEF StoreStep
  <2>4. record[key] \in Records /\ record[key].owner = c /\ record[key].payload = call[c].payload
        /\ record[key].state = "pending"
    BY <1>5 DEF Owns, Pending, Present, StoreOK, OwnersLinked
  <2>5. /\ record'[key] \in Records /\ record'[key].state = "fulfilled" /\ record'[key].owner = c
        /\ record'[key].payload = call[c].payload /\ record'[key] # record[key]
    BY <2>2, <2>4 DEF Records
  <2>6. CASE End(c, c)
    <3>1. Moved(c, "done") /\ call'[c].answer = c
      BY <1>1, <2>6, EndMoves
    <3>2. call'[c].key = key /\ call'[c].payload = call[c].payload
      BY <1>1, <3>1 DEF Moved
    <3>3. record'[key] # NoRecord
      BY <2>5, IdempotencyAssumption DEF Records
    <3>4. Knows(c)'
      BY <1>1, <2>5, <3>1, <3>2, <3>3
         DEF Moved, Knows, OwnsWhileExecuting, OwnsGivingBack, HasSeen, AnsweredFromRecord,
             Fulfilled, Present, At
    <3> QED BY <1>1, <1>2, <2>3, <2>5, <3>1, <3>4, MovesOn DEF Pcs, OwnerPcs, Stays
  <2> QED BY <1>3, <1>5, <2>3, <2>6
<1>6. ASSUME NEW size \in ResponseSizes, Owns(c), CompleteRefused(c, size)
      PROVE  StoreStep /\ Stays(key)
  <2> DEFINE evicted == Others(c)
  <2>1. {} \cup evicted = evicted /\ {} \in SUBSET IdempotencyKeys /\ evicted \in SUBSET IdempotencyKeys
        /\ key \notin evicted /\ \A k \in evicted : ~Pending(k)
    BY DEF Others, Evictable, Indexed
  <2>2. RemoveRecords({} \cup evicted) /\ gone' = WithGone({}, evicted)
    BY <1>6, <2>1 DEF CompleteRefused
  <2>3. stored' \in Nat
    BY <1>6, LessType DEF CompleteRefused
  <2> HIDE DEF evicted
  <2> QED BY <1>1, <2>1, <2>2, <2>3, RemoveFate DEF StoreStep
<1>7. ASSUME NEW size \in ResponseSizes, Owns(c), CompleteRefused(c, size), Goto(c, "giveBack")
      PROVE  Steps(c)
  <2>1. StoreStep /\ Stays(key)
    BY <1>6, <1>7
  <2>2. Moved(c, "giveBack")
    BY <1>1, <1>7, GotoMoves DEF Pcs, OwnerPcs
  <2>3. call'[c].key = key /\ call'[c].pc = "giveBack"
    BY <1>1, <2>2 DEF Moved
  <2>4. Owns(c)'
    BY <1>7, <2>1, <2>3 DEF Owns, Pending, Present, Stays
  <2>5. Knows(c)'
    BY <2>3, <2>4 DEF Knows, OwnsWhileExecuting, OwnsGivingBack, HasSeen, AnsweredFromRecord, Answered, At
  <2> QED BY <1>1, <1>2, <2>1, <2>2, <2>5, MovesOn DEF Pcs, OwnerPcs
<1> QED BY <1>3, <1>4, <1>5, <1>6, <1>7 DEF Complete

LEMMA ReleaseSteps ==
  ASSUME IdempotencyInv, NEW c \in Calls, Release(c)
  PROVE  Steps(c)
<1> USE DEF IdempotencyInv
<1> DEFINE key == call[c].key
<1>1. ~At(c, "new") /\ call[c].pc \in {"giveBack", "giveUp"} /\ key \in IdempotencyKeys
  BY DEF Release, At, CallsOK
<1>2. FaultsOK
  BY FaultCounts DEF Release
<1>3. ASSUME RemoveReleased(c) PROVE StoreStep /\ (Owns(c) => ~Stays(key) /\ gone'[key] # {})
                                   /\ (~Owns(c) => gone' = gone)
  <2>1. Owns(c) => record[key] # NoRecord
    BY DEF Owns, Pending, Present
  <2> QED BY <1>1, <1>3, <2>1, ReleaseFate DEF StoreStep, Stays
<1>4. StoreStep
  BY <1>3, NothingHappens DEF Release, StoreStep, Present
<1>5. CASE Goto(c, "giveUp")
  <2>1. Moved(c, "giveUp")
    BY <1>1, <1>5, GotoMoves DEF Pcs, OwnerPcs
  <2>2. Knows(c)'
    BY <2>1, KnowsNothing DEF Moved
  <2> QED BY <1>1, <1>2, <1>4, <2>1, <2>2, MovesOn DEF Pcs, OwnerPcs
<1>6. CASE End(c, Failed) /\ (RemoveReleased(c) \/ CallFault)
  <2>1. Moved(c, "done") /\ call'[c].answer = Failed
    BY <1>1, <1>6, EndMoves
  <2>2. Knows(c)'
    BY <2>1, KnowsNothing DEF Moved
  <2>3. callFaults' = 0 /\ Owns(c) => ~Stays(key)
    BY <1>3, <1>6 DEF CallFault
  <2> QED BY <1>1, <1>2, <1>4, <2>1, <2>2, <2>3, MovesOn DEF Pcs, OwnerPcs
<1>7. CASE At(c, "giveBack") /\ RemoveReleased(c) /\ End(c, c)
  <2>1. Moved(c, "done") /\ call'[c].answer = c
    BY <1>1, <1>7, EndMoves
  <2>2. call'[c].key = key /\ call'[c].pc = "done"
    BY <1>1, <2>1 DEF Moved
  <2>3. gone'[key] # {}
    BY <1>3, <1>7 DEF Knows, OwnsGivingBack
  <2>4. Knows(c)'
    BY <2>2, <2>3 DEF Knows, OwnsWhileExecuting, OwnsGivingBack, HasSeen, AnsweredFromRecord, At
  <2> QED BY <1>1, <1>2, <1>3, <1>4, <1>7, <2>1, <2>4, MovesOn DEF Pcs, OwnerPcs
<1> QED BY <1>5, <1>6, <1>7 DEF Release

(* A deadline or a crash ends a call and changes no record. *)
LEMMA FailSteps ==
  ASSUME IdempotencyInv, NEW c \in Calls, WaitEnds(c) \/ CallCrashes(c)
  PROVE  Steps(c)
<1> USE DEF IdempotencyInv
<1>1. FaultsOK /\ UNCHANGED <<recordVars, gone>> /\ End(c, Failed) /\ ~At(c, "new")
  BY FaultCounts DEF WaitEnds, CallCrashes, At
<1>2. call[c].pc \in OwnerPcs \ {"done"} => callFaults' # 0
  BY DEF WaitEnds, CallCrashes, At, OwnerPcs, CallFault
<1> QED BY <1>1, <1>2, FailsQuietly

-----------------------------------------------------------------------------
(* A call that does not move still knows what it knew: whatever the others  *)
(* do to its record, the history tells it.                                  *)
LEMMA BystanderKnows ==
  ASSUME IdempotencyInv, StoreStep, NEW d \in Calls, call'[d] = call[d]
  PROVE  Knows(d)'
<1> USE DEF IdempotencyInv
<1> DEFINE k == call[d].key
<1>1. CASE call[d].pc \notin {"execute", "complete", "giveBack", "wait", "read", "done"}
  BY <1>1 DEF Knows, OwnsWhileExecuting, OwnsGivingBack, HasSeen, AnsweredFromRecord, Answered, At
<1>2. CASE call[d].pc \in {"execute", "complete", "giveBack", "wait", "read", "done"}
  <2>1. k \in IdempotencyKeys /\ Fate(k) /\ Knows(d)
    BY <1>2 DEF CallsOK, At, StoreStep
  <2> HIDE DEF k
  <2>2. k \in Present => record[k] \in Records /\ record[k] # NoRecord
    BY DEF StoreOK, Present
  <2>3. CASE k \in Present /\ Stays(k)
    BY <2>1, <2>3 DEF Knows, OwnsWhileExecuting, OwnsGivingBack, HasSeen, AnsweredFromRecord, Answered, At,
                      Fate, Stays, Owns, Pending, Fulfilled, Present, k
  <2>4. CASE k \in Present /\ Fulfils(k)
    <3>1. /\ record'[k] \in Records /\ record'[k].state = "fulfilled"
          /\ record'[k].owner = record[k].owner /\ record'[k].payload = record[k].payload
          /\ record'[k] # NoRecord /\ ~Fulfilled(k)
      BY <2>2, <2>4, IdempotencyAssumption DEF Fulfils, Pending, Fulfilled, Records
    <3>2. Owns(d) => call[d].pc \in {"done", "giveUp"}
      BY <2>4 DEF Fulfils, Owns, k
    <3> QED BY <2>1, <3>1, <3>2, <1>2
       DEF Knows, OwnsWhileExecuting, OwnsGivingBack, HasSeen, AnsweredFromRecord, Answered, At,
           Fate, Fulfilled, Present, k
  <2>5. CASE k \in Present /\ Goes(k)
    BY <2>1, <2>5 DEF Knows, OwnsWhileExecuting, OwnsGivingBack, HasSeen, AnsweredFromRecord, Answered, At,
                      Fate, Goes, Owns, k
  <2>6. CASE k \notin Present
    BY <2>1, <2>6 DEF Knows, OwnsWhileExecuting, OwnsGivingBack, HasSeen, AnsweredFromRecord, Answered, At,
                      Fate, Owns, Pending, Fulfilled, k
  <2> QED BY <2>1, <2>3, <2>4, <2>5, <2>6 DEF Fate
<1> QED BY <1>1, <1>2

(* What holds of the records after a step, from what it does to them and to *)
(* the calls.                                                               *)
LEMMA RecordsFollow ==
  ASSUME IdempotencyInv, StoreStep, FaultsOK, \A c \in Calls : SameRequest(c) /\ Settled(c)
  PROVE  OwnersLinked' /\ NoAbandonedRecord'
<1> USE DEF IdempotencyInv
<1>1. ASSUME NEW k \in Present'
      PROVE  /\ record'[k].owner \in Calls
             /\ call'[record'[k].owner].pc \in OwnerPcs /\ call'[record'[k].owner].key = k
             /\ call'[record'[k].owner].payload = record'[k].payload
             /\ callFaults' = 0 /\ record'[k].state = "pending" => call'[record'[k].owner].pc # "done"
  <2> DEFINE o == record[k].owner
  <2>1. ASSUME Stays(k) \/ Fulfils(k)
        PROVE  /\ k \in Present /\ record[k] \in Records /\ record'[k].owner = o
               /\ record'[k].payload = record[k].payload
               /\ o \in Calls /\ call'[o].pc \in OwnerPcs /\ call'[o].key = k
               /\ call'[o].payload = record[k].payload
    <3>1. k \in Present
      BY <2>1 DEF Stays, Fulfils, Pending, Present
    <3>2. record[k] \in Records /\ o \in Calls
      BY <3>1 DEF StoreOK, Present, Records
    <3>3. call[o].pc \in OwnerPcs /\ call[o].key = k /\ call[o].payload = record[k].payload
      BY <3>1 DEF OwnersLinked
    <3>4. call'[o].pc \in OwnerPcs /\ call'[o].key = k /\ call'[o].payload = record[k].payload
      BY <3>2, <3>3 DEF SameRequest, At, OwnerPcs
    <3>5. record'[k].owner = o /\ record'[k].payload = record[k].payload
      BY <2>1, <3>2 DEF Stays, Fulfils, Records
    <3> QED BY <3>1, <3>2, <3>4, <3>5
  <2>2. CASE Fulfils(k)
    <3>1. record'[k].state = "fulfilled"
      BY <2>2, <2>1 DEF Fulfils, Records
    <3> QED BY <2>1, <2>2, <3>1
  <2>3. CASE Stays(k)
    <3>1. ASSUME callFaults' = 0, record'[k].state = "pending" PROVE call'[o].pc # "done"
      <4>1. Pending(k)
        BY <2>1, <2>3, <3>1 DEF Stays, Pending
      <4>2. call[o].pc \in OwnerPcs \ {"done"} /\ call[o].key = k /\ Owns(o)
        BY <3>1, <4>1, <2>1, <2>3 DEF FaultsOK, NoAbandonedRecord, OwnersLinked, At, Owns, Present
      <4> QED BY <2>1, <2>3, <3>1, <4>2 DEF Settled
    <3> QED BY <2>1, <2>3, <3>1
  <2>4. CASE MadeNow(k)
    <3>1. PICK c \in Calls : /\ At(c, "claim") /\ call[c].key = k /\ record'[k] = Made(c)
                             /\ call'[c].pc \in OwnerPcs /\ (callFaults' = 0 => call'[c].pc # "done")
      BY <2>4 DEF MadeNow
    <3>2. call'[c].key = k /\ call'[c].payload = call[c].payload
      BY <3>1 DEF SameRequest, At
    <3>3. record'[k].owner = c /\ record'[k].payload = call[c].payload
      BY <3>1 DEF Made
    <3> QED BY <3>1, <3>2, <3>3
  <2> QED BY <2>2, <2>3, <2>4 DEF StoreStep
<1>2. OwnersLinked'
  BY <1>1 DEF OwnersLinked
<1>3. NoAbandonedRecord'
  BY <1>1 DEF NoAbandonedRecord, Pending, At
<1> QED BY <1>2, <1>3

LEMMA StepIdempotencyInv == IdempotencyInv /\ [IdempotencyNext]_idempotencyVars => IdempotencyInv'
<1> SUFFICES ASSUME IdempotencyInv, [IdempotencyNext]_idempotencyVars PROVE IdempotencyInv'
  OBVIOUS
<1> USE DEF IdempotencyInv
<1>1. ASSUME NEW c \in Calls, CallStep(c) PROVE IdempotencyInv'
  <2>1. Steps(c)
    BY <1>1, StartSteps, ClaimSteps, ReadSteps, ExecuteSteps, CompleteSteps, ReleaseSteps, FailSteps
       DEF CallStep
  <2>2. \A d \in Calls : SameRequest(d) /\ Settled(d)
    BY <2>1 DEF Steps, OthersStay, SameRequest, Settled
  <2>3. \A d \in Calls : Knows(d)'
    BY <2>1, BystanderKnows DEF Steps, OthersStay
  <2>4. OwnersLinked' /\ NoAbandonedRecord'
    BY <2>1, <2>2, RecordsFollow DEF Steps
  <2> QED BY <2>1, <2>3, <2>4 DEF Steps, StoreStep, FaultsOK
<1>2. ASSUME StoreStep, UNCHANGED <<call, callFaults>> PROVE IdempotencyInv'
  <2>1. \A d \in Calls : SameRequest(d) /\ Settled(d)
    BY <1>2 DEF SameRequest, Settled
  <2>2. \A d \in Calls : Knows(d)'
    BY <1>2, BystanderKnows
  <2>3. OwnersLinked' /\ NoAbandonedRecord'
    BY <1>2, <2>1, RecordsFollow DEF FaultsOK
  <2>4. CallsOK'
    BY <1>2 DEF CallsOK, At
  <2> QED BY <1>2, <2>2, <2>3, <2>4 DEF StoreStep
<1>3. ASSUME NEW k \in IdempotencyKeys, ComesOfAge(k) PROVE IdempotencyInv'
  BY <1>3, <1>2, AgeFate DEF StoreStep, ComesOfAge, Present
<1>4. ASSUME NEW k \in IdempotencyKeys, RecordExpires(k) PROVE IdempotencyInv'
  BY <1>4, <1>2, ExpireFate DEF StoreStep, RecordExpires
<1>5. CASE RecordStats
  <2>1. PICK swept \in (SUBSET Old) \ {{}} :
          RemoveRecords(swept) /\ stored' = Less(stored, BytesOf(swept)) /\ gone' = WithGone(swept, {})
    BY <1>5 DEF RecordStats
  <2>2. swept \in SUBSET IdempotencyKeys /\ swept \cup {} = swept /\ {} \in SUBSET IdempotencyKeys
    BY DEF Old, Indexed
  <2>3. stored' \in Nat
    BY <2>1, LessType
  <2>4. StoreStep
    BY <2>1, <2>2, <2>3, RemoveFate DEF StoreStep
  <2> QED BY <1>2, <1>5, <2>4 DEF RecordStats
<1>6. CASE UNCHANGED idempotencyVars
  <2>1. StoreStep
    BY <1>6, NothingHappens DEF idempotencyVars, recordVars, StoreStep, Present
  <2> QED BY <1>2, <1>6, <2>1 DEF idempotencyVars
<1> QED BY <1>1, <1>3, <1>4, <1>5, <1>6 DEF IdempotencyNext

LEMMA InitIdempotencyInv == IdempotencyInit => IdempotencyInv
<1> SUFFICES ASSUME IdempotencyInit PROVE IdempotencyInv
  OBVIOUS
<1> USE IdempotencyAssumption
<1>1. StoreOK
  BY DEF IdempotencyInit, StoreOK, RecordsAgree, Present, Indexed, Fulfilled
<1>2. CallsOK /\ \A c \in Calls : call[c].pc = "new"
  BY DEF IdempotencyInit, CallsOK, CallStates, Pcs, At
<1>3. Present = {}
  BY DEF IdempotencyInit, Present
<1>4. \A c \in Calls : Knows(c)
  BY <1>2 DEF Knows, OwnsWhileExecuting, OwnsGivingBack, HasSeen, AnsweredFromRecord, Answered, At
<1>5. OwnersLinked /\ NoAbandonedRecord
  BY <1>3 DEF OwnersLinked, NoAbandonedRecord, Pending
<1> QED BY <1>1, <1>2, <1>4, <1>5 DEF IdempotencyInv, IdempotencyInit

-----------------------------------------------------------------------------
(* Record, response, index and sizes describe the same searches.            *)
THEOREM RecordsAlwaysAgree == IdempotencySpec => []RecordsAgree
<1>1. IdempotencyInv => RecordsAgree
  BY DEF IdempotencyInv, StoreOK
<1> QED BY <1>1, InitIdempotencyInv, StepIdempotencyInv, PTL DEF IdempotencySpec

(* One call at a time executes the search of a key, unless its record came  *)
(* of age.                                                                  *)
THEOREM ExecutedByOne == IdempotencySpec => []OneExecution
<1>1. IdempotencyInv => OneExecution
  BY DEF IdempotencyInv, Knows, OwnsWhileExecuting, Owns, OneExecution
<1> QED BY <1>1, InitIdempotencyInv, StepIdempotencyInv, PTL DEF IdempotencySpec

(* Without faults no record stays pending behind a call that has ended.     *)
THEOREM RecordsNotAbandoned == IdempotencySpec => []NoAbandonedRecord
<1>1. IdempotencyInv => NoAbandonedRecord
  BY DEF IdempotencyInv
<1> QED BY <1>1, InitIdempotencyInv, StepIdempotencyInv, PTL DEF IdempotencySpec

(* Calls of one key are answered alike, and with their own payload, as long *)
(* as the record of the key stays.                                          *)
THEOREM AnswersAlwaysAgree == IdempotencySpec => []AnswersAgree
<1>1. IdempotencyInv => AnswersAgree
  <2> SUFFICES ASSUME IdempotencyInv, NEW c \in Answered, gone[call[c].key] = {}
               PROVE  /\ call[c].answer # NoRecord
                      /\ call[call[c].answer].payload = call[c].payload
                      /\ \A d \in Answered : call[d].key = call[c].key => call[d].answer = call[c].answer
    BY DEF AnswersAgree
  <2>1. \A d \in Answered : call[d].key = call[c].key =>
          /\ Fulfilled(call[c].key) /\ record[call[c].key].owner = call[d].answer
          /\ record[call[c].key].payload = call[d].payload
    BY DEF IdempotencyInv, Knows, AnsweredFromRecord, Answered
  <2>2. call[c].key \in Present /\ record[call[c].key] \in Records
    BY <2>1 DEF Fulfilled, IdempotencyInv, StoreOK, Present
  <2>3. call[c].answer \in Calls
    BY <2>1, <2>2 DEF Records
  <2>4. call[c].answer # NoRecord
    BY <2>3, IdempotencyAssumption
  <2>5. call[call[c].answer].payload = call[c].payload
    BY <2>1, <2>2 DEF IdempotencyInv, OwnersLinked
  <2> QED BY <2>1, <2>4, <2>5
<1> QED BY <1>1, InitIdempotencyInv, StepIdempotencyInv, PTL DEF IdempotencySpec

-----------------------------------------------------------------------------
(* The index within its cap, and the total within its budget and above what *)
(* is stored.                                                               *)
RecordCap == Cardinality(Indexed) <= MaxRecords
ResponsesCovered == BytesOf(Indexed) <= stored /\ stored <= ResponseBudget

LEMMA IndexedFinite ==
  ASSUME NEW S, S \subseteq IdempotencyKeys, NEW T, T \subseteq S
  PROVE  /\ IsFiniteSet(S) /\ IsFiniteSet(T) /\ Cardinality(S) \in Nat /\ Cardinality(T) \in Nat
         /\ Cardinality(T) <= Cardinality(S)
<1>1. IsFiniteSet(S)
  BY IdempotencyAssumption, FS_Subset
<1>2. IsFiniteSet(T) /\ Cardinality(T) <= Cardinality(S)
  BY <1>1, FS_Subset
<1> QED BY <1>1, <1>2, FS_CardinalityType

LEMMA BytesOfNow == /\ BytesOf(Indexed) = Total(bytes, Indexed)
                   /\ BytesOf(Indexed)' = Total(bytes', Indexed')
<1> DEFINE C == Indexed
           D == Indexed'
           f == bytes'
<1>1. C \cap C = C /\ D \cap D = D
  OBVIOUS
<1>2. BytesOf(Indexed) = Total(bytes, C)
  BY <1>1 DEF BytesOf, Total, MapThenSumSet, MapThenFoldSet
<1>3. BytesOf(Indexed)' = Total(f, D)
  BY <1>1 DEF BytesOf, Total, MapThenSumSet, MapThenFoldSet
<1> QED BY <1>2, <1>3

(* What remains when the bytes of some keys are taken off.                  *)
LEMMA BytesLeft ==
  ASSUME StoreOK, ResponsesCovered, NEW keys
  PROVE  /\ Total(bytes, Indexed \ keys) \in Nat
         /\ Total(bytes, Indexed \ keys) <= stored
         /\ Total(bytes, Indexed \ keys) <= Less(stored, BytesOf(keys))
         /\ Less(stored, BytesOf(keys)) \in Nat /\ Less(stored, BytesOf(keys)) <= ResponseBudget
<1> DEFINE C == Indexed
           T == keys \cap C
<1>1. IsFiniteSet(C) /\ Sized(bytes, C) /\ BytesOf(C) = Total(bytes, C) /\ BytesOf(keys) = Total(bytes, T)
  BY BytesOfType, BytesOfNow
<1>2. C \ keys = C \ T /\ T \in SUBSET C /\ C \ T \in SUBSET C
  OBVIOUS
<1> HIDE DEF C, T
<1>3. Total(bytes, C) = Total(bytes, T) + Total(bytes, C \ T)
  BY <1>1, <1>2, TotalUnion
<1>4. Total(bytes, C \ T) \in Nat /\ Total(bytes, T) \in Nat
  BY <1>1, <1>2, TotalStep
<1>5. Total(bytes, C) <= stored /\ stored <= ResponseBudget /\ stored \in Nat
  BY <1>1 DEF ResponsesCovered, StoreOK, C
<1>6. Less(stored, BytesOf(keys)) = stored - Total(bytes, T)
  BY <1>1, <1>3, <1>4, <1>5 DEF Less
<1>7. /\ Total(bytes, C \ T) <= stored /\ Total(bytes, C \ T) <= stored - Total(bytes, T)
      /\ stored - Total(bytes, T) \in Nat /\ stored - Total(bytes, T) <= ResponseBudget
  BY <1>3, <1>4, <1>5, IdempotencyAssumption
<1> QED BY <1>2, <1>4, <1>6, <1>7 DEF C

Bounded == RecordCap /\ ResponsesCovered

LEMMA SameBounded ==
  ASSUME StoreOK, Bounded, Indexed' = Indexed, UNCHANGED <<bytes, stored>>
  PROVE  Bounded'
BY BytesOfNow DEF Bounded, RecordCap, ResponsesCovered

LEMMA RemoveBounded ==
  ASSUME StoreOK, Bounded, NEW keys \in SUBSET IdempotencyKeys, RemoveRecords(keys),
         stored' = stored \/ stored' = Less(stored, BytesOf(keys))
  PROVE  Bounded'
<1> DEFINE D == Indexed \ keys
           f == bytes'
<1>1. Indexed' = D /\ D \subseteq Indexed /\ Indexed \subseteq IdempotencyKeys
  BY DEF RemoveRecords, Without, Indexed
<1>2. \A k \in D : f[k] = bytes[k]
  BY DEF RemoveRecords, Without, Indexed
<1>3. IsFiniteSet(D) /\ Sized(bytes, D)
  BY BytesOfType, FS_Subset DEF Sized
<1>4. Total(f, D) = Total(bytes, D)
  <2> HIDE DEF D, f
  <2> QED BY <1>2, <1>3, TotalSame
<1>5. Total(bytes, D) <= stored' /\ stored' <= ResponseBudget
  BY BytesLeft DEF Bounded, ResponsesCovered
<1>6. ResponsesCovered'
  BY <1>1, <1>4, <1>5, BytesOfNow DEF ResponsesCovered
<1>7. RecordCap'
  <2> HIDE DEF D
  <2>1. Cardinality(D) <= Cardinality(Indexed) /\ Cardinality(D) \in Nat /\ Cardinality(Indexed) \in Nat
    BY <1>1, IndexedFinite
  <2>2. Cardinality(D) <= MaxRecords
    BY <2>1, IdempotencyAssumption DEF Bounded, RecordCap
  <2> QED BY <1>1, <2>2 DEF RecordCap
<1> QED BY <1>6, <1>7 DEF Bounded

(* What a key is written with counts in place of what it had. *)
LEMMA PutBytes ==
  ASSUME StoreOK, ResponsesCovered, NEW key \in IdempotencyKeys, NEW keys \in SUBSET IdempotencyKeys, NEW size \in Nat,
         NEW v \in {"live"}, score' = Put(score, key, keys, v), bytes' = Put(bytes, key, keys, size)
  PROVE  /\ Indexed' = (Indexed \ keys) \cup {key}
         /\ BytesOf(Indexed)' = Total(bytes, Indexed \ (keys \cup {key})) + size
<1> USE IdempotencyAssumption
<1> DEFINE D == Indexed \ (keys \cup {key})
           N == D \cup {key}
           f == bytes'
<1>1. \A k \in IdempotencyKeys :
        /\ score'[k] = IF k = key THEN v ELSE IF k \in keys THEN NoRecord ELSE score[k]
        /\ bytes'[k] = IF k = key THEN size ELSE IF k \in keys THEN NoRecord ELSE bytes[k]
  BY DEF Put, Without
<1>2. Indexed' = (Indexed \ keys) \cup {key}
  BY <1>1 DEF Indexed
<1>3. f[key] = size /\ \A k \in D : f[k] = bytes[k]
  BY <1>1 DEF Indexed
<1>4. IsFiniteSet(D) /\ Sized(bytes, D)
  BY BytesOfType, FS_Subset DEF Sized
<1>5. Indexed' = N /\ N \ {key} = D /\ key \in N
  BY <1>2
<1> HIDE DEF D, f
<1>6. IsFiniteSet(N) /\ Sized(f, N)
  BY <1>3, <1>4, FS_AddElement DEF Sized
<1>7. Total(f, N) = size + Total(f, D)
  <2> HIDE DEF N
  <2> QED BY <1>3, <1>5, <1>6, TotalAdd
<1>8. Total(f, D) = Total(bytes, D)
  BY <1>3, <1>4, TotalSame
<1>9. Total(bytes, D) \in Nat
  BY <1>4, TotalStep
<1>10. BytesOf(Indexed)' = Total(bytes, D) + size
  BY <1>5, <1>7, <1>8, <1>9, BytesOfNow DEF f
<1> QED BY <1>2, <1>10 DEF D

LEMMA CreateBounded ==
  ASSUME StoreOK, CallsOK, Bounded, NEW c \in Calls, ~At(c, "new"), NEW swept \in SUBSET Old,
         NEW evicted \in SUBSET Indexed, ClaimCreates(c, swept, evicted)
  PROVE  Bounded'
<1> USE IdempotencyAssumption DEF Bounded
<1> DEFINE key == call[c].key
           out == swept \cup evicted
           left == (Indexed \ swept) \ evicted
<1>1. key \in IdempotencyKeys /\ out \in SUBSET IdempotencyKeys /\ left = Indexed \ out
      /\ left \subseteq IdempotencyKeys
  BY DEF CallsOK, Old, Indexed
<1>2. score' = Put(score, key, out, "live") /\ bytes' = Put(bytes, key, out, 0)
      /\ stored' = Less(stored, BytesOf(out))
  BY DEF ClaimCreates
<1>3. Cardinality(left) <= MaxRecords - 1
  <2> DEFINE stayed == Indexed \ swept
  <2>1. \/ Cardinality(stayed \ evicted) = MaxRecords - 1
        \/ evicted = {} /\ Cardinality(stayed) < MaxRecords
    BY DEF ClaimCreates, Evicts
  <2>2. Cardinality(stayed) \in Nat
    BY IndexedFinite DEF Indexed
  <2>3. evicted = {} => left = stayed
    OBVIOUS
  <2>4. MaxRecords \in Nat
    OBVIOUS
  <2>5. left = stayed \ evicted
    OBVIOUS
  <2>6. CASE Cardinality(left) = MaxRecords - 1
    <3> HIDE DEF left
    <3> QED BY <2>4, <2>6
  <2>7. CASE left = stayed /\ Cardinality(stayed) < MaxRecords
    <3> HIDE DEF stayed, left
    <3>1. Cardinality(stayed) <= MaxRecords - 1
      BY <2>2, <2>4, <2>7
    <3> QED BY <2>7, <3>1
  <2> QED BY <2>1, <2>3, <2>5, <2>6, <2>7
<1> HIDE DEF key, out, left
<1>4. /\ Indexed' = (Indexed \ out) \cup {key}
      /\ BytesOf(Indexed)' = Total(bytes, Indexed \ (out \cup {key})) + 0
  BY <1>1, <1>2, PutBytes
<1>5. RecordCap'
  <2>1. IsFiniteSet(left) /\ Cardinality(left) \in Nat
    BY <1>1, IndexedFinite
  <2>2. Cardinality(left \cup {key}) = IF key \in left THEN Cardinality(left) ELSE Cardinality(left) + 1
    BY <2>1, FS_AddElement
  <2>3. Cardinality(left \cup {key}) <= MaxRecords
    BY <1>3, <2>1, <2>2
  <2> QED BY <1>1, <1>4, <2>3 DEF RecordCap
<1>6. ResponsesCovered'
  <2> DEFINE C == Indexed \ out
             D == Indexed \ (out \cup {key})
  <2>1. Total(bytes, C) \in Nat /\ Total(bytes, C) <= Less(stored, BytesOf(out))
        /\ Less(stored, BytesOf(out)) \in Nat /\ Less(stored, BytesOf(out)) <= ResponseBudget
        /\ Total(bytes, D) \in Nat
    BY BytesLeft
  <2>2. IsFiniteSet(C) /\ Sized(bytes, C) /\ C \in SUBSET C /\ D \in SUBSET C
    BY BytesOfType, FS_Subset DEF Sized
  <2> HIDE DEF C, D
  <2>3. Total(bytes, D) <= Total(bytes, C)
    BY <2>2, TotalMonotone
  <2>4. BytesOf(Indexed)' = Total(bytes, D)
    BY <1>4, <2>1 DEF D
  <2> QED BY <1>2, <2>1, <2>3, <2>4 DEF ResponsesCovered
<1> QED BY <1>5, <1>6

LEMMA CompleteBounded ==
  ASSUME StoreOK, CallsOK, Bounded, NEW c \in Calls, ~At(c, "new"), NEW size \in ResponseSizes,
         NEW evicted \in SUBSET Others(c), Owns(c), MakesRoom(c, size, evicted), CompleteStores(c, size, evicted)
  PROVE  Bounded'
<1> USE IdempotencyAssumption DEF Bounded
<1> DEFINE key == call[c].key
           E == evicted \cup {key}
<1>1. key \in IdempotencyKeys /\ evicted \in SUBSET IdempotencyKeys /\ size \in Nat /\ key \in Indexed
  BY DEF CallsOK, Others, Evictable, Indexed, Owns, Pending, Present, StoreOK, RecordsAgree
<1>2. score' = Put(score, key, evicted, "live") /\ bytes' = Put(bytes, key, evicted, size)
      /\ stored' = Less(stored, BytesOf(E)) + size
  BY DEF CompleteStores
<1>3. Less(stored, BytesOf(E)) + size <= ResponseBudget
  BY DEF MakesRoom, WithinBudget
<1> HIDE DEF key
<1>4. /\ Indexed' = (Indexed \ evicted) \cup {key}
      /\ BytesOf(Indexed)' = Total(bytes, Indexed \ E) + size
  BY <1>1, <1>2, PutBytes
<1> HIDE DEF E
<1>5. ResponsesCovered'
  <2>1. Total(bytes, Indexed \ E) \in Nat /\ Total(bytes, Indexed \ E) <= Less(stored, BytesOf(E))
        /\ Less(stored, BytesOf(E)) \in Nat
    BY BytesLeft
  <2> QED BY <1>1, <1>2, <1>3, <1>4, <2>1 DEF ResponsesCovered
<1>6. RecordCap'
  <2> DEFINE S == Indexed'
  <2>1. S \subseteq Indexed /\ Indexed \subseteq IdempotencyKeys
    BY <1>1, <1>4 DEF Indexed
  <2> HIDE DEF S
  <2>2. Cardinality(S) <= Cardinality(Indexed) /\ Cardinality(S) \in Nat /\ Cardinality(Indexed) \in Nat
    BY <2>1, IndexedFinite
  <2>3. Cardinality(S) <= MaxRecords
    BY <2>2 DEF RecordCap
  <2> QED BY <2>3 DEF S, RecordCap
<1> QED BY <1>5, <1>6

LEMMA StepBounded == IdempotencyInv /\ Bounded /\ [IdempotencyNext]_idempotencyVars => Bounded'
<1> SUFFICES ASSUME StoreOK, CallsOK, Bounded, [IdempotencyNext]_idempotencyVars PROVE Bounded'
  BY DEF IdempotencyInv
<1>1. ASSUME UNCHANGED recordVars PROVE Bounded'
  BY <1>1, SameBounded DEF recordVars, Indexed
<1>2. ASSUME NEW c \in Calls, Claim(c) PROVE Bounded'
  <2>1. ~At(c, "new")
    BY <1>2 DEF Claim, At
  <2>2. ASSUME NEW swept \in SUBSET Old, ClaimFinds(c, swept) PROVE Bounded'
    BY <2>2, RemoveBounded DEF ClaimFinds, Old, Indexed
  <2>3. ASSUME NEW swept \in SUBSET Old, ClaimRefused(c, swept) PROVE Bounded'
    <3>1. swept \cup Evictable(Indexed \ swept) \in SUBSET IdempotencyKeys
      BY DEF Old, Indexed, Evictable
    <3> QED BY <2>3, <3>1, RemoveBounded DEF ClaimRefused
  <2>4. ASSUME NEW swept \in SUBSET Old, NEW evicted \in SUBSET Indexed, ClaimCreates(c, swept, evicted)
        PROVE  Bounded'
    BY <2>1, <2>4, CreateBounded
  <2> QED BY <1>2, <1>1, <2>2, <2>3, <2>4 DEF Claim
<1>3. ASSUME NEW c \in Calls, Complete(c) PROVE Bounded'
  <2>1. ~At(c, "new")
    BY <1>3 DEF Complete, At
  <2>2. ASSUME NEW size \in ResponseSizes, CompleteRefused(c, size) PROVE Bounded'
    BY <2>2, RemoveBounded DEF CompleteRefused, Others, Evictable, Indexed
  <2> QED BY <1>3, <1>1, <2>1, <2>2, CompleteBounded DEF Complete
<1>4. ASSUME NEW c \in Calls, Release(c) PROVE Bounded'
  <2>1. CASE RemoveReleased(c) /\ Owns(c)
    <3>1. {call[c].key} \in SUBSET IdempotencyKeys
      BY <2>1 DEF Owns, Pending, Present
    <3> QED BY <2>1, <3>1, RemoveBounded DEF RemoveReleased
  <2>2. CASE UNCHANGED recordVars
    BY <2>2, <1>1
  <2> QED BY <1>4, <2>1, <2>2 DEF Release, RemoveReleased
<1>5. ASSUME NEW k \in IdempotencyKeys, ComesOfAge(k) PROVE Bounded'
  <2>1. Indexed' = Indexed /\ UNCHANGED <<bytes, stored>>
    BY <1>5, AgeFate, IdempotencyAssumption DEF ComesOfAge, Indexed, Old, StoreOK
  <2> QED BY <2>1, SameBounded
<1>6. ASSUME NEW k \in IdempotencyKeys, RecordExpires(k) PROVE Bounded'
  BY <1>6, SameBounded DEF RecordExpires, Indexed
<1>7. CASE RecordStats
  BY <1>7, RemoveBounded DEF RecordStats, Old, Indexed
<1> QED BY <1>1, <1>2, <1>3, <1>4, <1>5, <1>6, <1>7
       DEF IdempotencyNext, CallStep, Start, Read, WaitEnds, Execute, CallCrashes, idempotencyVars, recordVars

(* Records and responses stay within their limits, and no response is       *)
(* missing from the total.                                                  *)
THEOREM RecordsStayBounded == IdempotencySpec => []RecordsBounded
<1> DEFINE Inv == IdempotencyInv /\ Bounded
<1>1. Inv => RecordsBounded
  BY DEF Bounded, RecordCap, ResponsesCovered, RecordsBounded
<1>2. IdempotencyInit => Bounded
  <2> SUFFICES ASSUME IdempotencyInit PROVE Bounded
    OBVIOUS
  <2>1. Indexed = {} /\ stored = 0
    BY DEF IdempotencyInit, Indexed
  <2>2. BytesOf(Indexed) = 0
    <3>1. Total(bytes, {}) = 0
      BY FS_EmptySet, TotalStep DEF Sized
    <3> QED BY <2>1, <3>1, BytesOfNow
  <2> QED BY <2>1, <2>2, FS_EmptySet, IdempotencyAssumption DEF Bounded, RecordCap, ResponsesCovered
<1>3. Inv /\ [IdempotencyNext]_idempotencyVars => Inv'
  BY StepIdempotencyInv, StepBounded
<1>4. IdempotencyInit => Inv
  BY <1>2, InitIdempotencyInv
<1> QED BY <1>1, <1>3, <1>4, PTL DEF IdempotencySpec

(**************************** Booking records ******************************)

BookingTypeOK ==
    /\ kept \subseteq BookingIds /\ drawn \subseteq BookingIds
    /\ due \in [BookingIds -> Nat \cup {NoBooking}]
    /\ sent \in [Redirects -> Handoffs \cup {NoBooking}]
    /\ bookingFaults \in Nat

(* What is stored has been drawn and is in its index: a sweep that takes it *)
(* out of the index takes it out of the store.                              *)
Listed == \A b \in kept : b \in drawn /\ due[b] # NoBooking

(* A handoff that sent a redirect is gone for good, and no other was sent   *)
(* for it: its id is not drawn again.                                       *)
Consumed == \A r \in Redirects : sent[r] # NoBooking => sent[r] \in drawn \ kept

BookingInv == BookingTypeOK /\ Listed /\ Consumed /\ HandoffUsedOnce

-----------------------------------------------------------------------------
(* The stores are empty at first. *)
LEMMA InitBookingInv == BookingInit => BookingInv
BY BookingAssumption DEF BookingInit, BookingInv, BookingTypeOK, Listed, Consumed, HandoffUsedOnce

(* STORE_RECORD draws a new id and sweeps store and index alike.            *)
LEMMA SaveBookingInv ==
  ASSUME BookingInv, NEW b \in BookingIds, NEW t \in BookingClock, Save(b, t)
  PROVE  BookingInv'
<1> USE BookingAssumption DEF BookingInv
<1>1. t + BookingTtl \in Nat /\ t + BookingTtl # NoBooking
  OBVIOUS
<1>2. BookingTypeOK'
  <2>1. /\ kept' \subseteq kept \cup {b} /\ drawn' = drawn \cup {b}
        /\ sent' = sent /\ bookingFaults' = bookingFaults
    BY DEF Save, KeptWith
  <2>2. Unlisted(Passed(Kind(b), t)) \in [BookingIds -> Nat \cup {NoBooking}]
    BY DEF Unlisted, BookingTypeOK
  <2>3. due' \in [BookingIds -> Nat \cup {NoBooking}]
    BY <1>1, <2>2 DEF Save, BookingTypeOK
  <2> QED BY <2>1, <2>3 DEF BookingTypeOK
<1>3. Listed'
  <2>1. CASE UNCHANGED <<kept, due>>
    BY <2>1 DEF Save, Listed
  <2>2. CASE kept' = kept \ Passed(Kind(b), t) /\ due' = Unlisted(Passed(Kind(b), t))
    BY <2>2 DEF Save, Unlisted, Listed, BookingTypeOK
  <2>3. CASE kept' = KeptWith(b, t) /\ due' = [Unlisted(Passed(Kind(b), t)) EXCEPT ![b] = t + BookingTtl]
    BY <2>3, <1>1 DEF Save, KeptWith, Unlisted, Listed, BookingTypeOK
  <2> QED BY <2>1, <2>2, <2>3 DEF Save
<1>4. Consumed'
  BY DEF Save, KeptWith, Consumed
<1>5. HandoffUsedOnce'
  BY DEF Save, HandoffUsedOnce
<1> QED BY <1>2, <1>3, <1>4, <1>5

(* CONSUME_HANDOFF sends a handoff that is stored, and leaves none.         *)
LEMMA RedirectBookingInv ==
  ASSUME BookingInv, NEW r \in Redirects, NEW b \in Handoffs, Redirect(r, b)
  PROVE  BookingInv'
<1> USE BookingAssumption DEF BookingInv
<1>1. kept' = kept \ {b} /\ due' = Unlisted({b}) /\ drawn' = drawn
  BY DEF Redirect, Consume
<1>2. sent' = sent \/ (b \in kept /\ sent' = [sent EXCEPT ![r] = b])
  BY DEF Redirect
<1>3. BookingTypeOK'
  <2>1. bookingFaults' \in Nat
    BY DEF Redirect, BookingFault, BookingTypeOK
  <2> QED BY <1>1, <1>2, <2>1 DEF Unlisted, BookingTypeOK
<1>4. Listed'
  BY <1>1 DEF Unlisted, Listed, BookingTypeOK, BookingIds
<1>5. Consumed'
  BY <1>1, <1>2 DEF Consumed, Listed, BookingTypeOK
<1>6. HandoffUsedOnce'
  <2>1. CASE sent' = sent
    BY <2>1 DEF HandoffUsedOnce
  <2>2. CASE b \in kept /\ sent' = [sent EXCEPT ![r] = b]
    <3>1. \A q \in Redirects : sent[q] # b
      BY <2>2 DEF Consumed, BookingTypeOK
    <3> QED BY <2>2, <3>1 DEF HandoffUsedOnce, BookingTypeOK
  <2> QED BY <1>2, <2>1, <2>2
<1> QED BY <1>3, <1>4, <1>5, <1>6

(* Every step keeps the invariant. *)
LEMMA StepBookingInv == BookingInv /\ [BookingNext]_bookingVars => BookingInv'
<1> SUFFICES ASSUME BookingInv, [BookingNext]_bookingVars PROVE BookingInv'
  OBVIOUS
<1>1. ASSUME NEW b \in BookingIds, RecordLapses(b) PROVE BookingInv'
  BY <1>1 DEF RecordLapses, BookingInv, BookingTypeOK, Listed, Consumed, HandoffUsedOnce
<1>2. CASE UNCHANGED bookingVars
  BY <1>2 DEF bookingVars, BookingInv, BookingTypeOK, Listed, Consumed, HandoffUsedOnce
<1> QED BY <1>1, <1>2, SaveBookingInv, RedirectBookingInv DEF BookingNext

(* A handoff sends at most one redirect, whatever races, is lost or lapses. *)
THEOREM HandoffsUsedOnce == BookingSpec => []HandoffUsedOnce
<1>1. BookingInv => HandoffUsedOnce
  BY DEF BookingInv
<1> QED BY <1>1, InitBookingInv, StepBookingInv, PTL DEF BookingSpec

-----------------------------------------------------------------------------
Kinds == {Verifications, Handoffs}

(* The index itself never grows beyond the cap. *)
IndexCap == \A kind \in Kinds : Cardinality(InIndex(kind)) <= MaxBookings

(* Sets of ids are finite, and a part is no larger than the whole.          *)
LEMMA IdsFinite ==
  ASSUME NEW T, T \subseteq BookingIds, NEW S, S \subseteq T
  PROVE  /\ IsFiniteSet(S) /\ IsFiniteSet(T)
         /\ Cardinality(S) \in Nat /\ Cardinality(T) \in Nat
         /\ Cardinality(S) <= Cardinality(T)
<1>1. IsFiniteSet(T)
  BY BookingAssumption, FS_Subset
<1>2. IsFiniteSet(S) /\ Cardinality(S) <= Cardinality(T)
  BY <1>1, FS_Subset
<1> QED BY <1>1, <1>2, FS_CardinalityType

(* A record is of one kind. *)
LEMMA KindIs == ASSUME NEW b \in BookingIds PROVE Kind(b) \in Kinds /\ b \in Kind(b)
BY DEF Kind, Kinds, BookingIds

(* Only a STORE_RECORD adds to an index, where its own sweep left room.     *)
LEMMA StepIndexCap == BookingInv /\ IndexCap /\ [BookingNext]_bookingVars => IndexCap'
<1> SUFFICES ASSUME BookingInv, IndexCap, [BookingNext]_bookingVars, NEW kind \in Kinds
             PROVE  (Cardinality(InIndex(kind)) <= MaxBookings)'
  BY DEF IndexCap
<1> USE BookingAssumption
<1>k. InIndex(kind) \subseteq BookingIds /\ Cardinality(InIndex(kind)) <= MaxBookings
  BY DEF InIndex, Kinds, BookingIds, IndexCap
<1>a. ASSUME InIndex(kind)' \subseteq InIndex(kind) PROVE Cardinality(InIndex(kind)') <= MaxBookings
  <2> DEFINE S == InIndex(kind)'
             T == InIndex(kind)
  <2>1. S \subseteq T /\ T \subseteq BookingIds /\ Cardinality(T) <= MaxBookings
    BY <1>a, <1>k
  <2> HIDE DEF S, T
  <2>2. Cardinality(S) \in Nat /\ Cardinality(T) \in Nat /\ Cardinality(S) <= Cardinality(T)
    BY <2>1, IdsFinite
  <2>3. Cardinality(S) <= MaxBookings
    BY <2>1, <2>2
  <2> QED BY <2>3 DEF S
<1>1. ASSUME NEW b \in BookingIds, NEW t \in BookingClock, Save(b, t)
      PROVE  Cardinality(InIndex(kind)') <= MaxBookings
  <2> DEFINE left == InIndex(Kind(b)) \ Passed(Kind(b), t)
  <2>1. CASE kind = Kind(b) /\ ~AtCapacity(b, t)
             /\ due' = [Unlisted(Passed(Kind(b), t)) EXCEPT ![b] = t + BookingTtl]
    <3>1. ~(Cardinality(left) >= MaxBookings)
      BY <2>1 DEF AtCapacity
    <3>2. InIndex(kind)' = left \cup {b}
      BY <2>1, KindIs DEF InIndex, Unlisted, Passed, BookingIds, Kinds, BookingInv, BookingTypeOK
    <3>3. left \subseteq BookingIds
      BY KindIs DEF InIndex, Kinds, BookingIds
    <3> HIDE DEF left
    <3>4. IsFiniteSet(left) /\ Cardinality(left) \in Nat
      BY <3>3, IdsFinite
    <3>5. Cardinality(left \cup {b}) = IF b \in left THEN Cardinality(left) ELSE Cardinality(left) + 1
      BY <3>4, FS_AddElement
    <3> QED BY <3>1, <3>2, <3>4, <3>5
  <2>2. CASE kind # Kind(b)
    <3>1. b \notin kind
      BY <2>2 DEF Kinds, Kind, BookingIds
    <3>2. InIndex(kind)' \subseteq InIndex(kind)
      BY <1>1, <3>1 DEF Save, InIndex, Unlisted, Kinds, BookingIds, BookingInv, BookingTypeOK
    <3> QED BY <3>2, <1>a
  <2>3. CASE UNCHANGED due \/ due' = Unlisted(Passed(Kind(b), t))
    BY <2>3, <1>a DEF InIndex, Unlisted, Kinds, BookingIds
  <2> QED BY <1>1, <2>1, <2>2, <2>3 DEF Save
<1>2. ASSUME NEW r \in Redirects, NEW b \in Handoffs, Redirect(r, b)
      PROVE  Cardinality(InIndex(kind)') <= MaxBookings
  BY <1>2, <1>a DEF Redirect, Consume, InIndex, Unlisted, Kinds, BookingIds
<1>3. ASSUME NEW b \in BookingIds, RecordLapses(b)
      PROVE  Cardinality(InIndex(kind)') <= MaxBookings
  BY <1>3, <1>a DEF RecordLapses, InIndex
<1>4. CASE UNCHANGED bookingVars
  BY <1>4, <1>a DEF bookingVars, InIndex
<1> QED BY <1>1, <1>2, <1>3, <1>4 DEF BookingNext

(* However the clocks of the processes disagree, no kind has more records   *)
(* than its cap, and each of them is in the index.                          *)
THEOREM BookingCapHolds == BookingSpec => []BookingCap
<1>1. BookingInit => IndexCap
  <2> SUFFICES ASSUME BookingInit PROVE IndexCap
    OBVIOUS
  <2>1. \A kind \in Kinds : InIndex(kind) = {}
    BY DEF BookingInit, InIndex, Kinds, BookingIds
  <2> QED BY <2>1, FS_EmptySet, BookingAssumption DEF IndexCap
<1>2. BookingInv /\ IndexCap => BookingCap
  <2> SUFFICES ASSUME BookingInv, IndexCap, NEW kind \in Kinds
               PROVE  kept \cap kind \subseteq InIndex(kind) /\ Cardinality(kept \cap kind) <= MaxBookings
    BY DEF BookingCap, Kinds
  <2> DEFINE S == kept \cap kind
             T == InIndex(kind)
  <2>1. S \subseteq T /\ T \subseteq BookingIds /\ Cardinality(T) <= MaxBookings
    BY DEF InIndex, Listed, BookingInv, BookingTypeOK, IndexCap, Kinds, BookingIds
  <2> HIDE DEF S, T
  <2>2. Cardinality(S) \in Nat /\ Cardinality(T) \in Nat /\ Cardinality(S) <= Cardinality(T)
    BY <2>1, IdsFinite
  <2>3. S \subseteq T /\ Cardinality(S) <= MaxBookings
    BY <2>1, <2>2, BookingAssumption
  <2> QED BY <2>3 DEF S, T
<1> QED BY <1>1, <1>2, InitBookingInv, StepBookingInv, StepIndexCap, PTL DEF BookingSpec

-----------------------------------------------------------------------------
(******************************* Worker process *****************************)

RuntimeTypeOK ==
    /\ beat \in {"none", "write", "resume", "metrics", "pause", "degrade"}
    /\ starting \in {"wait", "write", "metrics", "remove", "done"}
    /\ stopping \in {"no", "await", "write", "pause", "drain", "finish", "beat", "done"}
    /\ runtimeFaults \in Nat

InService(r, w) == runtime = r /\ worker = w

(* A start that failed, or has not ended. *)
NoHeartbeat == ~timer /\ beat = "none"
StartFailed == InService("stopped", "closed") /\ NoHeartbeat

(* The states a heartbeat goes through: the worker takes jobs in the        *)
(* "ready" state and, after a failure, until the heartbeat has paused it.   *)
Serving ==
    /\ target = "ready"
    /\ beat \in {"none", "write"} => InService("ready", "running") \/ InService("degraded", "paused")
    /\ beat = "metrics" => InService("ready", "running")
    /\ beat \in {"resume", "degrade"} => InService("degraded", "paused")
    /\ beat = "pause" => runtime = "degraded" /\ worker \in {"running", "paused"}

WhileStarting ==
    stopping = "no" =>
        /\ ~early /\ target = "ready"
        /\ starting \in {"wait", "write"} => InService("starting", "running") /\ NoHeartbeat
        /\ starting \in {"metrics", "remove"} => InService("ready", "running") /\ NoHeartbeat

WhileServing ==
    stopping \in {"no", "await"} /\ starting = "done" /\ ~early =>
        /\ Serving \/ StartFailed
        /\ stopping = "await" => ~timer

(* What stop leaves of a heartbeat that begins while it drains. *)
WhileDraining ==
    stopping \in {"write", "pause", "drain", "finish", "beat"} /\ ~early =>
        /\ runtime = "draining" /\ beat \in {"none", "write", "metrics"}
        /\ beat # "none" => target = "draining"
        /\ stopping = "beat" => ~timer

WhenStopped ==
    stopping = "done" /\ ~early =>
        /\ runtime = "stopped" /\ NoHeartbeat
        /\ runtimeFaults = 0 => published = NotPublished

(* A stop that is not early comes after the start. *)
StartedFirst == stopping # "no" /\ ~early => starting = "done"

RuntimeInv ==
    RuntimeTypeOK /\ StartedFirst /\ WhileStarting /\ WhileServing /\ WhileDraining /\ WhenStopped

-----------------------------------------------------------------------------
(* A process that begins to start satisfies the invariant. *)
LEMMA InitRuntimeInv == RuntimeInit => RuntimeInv
BY DEF RuntimeInit, RuntimeInv, RuntimeTypeOK, StartedFirst, WhileStarting, WhileServing,
       WhileDraining, WhenStopped, InService, NoHeartbeat, Serving

(* start: a stop that overtook it is early. *)
LEMMA StartRuntimeInv == RuntimeInv /\ StartStep => RuntimeInv'
<1> SUFFICES ASSUME RuntimeInv, StartStep PROVE RuntimeInv'
  OBVIOUS
<1> USE DEF RuntimeInv
<1>1. starting # "done" /\ stopping' = stopping /\ early' = early
  BY DEF StartStep, WorkerReady, Register, StartMetrics, StartRemove
<1>2. RuntimeTypeOK'
  BY DEF StartStep, WorkerReady, Register, StartMetrics, StartRemove, RemoveOwned,
         Publishes, PublishFails, RuntimeFault, RuntimeTypeOK
<1>3. early \/ stopping = "no"
  BY <1>1 DEF StartedFirst
<1>4. StartedFirst' /\ WhileDraining' /\ WhenStopped'
  BY <1>1, <1>3 DEF StartedFirst, WhileDraining, WhenStopped
<1>5. WhileStarting' /\ WhileServing'
  <2> SUFFICES ASSUME stopping = "no", ~early PROVE WhileStarting' /\ WhileServing'
    BY <1>1, <1>3 DEF WhileStarting, WhileServing
  <2>1. CASE WorkerReady
    BY <2>1 DEF WorkerReady, WhileStarting, WhileServing, InService, NoHeartbeat, StartFailed
  <2>2. CASE Register
    BY <2>2 DEF Register, WhileStarting, WhileServing, InService, NoHeartbeat, StartFailed
  <2>3. CASE StartMetrics
    BY <2>3 DEF StartMetrics, WhileStarting, WhileServing, InService, NoHeartbeat, Serving
  <2>4. CASE StartRemove
    BY <2>4 DEF StartRemove, WhileStarting, WhileServing, InService, NoHeartbeat, StartFailed
  <2> QED BY <2>1, <2>2, <2>3, <2>4 DEF StartStep
<1> QED BY <1>2, <1>4, <1>5

(* heartbeat: before stop drains the worker it is "ready" or "degraded",    *)
(* and every heartbeat that begins later writes "draining".                 *)
LEMMA BeatRuntimeInv == RuntimeInv /\ (Heartbeat \/ BeatStep) => RuntimeInv'
<1> SUFFICES ASSUME RuntimeInv, Heartbeat \/ BeatStep PROVE RuntimeInv'
  OBVIOUS
<1> USE DEF RuntimeInv
<1>1. UNCHANGED <<timer, starting, stopping, early>>
  BY DEF Heartbeat, BeatStep, BeatWrite, BeatResume, BeatMetrics, BeatPause, BeatDegrade
<1>2. RuntimeTypeOK'
  BY DEF Heartbeat, BeatStep, BeatWrite, BeatResume, BeatMetrics, BeatPause, BeatDegrade,
         BeatFails, Publishes, PublishFails, RuntimeFault, RuntimeTypeOK
<1>3. timer \/ beat # "none"
  BY DEF Heartbeat, BeatStep, BeatWrite, BeatResume, BeatMetrics, BeatPause, BeatDegrade
<1>4. StartedFirst' /\ WhenStopped'
  BY <1>1, <1>3 DEF StartedFirst, WhenStopped, NoHeartbeat
<1>5. WhileStarting'
  <2> SUFFICES ASSUME stopping = "no" PROVE WhileStarting'
    BY <1>1 DEF WhileStarting
  <2>1. starting = "done"
    BY <1>3 DEF WhileStarting, NoHeartbeat, RuntimeTypeOK
  <2>2. target' = "ready"
    BY <2>1 DEF Heartbeat, BeatStep, BeatWrite, BeatResume, BeatMetrics, BeatPause, BeatDegrade,
                TargetState, WhileStarting, WhileServing, Serving, StartFailed, InService, RuntimeTypeOK
  <2> QED BY <1>1, <2>1, <2>2 DEF WhileStarting
<1>6. WhileServing'
  <2> SUFFICES ASSUME stopping \in {"no", "await"}, starting = "done", ~early PROVE WhileServing'
    BY <1>1 DEF WhileServing
  <2>1. Serving /\ ~StartFailed /\ (stopping = "await" => ~timer)
    BY <1>3 DEF WhileServing, StartFailed, NoHeartbeat
  <2>2. Serving'
    <3>1. CASE Heartbeat
      BY <2>1, <3>1 DEF Heartbeat, TargetState, Serving, InService
    <3>2. CASE BeatWrite
      BY <2>1, <3>2 DEF BeatWrite, BeatFails, Recovering, Serving, InService
    <3>3. CASE BeatResume
      BY <2>1, <3>3 DEF BeatResume, Serving, InService
    <3>4. CASE BeatMetrics
      BY <2>1, <3>4 DEF BeatMetrics, BeatFails, Serving, InService
    <3>5. CASE BeatPause
      BY <2>1, <3>5 DEF BeatPause, Pauses, Serving, InService
    <3>6. CASE BeatDegrade
      BY <2>1, <3>6 DEF BeatDegrade, Serving, InService
    <3> QED BY <3>1, <3>2, <3>3, <3>4, <3>5, <3>6 DEF BeatStep
  <2> QED BY <1>1, <2>1, <2>2 DEF WhileServing
<1>7. WhileDraining'
  <2> SUFFICES ASSUME stopping \in {"write", "pause", "drain", "finish", "beat"}, ~early
               PROVE  WhileDraining'
    BY <1>1 DEF WhileDraining
  <2>1. runtime' = "draining" /\ beat' \in {"none", "write", "metrics"}
        /\ (beat' # "none" => target' = "draining")
    BY DEF Heartbeat, BeatStep, BeatWrite, BeatResume, BeatMetrics, BeatPause, BeatDegrade,
           BeatFails, Recovering, TargetState, WhileDraining
  <2> QED BY <1>1, <2>1 DEF WhileDraining
<1> QED BY <1>2, <1>4, <1>5, <1>6, <1>7

(* stop waits for the heartbeat in flight before it drains the worker, and  *)
(* again before it removes the record.                                      *)
LEMMA StopRuntimeInv == RuntimeInv /\ (Stop \/ StopStep) => RuntimeInv'
<1> SUFFICES ASSUME RuntimeInv, Stop \/ StopStep PROVE RuntimeInv'
  OBVIOUS
<1> USE DEF RuntimeInv
<1>1. RuntimeTypeOK'
  BY DEF Stop, StopStep, Drains, StopWrite, StopPause, StopDrain, StopFinish, StopRemove,
         RemoveOwned, Publishes, PublishFails, RuntimeFault, RuntimeTypeOK
<1>2. stopping' # "no" /\ starting' = starting
  BY DEF Stop, StopStep, Drains, StopWrite, StopPause, StopDrain, StopFinish, StopRemove
<1>3. StartedFirst' /\ WhileStarting'
  BY <1>2 DEF Stop, StopStep, Drains, StopWrite, StopPause, StopDrain, StopFinish, StopRemove,
              StartedFirst, WhileStarting, RuntimeTypeOK
<1>4. WhileServing'
  BY <1>2 DEF Stop, StopStep, Drains, StopWrite, StopPause, StopDrain, StopFinish, StopRemove,
              WhileStarting, WhileServing, Serving, StartFailed, InService, NoHeartbeat
<1>5. WhileDraining'
  BY DEF Stop, StopStep, Drains, StopWrite, StopPause, StopDrain, StopFinish, StopRemove,
         BeatOver, WhileServing, WhileDraining, StartedFirst
<1>6. WhenStopped'
  <2> SUFFICES ASSUME stopping' = "done", ~early' PROVE WhenStopped'
    BY DEF WhenStopped
  <2>1. StopRemove
    BY <2>1 DEF Stop, StopStep, Drains, StopWrite, StopPause, StopDrain, StopFinish
  <2>2. runtimeFaults' = 0 => published' = NotPublished
    BY <2>1 DEF StopRemove, RemoveOwned, Publishes, PublishFails, RuntimeFault, RuntimeTypeOK
  <2> QED BY <2>1, <2>2 DEF StopRemove, BeatOver, WhileDraining, WhenStopped, NoHeartbeat
<1> QED BY <1>1, <1>3, <1>4, <1>5, <1>6

(* A sweep takes the record and nothing else. *)
LEMMA SweptRuntimeInv == RuntimeInv /\ Swept => RuntimeInv'
BY DEF Swept, RuntimeInv, RuntimeTypeOK, StartedFirst, WhileStarting, WhileServing,
       WhileDraining, WhenStopped, InService, NoHeartbeat, Serving, StartFailed

(* Every step of the process keeps the invariant. *)
LEMMA RuntimeInvKept == RuntimeInv /\ [RuntimeNext]_runtimeVars => RuntimeInv'
<1> SUFFICES ASSUME RuntimeInv, [RuntimeNext]_runtimeVars PROVE RuntimeInv'
  OBVIOUS
<1>1. CASE UNCHANGED runtimeVars
  BY <1>1 DEF runtimeVars, RuntimeInv, RuntimeTypeOK, StartedFirst, WhileStarting, WhileServing,
              WhileDraining, WhenStopped, InService, NoHeartbeat, Serving, StartFailed
<1>2. CASE RuntimeNext
  BY <1>2, StartRuntimeInv, BeatRuntimeInv, StopRuntimeInv, SweptRuntimeInv DEF RuntimeNext
<1> QED BY <1>1, <1>2

THEOREM RuntimeAlways == FairRuntimeSpec => []RuntimeInv
BY InitRuntimeInv, RuntimeInvKept, PTL DEF FairRuntimeSpec

-----------------------------------------------------------------------------
(* Between heartbeats a worker takes jobs exactly when it takes itself for  *)
(* ready, in every run.                                                     *)
THEOREM ReadyWorkersTakeJobs == FairRuntimeSpec => []TakesJobsWhenReady
<1>1. RuntimeInv => TakesJobsWhenReady
  BY DEF RuntimeInv, TakesJobsWhenReady, AtRest, WhileStarting, WhileServing, Serving,
         StartFailed, InService
<1> QED BY <1>1, RuntimeAlways, PTL

(* Once a worker drains, no step publishes it as ready or takes up jobs     *)
(* again, and once it has stopped none leaves a record of it.               *)
LEMMA DrainingStep ==
  ASSUME RuntimeInv, RuntimeNext, runtime = "draining", ~early
  PROVE  /\ runtime' \in {"draining", "stopped"}
         /\ published' # published => published' \in {"draining", NotPublished}
         /\ worker # "running" => worker' # "running"
<1>1. stopping \in {"write", "pause", "drain", "finish", "beat"} /\ starting = "done"
  BY DEF RuntimeInv, RuntimeTypeOK, StartedFirst, WhileStarting, WhileServing, WhileDraining,
         WhenStopped, Serving, StartFailed, InService
<1>2. beat \in {"none", "write", "metrics"} /\ (beat # "none" => target = "draining")
  BY <1>1 DEF RuntimeInv, WhileDraining
<1>3. ~StartStep
  BY <1>1 DEF StartStep, WorkerReady, Register, StartMetrics, StartRemove
<1>4. CASE Heartbeat \/ BeatStep
  BY <1>2, <1>4 DEF Heartbeat, BeatStep, BeatWrite, BeatResume, BeatMetrics, BeatPause, BeatDegrade,
         BeatFails, Publishes, PublishFails, Recovering
<1>5. CASE Stop \/ StopStep
  BY <1>1, <1>5 DEF Stop, StopStep, Drains, StopWrite, StopPause, StopDrain, StopFinish, StopRemove,
         RemoveOwned, Publishes, PublishFails, Pauses
<1>6. CASE Swept
  BY <1>6 DEF Swept
<1> QED BY <1>3, <1>4, <1>5, <1>6 DEF RuntimeNext

(* Draining is final, whatever heartbeat was in flight when it began. *)
THEOREM DrainsForGood == FairRuntimeSpec => DrainIsFinal
<1> DEFINE Kept ==
      /\ runtime = "draining" /\ ~early =>
             /\ runtime' \in {"draining", "stopped"}
             /\ published' # published => published' \in {"draining", NotPublished}
             /\ worker # "running" => worker' # "running"
      /\ stopping' = "done" /\ ~early' /\ runtimeFaults' = 0
             => published' = NotPublished
<1>1. RuntimeInv /\ RuntimeInv' /\ [RuntimeNext]_runtimeVars => [Kept]_runtimeVars
  <2> SUFFICES ASSUME RuntimeInv, RuntimeInv', RuntimeNext PROVE Kept
    OBVIOUS
  <2>1. stopping' = "done" /\ ~early' /\ runtimeFaults' = 0 => published' = NotPublished
    BY DEF RuntimeInv, WhenStopped
  <2> QED BY <2>1, DrainingStep
<1> QED BY <1>1, RuntimeAlways, PTL DEF FairRuntimeSpec, DrainIsFinal
=============================================================================
