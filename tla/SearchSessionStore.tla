------------------------- MODULE SearchSessionStore -------------------------
(***************************************************************************)
(* The search sessions of all searches in Valkey                           *)
(* (valkeySearchSessionStore.js): the session and its tombstone, the       *)
(* sorted set of expiry times, the hash of sizes, the total of bytes, and  *)
(* the scripts that keep them.  A script is one action.                    *)
(*                                                                         *)
(* The caller gives every script its own time, so t is any member of       *)
(* Clock; Valkey's own key TTLs run out when they do (KeyExpires).  The    *)
(* lock modes of the write are Continuation's and SearchQueue's subject:   *)
(* here a write may be refused by them.                                    *)
(*                                                                         *)
(* ComparesSizeOnly, ClearsNoBytes and LeavesSession are faulty forms of   *)
(* the definition that follows each of them; no action uses them.  They    *)
(* show which mistakes the properties detect.                              *)
(***************************************************************************)
EXTENDS Naturals, FiniteSets, FiniteSetsExt

CONSTANTS
    SessionIds,
    Sizes,          \* bytes a serialized session can have, 1..maxSessionBytes
    MaxSessions,    \* maxSessions
    SessionBudget,  \* maxAggregateSessionBytes
    SessionTtl,     \* sessionTtlMs, in ticks
    SessionClock,   \* the readings the callers' clocks can have
    MaxRevision,    \* bound: writes of one session
    NoSession       \* an absent key or field

ASSUME SessionStoreAssumption ==
    /\ IsFiniteSet(SessionIds) /\ Sizes \subseteq Nat \ {0} /\ NoSession \notin Nat
    /\ {MaxSessions, SessionBudget, SessionTtl, MaxRevision} \subseteq Nat
    /\ SessionClock \subseteq Nat

VARIABLES
    revision,      \* KEYS[1]: id -> revision of the stored envelope
    tombstone,     \* KEYS[2]: the ids that are known
    expiresAt,     \* KEYS[3]: id -> score
    sizeOf,        \* KEYS[4]: id -> bytes
    total          \* KEYS[5]

sessionStoreVars == <<revision, tombstone, expiresAt, sizeOf, total>>

-----------------------------------------------------------------------------
Stored  == {s \in SessionIds : revision[s] # NoSession}
Counted == {s \in SessionIds : sizeOf[s] # NoSession}
Bytes(ids) == MapThenSumSet(LAMBDA s : sizeOf[s], ids \cap Counted)

(* ZRANGEBYSCORE -inf t *)
Expired(t) == {s \in SessionIds : expiresAt[s] # NoSession /\ expiresAt[s] <= t}

Minus(a, b) == IF a > b THEN a - b ELSE 0

LeavesSession(t) ==
    /\ sizeOf'    = [s \in SessionIds |-> IF s \in Expired(t) THEN NoSession ELSE sizeOf[s]]
    /\ expiresAt' = [s \in SessionIds |-> IF s \in Expired(t) THEN NoSession ELSE expiresAt[s]]
    /\ UNCHANGED revision

(* The sweep that opens the write and the stats; the total it computes is   *)
(* stored by whoever gets to the end.                                       *)
Sweep(t) ==
    /\ sizeOf'    = [s \in SessionIds |-> IF s \in Expired(t) THEN NoSession ELSE sizeOf[s]]
    /\ expiresAt' = [s \in SessionIds |-> IF s \in Expired(t) THEN NoSession ELSE expiresAt[s]]
    /\ revision'  = [s \in SessionIds |-> IF s \in Expired(t) THEN NoSession ELSE revision[s]]

SweptTotal(t) == Minus(total, Bytes(Expired(t)))

Full(n) == n >= MaxSessions

ComparesSizeOnly(s, size, t) == size > SessionBudget

(* next_total > aggregate_budget *)
OverBudget(s, size, t) == Minus(SweptTotal(t), Bytes({s} \ Expired(t))) + size > SessionBudget

(* The early returns of SESSION_WRITE; expected is NoSession for -1. *)
Refused(s, expected, size, t) ==
    LET stored == s \in Stored \ Expired(t) IN
    \/ expected = NoSession /\ (stored \/ s \in tombstone \/ Full(Cardinality(Counted \ Expired(t))))
    \/ expected # NoSession /\ ~(stored /\ revision[s] = expected)
    \/ OverBudget(s, size, t)

(* A refused write has swept, and does not store the total. *)
WriteRefused(s, expected, size, t) ==
    /\ Refused(s, expected, size, t)
    /\ Sweep(t)
    /\ UNCHANGED <<tombstone, total>>

(* A write refused by its lock mode: the session is held by another.        *)
WriteLocked(s, t) ==
    /\ s \in Stored \ Expired(t)
    /\ Sweep(t)
    /\ UNCHANGED <<tombstone, total>>

WriteStored(s, expected, size, t) ==
    LET r == IF expected = NoSession THEN 1 ELSE expected + 1 IN
    /\ ~Refused(s, expected, size, t) /\ r <= MaxRevision
    /\ revision'  = [x \in SessionIds |-> IF x = s THEN r
                                          ELSE IF x \in Expired(t) THEN NoSession ELSE revision[x]]
    /\ expiresAt' = [x \in SessionIds |-> IF x = s THEN t + SessionTtl
                                          ELSE IF x \in Expired(t) THEN NoSession ELSE expiresAt[x]]
    /\ sizeOf'    = [x \in SessionIds |-> IF x = s THEN size
                                          ELSE IF x \in Expired(t) THEN NoSession ELSE sizeOf[x]]
    /\ tombstone' = tombstone \cup {s}
    /\ total' = Minus(SweptTotal(t), Bytes({s} \ Expired(t))) + size

(* SESSION_WRITE_SCRIPT: saveSearchSession, mutateSession and the rest read *)
(* the revision first; it may have changed since.                           *)
Write(s, t) ==
    \/ WriteLocked(s, t)
    \/ \E expected \in (1..MaxRevision) \cup {NoSession}, size \in Sizes :
          WriteRefused(s, expected, size, t) \/ WriteStored(s, expected, size, t)

ClearsNoBytes(s) ==
    /\ revision'  = [revision EXCEPT ![s] = NoSession]
    /\ tombstone' = tombstone \ {s}
    /\ expiresAt' = [expiresAt EXCEPT ![s] = NoSession]
    /\ sizeOf'    = [sizeOf EXCEPT ![s] = NoSession]
    /\ UNCHANGED total

(* CLEAR_SESSION_SCRIPT *)
Clear(s) ==
    /\ revision'  = [revision EXCEPT ![s] = NoSession]
    /\ tombstone' = tombstone \ {s}
    /\ expiresAt' = [expiresAt EXCEPT ![s] = NoSession]
    /\ sizeOf'    = [sizeOf EXCEPT ![s] = NoSession]
    /\ total'     = Minus(total, Bytes({s}))

(* SESSION_STATS_SCRIPT *)
Stats(t) == Sweep(t) /\ total' = SweptTotal(t) /\ UNCHANGED tombstone

(* The TTLs of the keys: the tombstone's is longer. *)
KeyExpires(s) ==
    \/ s \in Stored /\ revision' = [revision EXCEPT ![s] = NoSession] /\ UNCHANGED tombstone
    \/ s \in tombstone \ Stored /\ tombstone' = tombstone \ {s} /\ UNCHANGED revision

SessionStoreInit ==
    /\ revision = [s \in SessionIds |-> NoSession]
    /\ tombstone = {}
    /\ expiresAt = [s \in SessionIds |-> NoSession]
    /\ sizeOf = [s \in SessionIds |-> NoSession]
    /\ total = 0

SessionStoreNext ==
    \/ \E s \in SessionIds, t \in SessionClock : Write(s, t)
    \/ \E s \in SessionIds : Clear(s)
    \/ \E t \in SessionClock : Stats(t)
    \/ \E s \in SessionIds : KeyExpires(s) /\ UNCHANGED <<expiresAt, sizeOf, total>>

SessionStoreSpec == SessionStoreInit /\ [][SessionStoreNext]_sessionStoreVars

-----------------------------------------------------------------------------
(* The keys describe the same sessions: a stored session is counted and has *)
(* an expiry time, so that no session escapes the sweep, the cap and the    *)
(* budget; and a stored id is known.                                        *)
SessionKeysAgree ==
    /\ Stored \subseteq Counted /\ Stored \subseteq tombstone
    /\ Counted = {s \in SessionIds : expiresAt[s] # NoSession}

(* However the writers' clocks disagree, there are at most maxSessions      *)
(* sessions and their bytes stay within the budget: the total may say too   *)
(* much, never too little.                                                  *)
SessionsBounded ==
    /\ Cardinality(Stored) <= MaxSessions
    /\ Bytes(Counted) <= total /\ total <= SessionBudget

(* The total drifts away from the sizes only where a write sweeps expired   *)
(* sessions and is then refused: what that sweep removed stays counted.     *)
Drift == total - Bytes(Counted)

DriftOnlyByRefusal ==
    [][Drift' > Drift => /\ total' = total
                         /\ \E t \in SessionClock : Expired(t) # {} /\ Sweep(t)]_sessionStoreVars
=============================================================================
