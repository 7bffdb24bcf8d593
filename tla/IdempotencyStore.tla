--------------------------- MODULE IdempotencyStore ---------------------------
(***************************************************************************)
(* The idempotency of POST /search-hotels in Valkey                        *)
(* (valkeySearchIdempotencyStore.js): the record and the stored response   *)
(* of every Idempotency-Key, the sorted set of expiry times, the hash of   *)
(* response sizes and their total, the scripts that keep them, and the     *)
(* calls of executeInitialSearchIdempotently.  A script is one action.     *)
(*                                                                         *)
(* A call is one request; its owner token is the call itself, and so is    *)
(* the search it executes.  The clocks of the web processes disagree: a    *)
(* record whose score has passed for some of them is "old", a script       *)
(* sweeps any of the old ones, and eviction, in the order of the scores,   *)
(* meets the records in any order.                                         *)
(*                                                                         *)
(* LeavesResponse, IgnoresFulfilled, IgnoresPending, CountsNewOnly and     *)
(* ReleasesInTryOnly are faulty forms of the definition that follows each  *)
(* of them; no action uses them.  They show which mistakes the properties  *)
(* detect.                                                                 *)
(***************************************************************************)
EXTENDS Naturals, FiniteSets, FiniteSetsExt

CONSTANTS
    Calls,
    IdempotencyKeys,
    Payloads,        \* the fingerprints of the payloads
    ResponseSizes,   \* bytes of a response, 1..maxResponseBytes
    MaxRecords,      \* maxRecords
    ResponseBudget,  \* maxStoredResponseBytes
    MaxClaims,       \* claims of one call: 3 in the code
    MaxAges,         \* bound: records that come of age
    MaxCallFaults,   \* bound: lost commands, lost replies and crashed processes
    NoRecord         \* an absent key, field or answer

ASSUME IdempotencyAssumption ==
    /\ IsFiniteSet(Calls) /\ IsFiniteSet(IdempotencyKeys) /\ "failed" \notin Calls
    /\ NoRecord \notin Calls \cup Nat \cup {"live", "old"}
    /\ NoRecord \notin [state : {"pending", "fulfilled"}, owner : Calls, payload : Payloads]
    /\ ResponseSizes \subseteq Nat \ {0}
    /\ {MaxRecords, MaxClaims} \subseteq Nat \ {0}
    /\ {ResponseBudget, MaxAges, MaxCallFaults} \subseteq Nat

VARIABLES
    record,      \* key -> [state, owner, payload]
    response,    \* key -> the call whose response is stored
    score,       \* key -> "live" or "old" in the expiry index
    bytes,       \* key -> size in the size index
    stored,      \* idempotencyTotalResponseBytes
    call,        \* call -> where executeInitialSearchIdempotently is
    ages,        \* records that have come of age so far
    callFaults,  \* lost commands, lost replies and crashes so far
    gone         \* history: key -> how its record has gone: "aged", "evicted", "released"

recordVars == <<record, response, score, bytes, stored>>
idempotencyVars == <<record, response, score, bytes, stored, call, ages, callFaults, gone>>

-----------------------------------------------------------------------------
Present == {k \in IdempotencyKeys : record[k] # NoRecord}
Indexed == {k \in IdempotencyKeys : score[k] # NoRecord}
Old     == {k \in Indexed : score[k] = "old"}
Pending(k)   == k \in Present /\ record[k].state = "pending"
Fulfilled(k) == k \in Present /\ record[k].state = "fulfilled"

BytesOf(keys) == MapThenSumSet(LAMBDA k : bytes[k], keys \cap Indexed)
Less(a, b) == IF a > b THEN a - b ELSE 0

Without(f, keys) == [k \in IdempotencyKeys |-> IF k \in keys THEN NoRecord ELSE f[k]]
Put(f, k, keys, v) == [Without(f, keys) EXCEPT ![k] = v]

(* What eviction may remove: records without their key, fulfilled records. *)
Evictable(keys) == {k \in keys : ~Pending(k)}

WithGone(aged, evicted) ==
    [k \in IdempotencyKeys |-> gone[k] \cup (IF k \in aged \cap Present THEN {"aged"} ELSE {})
                                       \cup (IF k \in evicted \cap Present THEN {"evicted"} ELSE {})]

LeavesResponse(keys) ==
    /\ record' = Without(record, keys) /\ UNCHANGED response
    /\ score'  = Without(score, keys)  /\ bytes' = Without(bytes, keys)

(* remove_record for each of the keys; the total is stored by the caller. *)
RemoveRecords(keys) ==
    /\ record' = Without(record, keys) /\ response' = Without(response, keys)
    /\ score'  = Without(score, keys)  /\ bytes' = Without(bytes, keys)

At(c, pc) == call[c].pc = pc
Goto(c, pc) == call' = [call EXCEPT ![c].pc = pc]
End(c, answer) == call' = [call EXCEPT ![c].pc = "done", ![c].answer = answer]

CallFault == callFaults < MaxCallFaults /\ callFaults' = callFaults + 1

IgnoresFulfilled(k) == Pending(k)
IgnoresPending(k) == Fulfilled(k)

(* The early return of CLAIM: there is a record. *)
Existing(k) == k \in Present

(* The calls that have no response of their own, and may end without. *)
Failed == "failed"

-----------------------------------------------------------------------------
(* executeInitialSearchIdempotently.  gave is how CLAIM answers; it sweeps  *)
(* first, and a call that finds a record does not store the total.          *)
ClaimFinds(c, swept) ==
    LET k == call[c].key IN
    /\ Existing(k) /\ k \notin swept
    /\ RemoveRecords(swept) /\ UNCHANGED stored
    /\ gone' = WithGone(swept, {})

Found(c) ==
    LET r == record[call[c].key] IN
    IF r.payload # call[c].payload THEN "conflict" ELSE r.state

(* Eviction ends when there is room for one more record, or nothing left    *)
(* that it may remove.                                                      *)
Evicts(evicted, swept) ==
    LET kept == Indexed \ swept IN
    /\ evicted \subseteq Evictable(kept)
    /\ \/ Cardinality(kept \ evicted) = MaxRecords - 1
       \/ evicted = {} /\ Cardinality(kept) < MaxRecords

(* A key that is still in the index counts as one record more, and its old  *)
(* bytes stay in the total.                                                 *)
ClaimCreates(c, swept, evicted) ==
    LET k == call[c].key
        out == swept \cup evicted IN
    /\ ~(Existing(k) /\ k \notin swept)
    /\ Evicts(evicted, swept)
    /\ record' = Put(record, k, out, [state |-> "pending", owner |-> c, payload |-> call[c].payload])
    /\ response' = Without(response, out)
    /\ score' = Put(score, k, out, "live") /\ bytes' = Put(bytes, k, out, 0)
    /\ stored' = Less(stored, BytesOf(out))
    /\ gone' = WithGone(swept, evicted)

ClaimRefused(c, swept) ==
    LET kept == Indexed \ swept
        out == swept \cup Evictable(kept) IN
    /\ ~(Existing(call[c].key) /\ call[c].key \notin swept)
    /\ Cardinality(kept \ Evictable(kept)) >= MaxRecords
    /\ RemoveRecords(out)
    /\ stored' = Less(stored, BytesOf(out))
    /\ gone' = WithGone(swept, Evictable(kept))

(* A CLAIM that fails, before or after it took effect, is outside the try:  *)
(* the call ends and releases nothing.                                      *)
Claim(c) ==
    /\ At(c, "claim") /\ UNCHANGED ages
    /\ \/ \E swept \in SUBSET Old :
            \/ /\ ClaimFinds(c, swept)
               /\ IF Found(c) = "conflict" THEN End(c, Failed)
                  ELSE Goto(c, IF Found(c) = "pending" THEN "wait" ELSE "read")
               /\ UNCHANGED callFaults
            \/ ClaimFinds(c, swept) /\ End(c, Failed) /\ CallFault
            \/ \E evicted \in SUBSET Indexed :
                  /\ ClaimCreates(c, swept, evicted)
                  /\ \/ Goto(c, "execute") /\ UNCHANGED callFaults
                     \/ End(c, Failed) /\ CallFault
            \/ ClaimRefused(c, swept) /\ End(c, Failed) /\ UNCHANGED callFaults
       \/ End(c, Failed) /\ CallFault /\ UNCHANGED <<recordVars, gone>>

(* A record that has gone sends the call back to CLAIM, three times in all. *)
ClaimAgain(c) ==
    IF call[c].claims < MaxClaims
    THEN call' = [call EXCEPT ![c].pc = "claim", ![c].claims = @ + 1]
    ELSE End(c, Failed)

(* readFulfilledResponse reads record and response at once.  A replay that  *)
(* finds the key claimed anew answers with no response.                     *)
Read(c) ==
    LET k == call[c].key IN
    /\ call[c].pc \in {"read", "wait"}
    /\ \/ k \notin Present /\ ClaimAgain(c) /\ UNCHANGED callFaults
       \/ Fulfilled(k) /\ End(c, IF response[k] = NoRecord THEN Failed ELSE response[k])
          /\ UNCHANGED callFaults
       \/ Pending(k) /\ At(c, "read") /\ End(c, NoRecord) /\ UNCHANGED callFaults
       \/ End(c, Failed) /\ CallFault
    /\ UNCHANGED <<recordVars, ages, gone>>

(* waitForCompletion reaches its deadline. *)
WaitEnds(c) ==
    /\ At(c, "wait")
    /\ End(c, Failed)
    /\ UNCHANGED <<recordVars, ages, callFaults, gone>>

(* execute() returns a response, one that is not stored (no search, or too  *)
(* large), or throws.                                                       *)
Execute(c) ==
    /\ At(c, "execute")
    /\ \/ Goto(c, "complete") \/ Goto(c, "giveBack") \/ Goto(c, "giveUp")
    /\ UNCHANGED <<recordVars, ages, callFaults, gone>>

Owns(c) == LET k == call[c].key IN Pending(k) /\ record[k].owner = c

CountsNewOnly(c, size, evicted) == size <= ResponseBudget

(* The response and what stays stored are within the budget. *)
WithinBudget(c, size, evicted) ==
    Less(stored, BytesOf(evicted \cup {call[c].key})) + size <= ResponseBudget

Others(c) == Evictable(Indexed) \ {call[c].key}

(* Eviction stops as soon as the response fits. *)
MakesRoom(c, size, evicted) ==
    /\ WithinBudget(c, size, evicted)
    /\ evicted = {} \/ \E last \in evicted : ~WithinBudget(c, size, evicted \ {last})

CompleteStores(c, size, evicted) ==
    LET k == call[c].key IN
    /\ record' = Put(record, k, evicted, [record[k] EXCEPT !.state = "fulfilled"])
    /\ response' = Put(response, k, evicted, c)
    /\ score' = Put(score, k, evicted, "live") /\ bytes' = Put(bytes, k, evicted, size)
    /\ stored' = Less(stored, BytesOf(evicted \cup {k})) + size
    /\ gone' = WithGone({}, evicted)

CompleteRefused(c, size) ==
    /\ ~WithinBudget(c, size, Others(c))
    /\ RemoveRecords(Others(c))
    /\ stored' = Less(stored, BytesOf(Others(c)))
    /\ gone' = WithGone({}, Others(c))

(* COMPLETE; whatever goes wrong with it, the call releases its record.     *)
Complete(c) ==
    /\ At(c, "complete") /\ UNCHANGED ages
    /\ \/ ~Owns(c) /\ UNCHANGED <<recordVars, gone, callFaults>> /\ Goto(c, "giveUp")
       \/ \E size \in ResponseSizes, evicted \in SUBSET Others(c) :
            /\ Owns(c) /\ MakesRoom(c, size, evicted) /\ CompleteStores(c, size, evicted)
            /\ \/ End(c, c) /\ UNCHANGED callFaults
               \/ Goto(c, "giveUp") /\ CallFault
       \/ \E size \in ResponseSizes :
            /\ Owns(c) /\ CompleteRefused(c, size)
            /\ \/ Goto(c, "giveBack") /\ UNCHANGED callFaults
               \/ Goto(c, "giveUp") /\ CallFault
       \/ UNCHANGED <<recordVars, gone>> /\ Goto(c, "giveUp") /\ CallFault

ReleasesInTryOnly(c) ==
    LET k == call[c].key IN
    IF Owns(c) /\ At(c, "giveBack")
    THEN RemoveRecords({k}) /\ stored' = Less(stored, BytesOf({k}))
         /\ gone' = [gone EXCEPT ![k] = @ \cup {"released"}]
    ELSE UNCHANGED <<recordVars, gone>>

(* RELEASE removes the record of its owner while it is pending. *)
RemoveReleased(c) ==
    LET k == call[c].key IN
    IF Owns(c) THEN RemoveRecords({k}) /\ stored' = Less(stored, BytesOf({k}))
                          /\ gone' = [gone EXCEPT ![k] = @ \cup {"released"}]
    ELSE UNCHANGED <<recordVars, gone>>

(* A release that fails within the try is tried once more by the catch.     *)
Release(c) ==
    /\ call[c].pc \in {"giveBack", "giveUp"} /\ UNCHANGED ages
    /\ \/ /\ RemoveReleased(c)
          /\ End(c, IF At(c, "giveBack") THEN c ELSE Failed) /\ UNCHANGED callFaults
       \/ /\ RemoveReleased(c) \/ UNCHANGED <<recordVars, gone>>
          /\ IF At(c, "giveBack") THEN Goto(c, "giveUp") ELSE End(c, Failed)
          /\ CallFault

Start(c) ==
    /\ At(c, "new")
    /\ \E k \in IdempotencyKeys, f \in Payloads :
          call' = [call EXCEPT ![c] = [@ EXCEPT !.pc = "claim", !.key = k, !.payload = f]]
    /\ UNCHANGED <<recordVars, ages, callFaults, gone>>

CallCrashes(c) ==
    /\ call[c].pc \notin {"new", "done"}
    /\ End(c, Failed) /\ CallFault
    /\ UNCHANGED <<recordVars, ages, gone>>

(* A score passes on the most advanced clock. *)
ComesOfAge(k) ==
    /\ ages < MaxAges /\ ages' = ages + 1
    /\ k \in Indexed \ Old /\ score' = [score EXCEPT ![k] = "old"]
    /\ UNCHANGED <<record, response, bytes, stored, call, callFaults, gone>>

(* STATS: the counts are taken after a sweep. *)
RecordStats ==
    /\ \E swept \in (SUBSET Old) \ {{}} :
          RemoveRecords(swept) /\ stored' = Less(stored, BytesOf(swept)) /\ gone' = WithGone(swept, {})
    /\ UNCHANGED <<call, ages, callFaults>>

(* The TTLs of record and response, set together, run out on the server.    *)
RecordExpires(k) ==
    /\ ages < MaxAges /\ ages' = ages + 1
    /\ k \in Present
    /\ record' = Without(record, {k}) /\ response' = Without(response, {k})
    /\ gone' = WithGone({k}, {})
    /\ UNCHANGED <<score, bytes, stored, call, callFaults>>

IdempotencyInit ==
    /\ record = [k \in IdempotencyKeys |-> NoRecord]
    /\ response = [k \in IdempotencyKeys |-> NoRecord]
    /\ score = [k \in IdempotencyKeys |-> NoRecord]
    /\ bytes = [k \in IdempotencyKeys |-> NoRecord]
    /\ stored = 0
    /\ call = [c \in Calls |-> [pc |-> "new", key |-> NoRecord, payload |-> NoRecord,
                                claims |-> 1, answer |-> Failed]]
    /\ ages = 0 /\ callFaults = 0
    /\ gone = [k \in IdempotencyKeys |-> {}]

CallStep(c) ==
    \/ Start(c) \/ Claim(c) \/ Read(c) \/ WaitEnds(c) \/ Execute(c) \/ Complete(c) \/ Release(c)
    \/ CallCrashes(c)

IdempotencyNext ==
    \/ \E c \in Calls : CallStep(c)
    \/ \E k \in IdempotencyKeys : ComesOfAge(k) \/ RecordExpires(k)
    \/ RecordStats

IdempotencySpec == IdempotencyInit /\ [][IdempotencyNext]_idempotencyVars

-----------------------------------------------------------------------------
(* Record, response, index and sizes describe the same searches: a record   *)
(* is fulfilled exactly when its owner's response can be read, whoever is   *)
(* evicting meanwhile, and every record can be swept.                       *)
RecordsAgree ==
    /\ Present \subseteq Indexed
    /\ Indexed = {k \in IdempotencyKeys : bytes[k] # NoRecord}
    /\ \A k \in IdempotencyKeys : response[k] = IF Fulfilled(k) THEN record[k].owner ELSE NoRecord

(* Records are at most maxRecords, and stored responses are within their    *)
(* budget: the total is never below what is stored.                         *)
RecordsBounded ==
    /\ Cardinality(Indexed) <= MaxRecords
    /\ BytesOf(Indexed) <= stored /\ stored <= ResponseBudget

(* The search of a key is executed by one call at a time, unless the record *)
(* of the first came of age: neither a failed call, a crash, a lost reply   *)
(* nor a shortage of room lets a second one in.                             *)
OneExecution ==
    \A c, d \in Calls :
        /\ c # d /\ call[c].pc \in {"execute", "complete"} /\ call[d].pc \in {"execute", "complete"}
        /\ call[c].key = call[d].key
        => "aged" \in gone[call[c].key]

Answered == {c \in Calls : At(c, "done") /\ call[c].answer # Failed}

(* While the record of a key stays, all calls of the key that are answered  *)
(* are answered with one search, that of their own payload.                 *)
AnswersAgree ==
    \A c \in Answered :
        gone[call[c].key] = {} =>
            /\ call[c].answer # NoRecord
            /\ call[call[c].answer].payload = call[c].payload
            /\ \A d \in Answered : call[d].key = call[c].key => call[d].answer = call[c].answer

(* Without crashes and lost commands no record stays pending when the call  *)
(* that made it has ended.                                                  *)
NoAbandonedRecord ==
    callFaults = 0 =>
        \A k \in IdempotencyKeys : Pending(k) => ~At(record[k].owner, "done")

(* A call is answered with a search of the payload it sent: a key that is   *)
(* used for a different search is refused.                                  *)
AnswersOwnPayload ==
    \A c \in Answered : call[c].answer \in Calls => call[call[c].answer].payload = call[c].payload
=============================================================================
