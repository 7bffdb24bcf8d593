--------------------------- MODULE LocalIdempotency ---------------------------
(***************************************************************************)
(* The idempotency of POST /search-hotels within a single process          *)
(* (searchIdempotency.js), which a deployment without Valkey has in place  *)
(* of IdempotencyStore's: a Map of records in the order of their creation, *)
(* a total of response bytes, and requests that wait for the promise of    *)
(* the request whose record they found.                                    *)
(*                                                                         *)
(* A post is one request.  It runs without an await until it waits for a   *)
(* promise, and so does what follows the end of the search it executes:    *)
(* two actions.  A record is named by the post that made it.  There is one *)
(* clock; lapses are the records whose expiresAt it passes.                *)
(*                                                                         *)
(* HasKey is a faulty form of the definition that follows it; no action    *)
(* uses it.  It shows a mistake that the property detects.                 *)
(***************************************************************************)
EXTENDS Naturals, FiniteSets, Sequences, SequencesExt

CONSTANTS
    Posts,
    PostKeys,
    PostPayloads,     \* the fingerprints of the payloads
    PostSizes,        \* bytes of a response
    MaxPostRecords,   \* MAX_SEARCH_IDEMPOTENCY_RECORDS
    PostBudget,       \* MAX_SEARCH_IDEMPOTENCY_BYTES
    MaxLapses,        \* bound: records whose time runs out
    NoPost            \* no key, no payload, or no answer

ASSUME PostAssumption ==
    /\ IsFiniteSet(Posts) /\ NoPost \notin Posts
    /\ PostSizes \subseteq Nat \ {0}
    /\ MaxPostRecords \in Nat \ {0} /\ {PostBudget, MaxLapses} \subseteq Nat

VARIABLES
    shelf,     \* records: sequence of [key, owner, state, size, lapsed]
    postBytes, \* storedResponseBytes
    post,      \* post -> [at, key, payload, awaits, answer]
    lapses,    \* records whose time has run out so far
    left       \* history: post -> how its record has gone, or "no"

postVars == <<shelf, postBytes, post, lapses, left>>

-----------------------------------------------------------------------------
Table == [shelf |-> shelf, total |-> postBytes, left |-> left]
Becomes(t) == shelf' = t.shelf /\ postBytes' = t.total /\ left' = t.left

SizeOf(rs) == SumFunction([r \in rs |-> r.size])

Held(t) == ToSet(t.shelf)

(* The records of a sequence that are in a set, in their order.             *)
Keep(rs, S) == FoldLeft(LAMBDA q, r : IF r \in S THEN Append(q, r) ELSE q, <<>>, rs)

(* deleteRecord for each of the owners. *)
Delete(t, owners, how) ==
    LET gone == {r \in Held(t) : r.owner \in owners}
        size == SizeOf(gone) IN
    [shelf |-> Keep(t.shelf, Held(t) \ gone),
     total |-> IF t.total > size THEN t.total - size ELSE 0,
     left  |-> [p \in Posts |-> IF \E r \in gone : r.owner = p THEN how ELSE t.left[p]]]

(* removeExpiredRecords *)
Unexpired == Delete(Table, {r.owner : r \in {x \in Held(Table) : x.lapsed}}, "lapsed")

(* What removeOldestCompletedRecord may remove, oldest first. *)
Completed(t) == Keep(t.shelf, {r \in Held(t) : r.state = "fulfilled"})

WithoutOldest(t, n) == Delete(t, {Completed(t)[i].owner : i \in 1..n}, "evicted")

Evictions(t) == 0..Len(Completed(t))

(* The loops around it: until there is enough room or nothing to remove.    *)
Evicted(t, enough) == WithoutOldest(t, Min(enough \cup {Len(Completed(t))}))

RoomForRecord(t) == Len(t.shelf) < MaxPostRecords
RoomForBytes(t, size) == t.total + size <= PostBudget

-----------------------------------------------------------------------------
(* executeInitialSearchIdempotently, up to its first await.  A post that    *)
(* finds a record is refused, replays its response, or waits for it.        *)
Joined(k, f, r) ==
    [key |-> k, payload |-> f, awaits |-> r.owner,
     at |-> IF r.payload = f /\ r.state = "pending" THEN "waiting" ELSE "done",
     answer |-> IF r.payload = f /\ r.state = "fulfilled" THEN r.owner ELSE NoPost]

Joins(p, k, f) ==
    \E r \in Held(Unexpired) :
        /\ r.key = k
        /\ post' = [post EXCEPT ![p] = Joined(k, f, r)]
        /\ Becomes(Unexpired)

Record(p, k, f) ==
    [key |-> k, owner |-> p, payload |-> f, state |-> "pending", size |-> 0, lapsed |-> FALSE]

(* reserveCapacity, and a record of its own.                                *)
Opens(p, k, f) ==
    LET t == Evicted(Unexpired,
                     {n \in Evictions(Unexpired) : RoomForRecord(WithoutOldest(Unexpired, n))})
        to(where) == [post EXCEPT ![p].key = k, ![p].payload = f, ![p].at = where] IN
    /\ \A r \in Held(Unexpired) : r.key # k
    /\ \/ RoomForRecord(t) /\ Becomes([t EXCEPT !.shelf = Append(@, Record(p, k, f))])
          /\ post' = to("executing")
       \/ ~RoomForRecord(t) /\ Becomes(t) /\ post' = to("done")

Arrives(p) ==
    /\ post[p].at = "new"
    /\ \E k \in PostKeys, f \in PostPayloads : Joins(p, k, f) \/ Opens(p, k, f)
    /\ UNCHANGED lapses

HasKey(p) == \E r \in Held(Table) : r.key = post[p].key

(* The record in the Map is still the one this post made. *)
HasOwnRecord(p) == \E r \in Held(Table) : r.owner = p

WithoutOwn(t, p) == Delete(t, {p}, "ended")

(* The snapshot of the response becomes the record's.                       *)
Completes(t, p, size) ==
    LET stored(r) == [r EXCEPT !.state = "fulfilled", !.size = size, !.lapsed = FALSE] IN
    [t EXCEPT !.total = @ + size,
              !.shelf = [i \in DOMAIN t.shelf |->
                            IF t.shelf[i].owner = p THEN stored(t.shelf[i]) ELSE t.shelf[i]]]

(* reserveResponseByteCapacity; a response that is too large by itself      *)
(* evicts nothing.                                                          *)
Stores(p, size) ==
    LET t == Evicted(Table,
                     {n \in Evictions(Table) : RoomForBytes(WithoutOldest(Table, n), size)}) IN
    IF ~HasOwnRecord(p) THEN Becomes(Table)
    ELSE IF size > PostBudget THEN Becomes(WithoutOwn(Table, p))
    ELSE Becomes(IF RoomForBytes(t, size) THEN Completes(t, p, size) ELSE WithoutOwn(t, p))

(* The promise settles for the post that executed and for all that wait.    *)
Settles(p, answer) ==
    post' = [q \in Posts |->
        IF q = p \/ (post[q].at = "waiting" /\ post[q].awaits = p)
        THEN [post[q] EXCEPT !.at = "done", !.answer = answer] ELSE post[q]]

(* execute() throws, returns a response that names no search, or one that   *)
(* is to be stored.                                                         *)
Ends(p) ==
    /\ post[p].at = "executing" /\ UNCHANGED lapses
    /\ \/ Becomes(WithoutOwn(Table, p)) /\ (Settles(p, NoPost) \/ Settles(p, p))
       \/ \E size \in PostSizes : Stores(p, size) /\ Settles(p, p)

(* The counts of records and of bytes sweep first. *)
CountsRecords == Unexpired # Table /\ Becomes(Unexpired) /\ UNCHANGED <<post, lapses>>

Lapses(i) ==
    /\ lapses < MaxLapses /\ lapses' = lapses + 1
    /\ ~shelf[i].lapsed /\ shelf' = [shelf EXCEPT ![i].lapsed = TRUE]
    /\ UNCHANGED <<postBytes, post, left>>

PostInit ==
    /\ shelf = <<>> /\ postBytes = 0 /\ lapses = 0
    /\ post = [p \in Posts |-> [at |-> "new", key |-> NoPost, payload |-> NoPost,
                                awaits |-> NoPost, answer |-> NoPost]]
    /\ left = [p \in Posts |-> "no"]

PostNext ==
    \/ \E p \in Posts : Arrives(p) \/ Ends(p)
    \/ \E i \in DOMAIN shelf : Lapses(i)
    \/ CountsRecords

PostSpec == PostInit /\ [][PostNext]_postVars

-----------------------------------------------------------------------------
Replied == {p \in Posts : post[p].at = "done" /\ post[p].answer # NoPost}

(* Both caps hold, and the total is the size of what is stored.             *)
BytesCounted ==
    /\ postBytes = SizeOf(Held(Table)) /\ postBytes <= PostBudget /\ Len(shelf) <= MaxPostRecords
    /\ \A r \in Held(Table) : r.state = "pending" <=> post[r.owner].at = "executing"

(* Two posts execute the search of one key only when the record of one of   *)
(* them has lapsed.                                                         *)
ExecutedOnce ==
    \A p, q \in Posts :
        p # q /\ post[p].at = "executing" /\ post[q].at = "executing" /\ post[p].key = post[q].key
        => "lapsed" \in {left[p], left[q]}

(* A post is answered with a search of its own payload, whatever happened   *)
(* to its record; while the records of a key stay, with one search.         *)
RepliesAgree ==
    \A p \in Replied :
        /\ post[post[p].answer].payload = post[p].payload /\ post[post[p].answer].key = post[p].key
        /\ \A q \in Replied :
              /\ post[q].key = post[p].key
              /\ \A o \in Posts : post[o].key = post[p].key => left[o] = "no"
              => post[q].answer = post[p].answer

(* A late result neither is counted without being stored nor takes the      *)
(* place of a newer record of its key, eviction takes no search that runs,  *)
(* and no request is answered with the search of another.                   *)
LocalSearchesShared == BytesCounted /\ ExecutedOnce /\ RepliesAgree
=============================================================================
