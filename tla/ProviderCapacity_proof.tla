------------------------ MODULE ProviderCapacity_proof ------------------------
(***************************************************************************)
(* Proofs about the provider capacity coordinator, for any operations,     *)
(* providers, tokens, limits, lease, rate limit, clock skew and number of  *)
(* faults.                                                                 *)
(***************************************************************************)
EXTENDS ProviderCapacity, FiniteSetTheorems, TLAPS

(* A running operation has a token of its own and a provider.  So has one   *)
(* that has ended while its last RENEW is on its way.                       *)
Named ==
    \A o \in Ops : phase[o] # "idle" \/ renewing[o] => tok[o] \in Tokens /\ prov[o] \in Providers

TokensApart == \A x, y \in Ops : tok[x] = tok[y] /\ tok[x] # None => x = y

Leased(t, p)  == t \in globalLeases \/ t \in providerLeases[p]
Waiting(t, p) == t \in globalWaiters \/ t \in providerWaiters[p]

(* Where the token of an operation is kept, by where the operation is.      *)
Placed(o) ==
    /\ phase[o] # "idle" =>
          \A p \in Providers : p # prov[o] => tok[o] \notin providerLeases[p] \cup providerWaiters[p]
    /\ phase[o] = "asking" => ~Leased(tok[o], prov[o])
    /\ phase[o] = "asking" /\ ~registered[o] => ~Waiting(tok[o], prov[o])
    /\ phase[o] \in {"holding", "releasing"} => ~Waiting(tok[o], prov[o])
    /\ Working(o) => tok[o] \in globalLeases /\ tok[o] \in providerLeases[prov[o]]

CapacityInv == CapacityTypeOK /\ Named /\ TokensApart /\ (\A o \in Ops : Placed(o))

-----------------------------------------------------------------------------
(* What a command does.                                                     *)
SetsTypeOK ==
    /\ globalLeases \subseteq Tokens /\ globalWaiters \subseteq Tokens
    /\ providerLeases \in [Providers -> SUBSET Tokens]
    /\ providerWaiters \in [Providers -> SUBSET Tokens]
    /\ leaseLeft \in [Tokens -> Nat] /\ waitLeft \in [Tokens -> Nat]
    /\ used \in [Providers -> 0..RateMax] /\ windowLeft \in [Providers -> Nat]

(* It puts u into no set of the provider q, into no lease set, *)
NotPut(u, q) ==
    /\ u \in providerLeases'[q] => u \in providerLeases[q]
    /\ u \in providerWaiters'[q] => u \in providerWaiters[q]

NotPutInLeases(u) == \A q \in Providers : u \in providerLeases'[q] => u \in providerLeases[q]

(* nor anywhere else; and if the lease of u runs on every clock, it did so  *)
(* before and is still where it was.                                        *)
Spares(u) ==
    /\ u \in globalLeases' => u \in globalLeases
    /\ u \in globalWaiters' => u \in globalWaiters
    /\ \A q \in Providers : NotPut(u, q)
    /\ leaseLeft'[u] > MaxSkew =>
          /\ leaseLeft[u] > MaxSkew
          /\ u \in globalLeases => u \in globalLeases'
          /\ \A q \in Providers : u \in providerLeases[q] => u \in providerLeases'[q]

(* A command for the token t and the provider p. *)
CommandFor(p, t) ==
    /\ SetsTypeOK'
    /\ \A u \in Tokens : u # t => Spares(u)
    /\ \A q \in Providers : q # p => NotPut(t, q)

LEMMA Numbers ==
    /\ GlobalLimit \in Nat /\ ProviderLimit \in Nat /\ LeaseTtl \in Nat /\ RateWindow \in Nat
    /\ RateMax \in Nat /\ MaxSkew \in Nat /\ MaxFaults \in Nat
BY LimitAssumption, DurationAssumption

LEMMA SweptTyped ==
  ASSUME NEW left, NEW s \in Skews, NEW S \in SUBSET Tokens
  PROVE  Swept(S, left, s) \subseteq S
BY DEF Swept

(* A sweep takes nothing whose lease runs on every clock. *)
LEMMA SweptSpares ==
  ASSUME SetsTypeOK, NEW s \in Skews, NEW S \in SUBSET Tokens, NEW u \in S, leaseLeft[u] > MaxSkew
  PROVE  u \in Swept(S, leaseLeft, s)
<1>1. leaseLeft[u] \in Nat /\ s \in Nat /\ s <= MaxSkew
  BY Numbers DEF SetsTypeOK, Skews
<1> QED BY <1>1, Numbers DEF Swept

LEMMA CountRequestTyped ==
  ASSUME SetsTypeOK, NEW p \in Providers, CountRequest(p), ~RateSpent(p)
  PROVE  used' \in [Providers -> 0..RateMax] /\ windowLeft' \in [Providers -> Nat]
<1>1. used[p] \in Nat
  BY Numbers DEF SetsTypeOK
<1>2. CASE RateMax = 0
  BY <1>2 DEF CountRequest, SetsTypeOK, rateVars
<1>3. CASE RateMax # 0
  <2>1. RateMax > 0 /\ used[p] < RateMax
    BY <1>3, <1>1, Numbers DEF RateSpent
  <2>2. used[p] + 1 \in 0..RateMax
    BY <2>1, <1>1, Numbers
  <2> QED BY <1>3, <2>2, Numbers DEF CountRequest, SetsTypeOK
<1> QED BY <1>2, <1>3

(* A sweep of the leases, or the waiters, of p on the way of adding some.   *)
LeasesSwept(p, added) ==
    /\ globalLeases' \subseteq Tokens /\ providerLeases' \in [Providers -> SUBSET Tokens]
    /\ \A q \in Providers : q # p => providerLeases'[q] = providerLeases[q]
    /\ added \subseteq globalLeases' /\ added \subseteq providerLeases'[p]
    /\ \A u \in globalLeases' : u \in globalLeases \/ u \in added
    /\ \A u \in providerLeases'[p] : u \in providerLeases[p] \/ u \in added
    /\ \A u \in globalLeases : leaseLeft[u] > MaxSkew => u \in globalLeases'
    /\ \A u \in providerLeases[p] : leaseLeft[u] > MaxSkew => u \in providerLeases'[p]

WaitersSwept(p, added, removed) ==
    /\ globalWaiters' \subseteq Tokens /\ providerWaiters' \in [Providers -> SUBSET Tokens]
    /\ \A q \in Providers : q # p => providerWaiters'[q] = providerWaiters[q]
    /\ \A u \in globalWaiters' : u \in globalWaiters \ removed \/ u \in added
    /\ \A u \in providerWaiters'[p] : u \in providerWaiters[p] \ removed \/ u \in added

LEMMA SweepLeasesDoes ==
  ASSUME SetsTypeOK, NEW p \in Providers, NEW s \in Skews, NEW added \in SUBSET Tokens, SweepLeases(p, s, added)
  PROVE  LeasesSwept(p, added)
<1> DEFINE G == Swept(globalLeases, leaseLeft, s)
           P == Swept(providerLeases[p], leaseLeft, s)
<1>1. G \subseteq globalLeases /\ P \subseteq providerLeases[p]
  BY DEF Swept
<1>2. /\ \A u \in globalLeases : leaseLeft[u] > MaxSkew => u \in G
      /\ \A u \in providerLeases[p] : leaseLeft[u] > MaxSkew => u \in P
  BY SweptSpares DEF SetsTypeOK
<1>3. globalLeases' = G \cup added /\ providerLeases' = [providerLeases EXCEPT ![p] = P \cup added]
  BY DEF SweepLeases
<1> HIDE DEF G, P
<1>4. providerLeases' \in [Providers -> SUBSET Tokens] /\ globalLeases' \subseteq Tokens
  BY <1>1, <1>3 DEF SetsTypeOK
<1>5. providerLeases'[p] = P \cup added /\ \A q \in Providers : q # p => providerLeases'[q] = providerLeases[q]
  BY <1>3 DEF SetsTypeOK
<1> QED BY <1>1, <1>2, <1>3, <1>4, <1>5 DEF LeasesSwept

LEMMA SweepWaitersDoes ==
  ASSUME SetsTypeOK, NEW p \in Providers, NEW s \in Skews, NEW added \in SUBSET Tokens,
         NEW removed \in SUBSET Tokens, SweepWaiters(p, s, added, removed)
  PROVE  WaitersSwept(p, added, removed)
<1> DEFINE G == Swept(globalWaiters, waitLeft, s)
           P == Swept(providerWaiters[p], waitLeft, s)
<1>1. G \subseteq globalWaiters /\ P \subseteq providerWaiters[p]
  BY DEF Swept
<1>2. /\ globalWaiters' = (G \ removed) \cup added
      /\ providerWaiters' = [providerWaiters EXCEPT ![p] = (P \ removed) \cup added]
  BY DEF SweepWaiters
<1> HIDE DEF G, P
<1>3. providerWaiters' \in [Providers -> SUBSET Tokens] /\ globalWaiters' \subseteq Tokens
  BY <1>1, <1>2 DEF SetsTypeOK
<1>4. /\ providerWaiters'[p] = (P \ removed) \cup added
      /\ \A q \in Providers : q # p => providerWaiters'[q] = providerWaiters[q]
  BY <1>2 DEF SetsTypeOK
<1> QED BY <1>1, <1>2, <1>3, <1>4 DEF WaitersSwept

LEMMA SweepsSpare ==
  ASSUME NEW p \in Providers, NEW t \in Tokens, NEW added \in SUBSET {t}, NEW put \in SUBSET {t}, NEW removed,
         LeasesSwept(p, added), WaitersSwept(p, put, removed),
         \A u \in Tokens : u # t => leaseLeft'[u] = leaseLeft[u]
  PROVE  (\A u \in Tokens : u # t => Spares(u)) /\ (\A q \in Providers : q # p => NotPut(t, q))
<1>1. \A q \in Providers : q # p => NotPut(t, q)
  BY DEF LeasesSwept, WaitersSwept, NotPut
<1>2. ASSUME NEW u \in Tokens, u # t PROVE Spares(u)
  <2>1. u \notin added /\ u \notin put
    BY <1>2
  <2>2. ASSUME NEW q \in Providers PROVE NotPut(u, q)
    <3>1. CASE q = p
      BY <2>1, <3>1 DEF LeasesSwept, WaitersSwept, NotPut
    <3>2. CASE q # p
      BY <3>2 DEF LeasesSwept, WaitersSwept, NotPut
    <3> QED BY <3>1, <3>2
  <2>3. (u \in globalLeases' => u \in globalLeases) /\ (u \in globalWaiters' => u \in globalWaiters)
    BY <2>1 DEF LeasesSwept, WaitersSwept
  <2>4. ASSUME leaseLeft'[u] > MaxSkew
        PROVE  /\ leaseLeft[u] > MaxSkew
               /\ u \in globalLeases => u \in globalLeases'
               /\ \A q \in Providers : u \in providerLeases[q] => u \in providerLeases'[q]
    <3>1. leaseLeft[u] > MaxSkew /\ (u \in globalLeases => u \in globalLeases')
      BY <1>2, <2>4 DEF LeasesSwept
    <3>2. ASSUME NEW q \in Providers, u \in providerLeases[q] PROVE u \in providerLeases'[q]
      BY <3>1, <3>2 DEF LeasesSwept
    <3> QED BY <3>1, <3>2
  <2> QED BY <2>2, <2>3, <2>4 DEF Spares
<1> QED BY <1>1, <1>2

(* ACQUIRE, whatever it answers; and what its answers mean for its token.   *)
LEMMA AcquireCommand ==
  ASSUME SetsTypeOK, NEW p \in Providers, NEW t \in Tokens, NEW s \in Skews, Acquire(p, t, s)
  PROVE  /\ CommandFor(p, t)
         /\ AcquireReply(p, t, s) = "acquired" =>
               /\ t \in globalLeases' /\ t \in providerLeases'[p]
               /\ t \notin globalWaiters' /\ t \notin providerWaiters'[p]
         /\ AcquireReply(p, t, s) # "acquired" =>
               (t \in globalLeases' => t \in globalLeases) /\ NotPutInLeases(t)
         /\ AcquireReply(p, t, s) = "rate-limited" =>
               t \notin globalWaiters' /\ t \notin providerWaiters'[p]
         /\ AcquireReply(p, t, s) = "queue-full" =>
               /\ t \in globalWaiters' => t \in globalWaiters
               /\ t \in providerWaiters'[p] => t \in providerWaiters[p]
         /\ AcquireReply(p, t, s) \in {"acquired", "rate-limited", "queue-full", "waiting"}
<1>0. s \in Nat /\ LeaseTtl + s \in Nat
  BY Numbers DEF Skews
<1>a. /\ {t} \in SUBSET Tokens /\ {} \in SUBSET Tokens
      /\ {t} \in SUBSET {t} /\ {} \in SUBSET {t}
  OBVIOUS
<1>1. CASE AcquireReply(p, t, s) = "acquired" /\ Acquired(p, t, s)
  <2>1. SweepLeases(p, s, {t}) /\ SweepWaiters(p, s, {}, {t})
    BY <1>1 DEF Acquired
  <2>2. LeasesSwept(p, {t}) /\ WaitersSwept(p, {}, {t})
    BY <1>a, <2>1, SweepLeasesDoes, SweepWaitersDoes
  <2>3. ~RateSpent(p)
    BY <1>1 DEF AcquireReply
  <2>4. used' \in [Providers -> 0..RateMax] /\ windowLeft' \in [Providers -> Nat]
    BY <1>1, <2>3, CountRequestTyped DEF Acquired
  <2>5. leaseLeft' \in [Tokens -> Nat] /\ waitLeft' \in [Tokens -> Nat]
    BY <1>0, <1>1 DEF Acquired, SetsTypeOK
  <2>6. \A u \in Tokens : u # t => leaseLeft'[u] = leaseLeft[u]
    BY <1>1 DEF Acquired, SetsTypeOK
  <2>7. SetsTypeOK'
    BY <2>2, <2>4, <2>5 DEF SetsTypeOK, LeasesSwept, WaitersSwept
  <2>8. CommandFor(p, t)
    BY <1>a, <2>2, <2>6, <2>7, SweepsSpare DEF CommandFor
  <2>9. t \in globalLeases' /\ t \in providerLeases'[p] /\ t \notin globalWaiters' /\ t \notin providerWaiters'[p]
    BY <2>2 DEF LeasesSwept, WaitersSwept
  <2> QED BY <1>1, <2>8, <2>9
<1>2. ASSUME NEW put \in SUBSET {t}, NEW removed \in SUBSET Tokens,
             SweepLeases(p, s, {}), SweepWaiters(p, s, put, removed),
             UNCHANGED <<leaseLeft, rateVars>>, waitLeft' \in [Tokens -> Nat]
      PROVE  /\ CommandFor(p, t) /\ (t \in globalLeases' => t \in globalLeases) /\ NotPutInLeases(t)
             /\ WaitersSwept(p, put, removed)
  <2>1. LeasesSwept(p, {}) /\ WaitersSwept(p, put, removed)
    BY <1>a, <1>2, SweepLeasesDoes, SweepWaitersDoes
  <2>2. SetsTypeOK'
    BY <1>2, <2>1 DEF SetsTypeOK, LeasesSwept, WaitersSwept, rateVars
  <2>3. CommandFor(p, t)
    BY <1>a, <1>2, <2>1, <2>2, SweepsSpare DEF CommandFor
  <2>4. (t \in globalLeases' => t \in globalLeases) /\ NotPutInLeases(t)
    BY <2>1 DEF LeasesSwept, NotPutInLeases
  <2> QED BY <2>1, <2>3, <2>4
<1>3. CASE AcquireReply(p, t, s) = "rate-limited" /\ RateLimited(p, t, s)
  <2>1. /\ SweepLeases(p, s, {}) /\ SweepWaiters(p, s, {}, {t}) /\ UNCHANGED <<leaseLeft, rateVars>>
        /\ waitLeft' \in [Tokens -> Nat]
    BY <1>3 DEF RateLimited, SetsTypeOK
  <2>2. /\ CommandFor(p, t) /\ (t \in globalLeases' => t \in globalLeases) /\ NotPutInLeases(t)
        /\ WaitersSwept(p, {}, {t})
    BY <1>a, <1>2, <2>1
  <2>3. t \notin globalWaiters' /\ t \notin providerWaiters'[p]
    BY <2>2 DEF WaitersSwept
  <2> QED BY <1>3, <2>2, <2>3
<1>4. CASE AcquireReply(p, t, s) = "queue-full" /\ QueueIsFull(p, s)
  <2>1. /\ SweepLeases(p, s, {}) /\ SweepWaiters(p, s, {}, {}) /\ UNCHANGED <<leaseLeft, rateVars>>
        /\ waitLeft' \in [Tokens -> Nat]
    BY <1>4 DEF QueueIsFull, SetsTypeOK
  <2>2. /\ CommandFor(p, t) /\ (t \in globalLeases' => t \in globalLeases) /\ NotPutInLeases(t)
        /\ WaitersSwept(p, {}, {})
    BY <1>a, <1>2, <2>1
  <2>3. /\ t \in globalWaiters' => t \in globalWaiters
        /\ t \in providerWaiters'[p] => t \in providerWaiters[p]
    BY <2>2 DEF WaitersSwept
  <2> QED BY <1>4, <2>2, <2>3
<1>5. CASE AcquireReply(p, t, s) = "waiting" /\ Waits(p, t, s)
  <2>1. /\ SweepLeases(p, s, {}) /\ SweepWaiters(p, s, {t}, {}) /\ UNCHANGED <<leaseLeft, rateVars>>
        /\ waitLeft' \in [Tokens -> Nat]
    BY <1>0, <1>5 DEF Waits, SetsTypeOK
  <2>2. CommandFor(p, t) /\ (t \in globalLeases' => t \in globalLeases) /\ NotPutInLeases(t)
    BY <1>a, <1>2, <2>1
  <2> QED BY <1>5, <2>2
<1> QED BY <1>1, <1>3, <1>4, <1>5 DEF Acquire

LEMMA OtherCommands ==
  ASSUME SetsTypeOK, NEW p \in Providers, NEW t \in Tokens
  PROVE  /\ \A s \in Skews : Renew(p, t, s) => CommandFor(p, t)
         /\ Release(p, t) => CommandFor(p, t)
         /\ RemoveWaiter(p, t) => CommandFor(p, t)
         /\ UNCHANGED storeVars => CommandFor(p, t)
<1>1. ASSUME NEW s \in Skews, Renew(p, t, s) PROVE CommandFor(p, t)
  <2>1. LeaseTtl + s \in Nat
    BY Numbers DEF Skews
  <2>2. SetsTypeOK' /\ \A u \in Tokens : u # t => leaseLeft'[u] = leaseLeft[u]
    BY <1>1, <2>1 DEF Renew, SetsTypeOK, waiterVars, rateVars
  <2> QED BY <1>1, <2>2 DEF Renew, CommandFor, Spares, NotPut, waiterVars
<1>2. ASSUME Release(p, t) PROVE CommandFor(p, t)
  <2>1. SetsTypeOK' /\ \A u \in Tokens : u # t => leaseLeft'[u] = leaseLeft[u]
    BY <1>2 DEF Release, SetsTypeOK, waiterVars, rateVars
  <2>2. \A q \in Providers : providerLeases'[q] = IF q = p THEN providerLeases[q] \ {t} ELSE providerLeases[q]
    BY <1>2 DEF Release, SetsTypeOK
  <2> QED BY <1>2, <2>1, <2>2 DEF Release, CommandFor, Spares, NotPut, waiterVars
<1>3. ASSUME RemoveWaiter(p, t) PROVE CommandFor(p, t)
  <2>1. SetsTypeOK'
    BY <1>3 DEF RemoveWaiter, SetsTypeOK, leaseVars, rateVars
  <2>2. \A q \in Providers : providerWaiters'[q] = IF q = p THEN providerWaiters[q] \ {t} ELSE providerWaiters[q]
    BY <1>3 DEF RemoveWaiter, SetsTypeOK
  <2> QED BY <1>3, <2>1, <2>2 DEF RemoveWaiter, CommandFor, Spares, NotPut, leaseVars
<1>4. ASSUME UNCHANGED storeVars PROVE CommandFor(p, t)
  BY <1>4 DEF SetsTypeOK, CommandFor, Spares, NotPut, storeVars, leaseVars, waiterVars, rateVars
<1> QED BY <1>1, <1>2, <1>3, <1>4

(* Nothing enters at a SNAPSHOT or with time. *)
LEMMA SnapshotSpares ==
  ASSUME SetsTypeOK, NEW s \in Skews, Snapshot(s)
  PROVE  SetsTypeOK' /\ \A u \in Tokens : Spares(u)
<1>1. PICK P \in SUBSET Providers :
        /\ providerLeases' = [p \in Providers |->
              IF p \in P THEN Swept(providerLeases[p], leaseLeft, s) ELSE providerLeases[p]]
        /\ providerWaiters' = [p \in Providers |->
              IF p \in P THEN Swept(providerWaiters[p], waitLeft, s) ELSE providerWaiters[p]]
  BY DEF Snapshot
<1>2. \A p \in Providers : /\ providerLeases'[p] \subseteq providerLeases[p]
                           /\ providerWaiters'[p] \subseteq providerWaiters[p]
  BY <1>1 DEF Swept
<1>3. globalLeases' = Swept(globalLeases, leaseLeft, s) /\ globalWaiters' = Swept(globalWaiters, waitLeft, s)
  BY DEF Snapshot
<1>4. globalLeases' \subseteq globalLeases /\ globalWaiters' \subseteq globalWaiters
  BY <1>3 DEF Swept
<1>5. UNCHANGED <<leaseLeft, waitLeft, used, windowLeft>>
  BY DEF Snapshot, rateVars
<1>6. SetsTypeOK'
  BY <1>1, <1>2, <1>4, <1>5 DEF SetsTypeOK
<1>7. \A u \in Tokens : leaseLeft[u] > MaxSkew =>
        /\ u \in globalLeases => u \in globalLeases'
        /\ \A q \in Providers : u \in providerLeases[q] => u \in providerLeases'[q]
  BY <1>1, <1>3, SweptSpares DEF SetsTypeOK
<1> QED BY <1>2, <1>4, <1>5, <1>6, <1>7 DEF Spares, NotPut

LEMMA TickSpares ==
  ASSUME SetsTypeOK, Tick
  PROVE  SetsTypeOK' /\ \A u \in Tokens : Spares(u)
<1>1. /\ \A t \in Tokens : Sooner(leaseLeft[t]) \in Nat /\ Sooner(leaseLeft[t]) <= leaseLeft[t]
      /\ \A t \in Tokens : Sooner(waitLeft[t]) \in Nat
      /\ \A p \in Providers : Sooner(windowLeft[p]) \in Nat
  BY DEF SetsTypeOK, Sooner
<1>2. SetsTypeOK'
  BY <1>1, Numbers DEF SetsTypeOK, Tick
<1>3. \A u \in Tokens : leaseLeft[u] \in Nat /\ leaseLeft'[u] \in Nat /\ leaseLeft'[u] <= leaseLeft[u]
  BY <1>1 DEF SetsTypeOK, Tick
<1> QED BY <1>2, <1>3, Numbers DEF Tick, Spares, NotPut

-----------------------------------------------------------------------------
(* What a step of an operation does to the operations. *)
OpsTypeOK ==
    /\ phase \in [Ops -> {"idle", "asking", "leaving", "holding", "releasing"}]
    /\ prov \in [Ops -> Providers \cup {None}]
    /\ tok \in [Ops -> Tokens \cup {None}]
    /\ registered \in [Ops -> BOOLEAN] /\ renewing \in [Ops -> BOOLEAN]

OthersStay(o) ==
    \A x \in Ops : x # o => /\ phase'[x] = phase[x] /\ prov'[x] = prov[x] /\ tok'[x] = tok[x]
                            /\ registered'[x] = registered[x] /\ renewing'[x] = renewing[x]

(* An operation that goes on keeps its token and its provider. *)
KeepsName(o) ==
    /\ tok'[o] \in {tok[o], None}
    /\ phase'[o] # "idle" => phase[o] # "idle" /\ tok'[o] = tok[o] /\ prov'[o] = prov[o]
    /\ renewing'[o] => (phase[o] # "idle" \/ renewing[o]) /\ tok'[o] = tok[o] /\ prov'[o] = prov[o]

Moves(o) == OpsTypeOK' /\ OthersStay(o) /\ KeepsName(o)

LEMMA EndsMoves ==
  ASSUME OpsTypeOK, NEW o \in Ops, Ends(o), phase[o] # "idle"
  PROVE  Moves(o) /\ phase'[o] = "idle"
<1>1. OpsTypeOK'
  BY DEF Ends, Goes, OpsTypeOK
<1>2. OthersStay(o)
  BY DEF Ends, Goes, OpsTypeOK, OthersStay
<1>3. phase'[o] = "idle" /\ KeepsName(o)
  BY DEF Ends, Goes, OpsTypeOK, KeepsName
<1> QED BY <1>1, <1>2, <1>3 DEF Moves

LEMMA QuitsMoves ==
  ASSUME OpsTypeOK, NEW o \in Ops, Quits(o), phase[o] # "idle"
  PROVE  /\ Moves(o)
         /\ \/ phase'[o] = "leaving" /\ registered[o]
            \/ phase'[o] = "idle" /\ ~registered[o]
<1>1. CASE registered[o] /\ Goes(o, "leaving") /\ UNCHANGED <<prov, tok, registered, renewing>>
  <2>1. OpsTypeOK' /\ OthersStay(o)
    BY <1>1 DEF Goes, OpsTypeOK, OthersStay
  <2>2. phase'[o] = "leaving" /\ KeepsName(o)
    BY <1>1 DEF Goes, OpsTypeOK, KeepsName
  <2> QED BY <1>1, <2>1, <2>2 DEF Moves
<1>2. CASE ~registered[o] /\ Ends(o)
  BY <1>2, EndsMoves
<1> QED BY <1>1, <1>2 DEF Quits

LEMMA SettlesMoves ==
  ASSUME OpsTypeOK, NEW o \in Ops, NEW lost \in BOOLEAN, Settles(o, lost), renewing[o]
  PROVE  /\ Moves(o)
         /\ phase'[o] = IF lost /\ phase[o] = "holding" THEN "releasing" ELSE phase[o]
         /\ registered'[o] = registered[o]
<1>1. phase'[o] = IF lost /\ phase[o] = "holding" THEN "releasing" ELSE phase[o]
  BY DEF Settles, Goes, OpsTypeOK
<1>2. OpsTypeOK'
  BY DEF Settles, Goes, OpsTypeOK
<1>3. OthersStay(o)
  BY DEF Settles, Goes, OpsTypeOK, OthersStay
<1>4. KeepsName(o)
  BY <1>1 DEF Settles, OpsTypeOK, KeepsName
<1> QED BY <1>1, <1>2, <1>3, <1>4 DEF Moves, Settles

(* The other operations stay where they are, and so do their tokens. *)
LEMMA OthersPlaced ==
  ASSUME CapacityInv, NEW o \in Ops, OthersStay(o), \A u \in Tokens : u # tok[o] => Spares(u),
         NEW x \in Ops, x # o
  PROVE  Placed(x)'
<1>1. /\ phase'[x] = phase[x] /\ prov'[x] = prov[x] /\ tok'[x] = tok[x]
      /\ registered'[x] = registered[x]
  BY DEF OthersStay
<1>2. CASE phase[x] = "idle"
  BY <1>1, <1>2 DEF Placed, Working
<1>3. CASE phase[x] # "idle"
  <2>1. tok[x] \in Tokens /\ prov[x] \in Providers /\ tok[x] # None
    BY <1>3, TokensAssumption DEF CapacityInv, Named
  <2>2. tok[x] # tok[o]
    BY <2>1 DEF CapacityInv, TokensApart
  <2>3. Spares(tok[x])
    BY <2>1, <2>2
  <2>4. Placed(x)
    BY DEF CapacityInv
  <2> QED BY <1>1, <1>3, <2>1, <2>3, <2>4 DEF Placed, Spares, NotPut, Leased, Waiting, Working
<1> QED BY <1>2, <1>3

LEMMA NamesKept ==
  ASSUME CapacityInv, NEW o \in Ops, Moves(o)
  PROVE  Named' /\ TokensApart'
<1>1. ASSUME NEW x \in Ops, phase'[x] # "idle" \/ renewing'[x]
      PROVE  tok'[x] \in Tokens /\ prov'[x] \in Providers
  BY <1>1 DEF CapacityInv, Named, Moves, OthersStay, KeepsName
<1>2. ASSUME NEW x \in Ops, NEW y \in Ops, tok'[x] = tok'[y], tok'[x] # None PROVE x = y
  <2>1. tok'[x] = tok[x] /\ tok'[y] = tok[y]
    BY <1>2 DEF Moves, OthersStay, KeepsName
  <2> QED BY <1>2, <2>1 DEF CapacityInv, TokensApart
<1> QED BY <1>1, <1>2 DEF Named, TokensApart

LEMMA TypesSplit == CapacityTypeOK <=> SetsTypeOK /\ OpsTypeOK /\ faults \in 0..MaxFaults
BY DEF CapacityTypeOK, SetsTypeOK, OpsTypeOK

LEMMA Faulty ==
  ASSUME CapacityInv, UNCHANGED faults \/ Fault
  PROVE  faults' \in 0..MaxFaults
BY Numbers DEF CapacityInv, CapacityTypeOK, Fault

(* A command of o for its token, and a step of o that keeps its name. *)
LEMMA OpKeepsInv ==
  ASSUME CapacityInv, NEW o \in Ops, Moves(o), CommandFor(prov[o], tok[o]),
         UNCHANGED faults \/ Fault, Placed(o)'
  PROVE  CapacityInv'
<1>1. \A u \in Tokens : u # tok[o] => Spares(u)
  BY DEF CommandFor
<1>2. \A x \in Ops : Placed(x)'
  BY <1>1, OthersPlaced DEF Moves
<1>3. CapacityTypeOK'
  BY TypesSplit, Faulty DEF Moves, CommandFor, SetsTypeOK, OpsTypeOK, CapacityTypeOK
<1> QED BY <1>2, <1>3, NamesKept DEF CapacityInv

(* An operation that leaves or has ended is bound to little. *)
LEMMA LeavingPlaced ==
  ASSUME CapacityInv, NEW o \in Ops, Moves(o), CommandFor(prov[o], tok[o]), phase'[o] \in {"idle", "leaving"}
  PROVE  Placed(o)'
<1>1. CASE phase'[o] = "idle"
  BY <1>1 DEF Placed, Working
<1>2. CASE phase'[o] = "leaving"
  <2>1. phase[o] # "idle" /\ tok'[o] = tok[o] /\ prov'[o] = prov[o]
    BY <1>2 DEF Moves, KeepsName
  <2>2. \A p \in Providers : p # prov[o] => tok[o] \notin providerLeases[p] \cup providerWaiters[p]
    BY <2>1 DEF CapacityInv, Placed
  <2>3. \A p \in Providers : p # prov[o] => tok[o] \notin providerLeases'[p] \cup providerWaiters'[p]
    BY <2>2 DEF CommandFor, NotPut
  <2> QED BY <1>2, <2>1, <2>3 DEF Placed, Working
<1> QED BY <1>1, <1>2

-----------------------------------------------------------------------------
(* The members that no release is going to take out: the orphans, and the   *)
(* leases of operations that do not know of them, because the reply of the  *)
(* ACQUIRE was lost, and will only leave the queue.                         *)
InLeases(u) == u \in globalLeases \/ \E p \in Providers : u \in providerLeases[p]
InQueues(u) == u \in globalWaiters \/ \E p \in Providers : u \in providerWaiters[p]

Lost == {u \in Tokens :
    \/ (InLeases(u) \/ InQueues(u)) /\ \A x \in Ops : phase[x] # "idle" => tok[x] # u
    \/ InLeases(u) /\ \E x \in Ops : phase[x] = "leaving" /\ tok[x] = u}

(* A step of o loses at most its own token, and only a fault does so. *)
LosesByFault(o) ==
    /\ Lost' \subseteq Lost \cup {tok[o]}
    /\ Fault \/ (UNCHANGED faults /\ Lost' \subseteq Lost)

LEMMA OthersNotLost ==
  ASSUME CapacityInv, NEW o \in Ops, Moves(o), CommandFor(prov[o], tok[o])
  PROVE  Lost' \subseteq Lost \cup {tok[o]}
<1> SUFFICES ASSUME NEW u \in Tokens, u \in Lost', u # tok[o] PROVE u \in Lost
  BY DEF Lost
<1>1. Spares(u)
  BY DEF CommandFor
<1>2. (InLeases(u)' => InLeases(u)) /\ (InQueues(u)' => InQueues(u))
  BY <1>1 DEF Spares, NotPut, InLeases, InQueues
<1>3. u # tok'[o]
  BY TokensAssumption DEF Moves, KeepsName
<1>4. \A x \in Ops : tok[x] = u \/ tok'[x] = u => phase'[x] = phase[x] /\ tok'[x] = tok[x]
  BY <1>3 DEF Moves, OthersStay
<1>5. CASE InLeases(u)' /\ \E x \in Ops : phase'[x] = "leaving" /\ tok'[x] = u
  BY <1>2, <1>4, <1>5 DEF Lost
<1>6. CASE (InLeases(u) \/ InQueues(u))' /\ \A x \in Ops : phase'[x] # "idle" => tok'[x] # u
  BY <1>2, <1>4, <1>6 DEF Lost
<1> QED BY <1>5, <1>6 DEF Lost

(* What keeps a token from being lost. *)
LEMMA NotLost ==
  ASSUME CapacityInv, NEW o \in Ops, NEW t \in Tokens, t = tok[o],
         Moves(o), CommandFor(prov[o], tok[o]),
         \/ phase'[o] \notin {"idle", "leaving"}
         \/ phase'[o] = "leaving" /\ ~InLeases(t)'
         \/ ~InLeases(t)' /\ ~InQueues(t)'
  PROVE  Lost' \subseteq Lost
<1>1. Lost' \subseteq Lost \cup {tok[o]}
  BY OthersNotLost
<1>2. t \notin Lost'
  <2>1. TokensApart' /\ t # None
    BY NamesKept, TokensAssumption
  <2>2. CASE phase'[o] \notin {"idle", "leaving"}
    <3>1. tok'[o] = t
      BY <2>2 DEF Moves, KeepsName
    <3>2. \A x \in Ops : tok'[x] = t => x = o
      BY <2>1, <3>1 DEF TokensApart
    <3> QED BY <2>2, <3>1, <3>2 DEF Lost
  <2>3. CASE phase'[o] = "leaving" /\ ~InLeases(t)'
    <3>1. tok'[o] = t
      BY <2>3 DEF Moves, KeepsName
    <3> QED BY <2>3, <3>1 DEF Lost, InLeases
  <2>4. CASE ~InLeases(t)' /\ ~InQueues(t)'
    BY <2>4 DEF Lost, InLeases, InQueues
  <2> QED BY <2>2, <2>3, <2>4
<1> QED BY <1>1, <1>2

(* A token is kept nowhere when it is in no set of its provider and in no   *)
(* global one.                                                              *)
LEMMA OnlyThere ==
  ASSUME CapacityInv, NEW o \in Ops, NEW t \in Tokens, t = tok[o], NEW p \in Providers, p = prov[o],
         CommandFor(p, t), phase[o] # "idle"
  PROVE  /\ ~Leased(t, p)' => ~InLeases(t)'
         /\ ~Waiting(t, p)' => ~InQueues(t)'
<1>1. \A q \in Providers : q # p => t \notin providerLeases[q] \cup providerWaiters[q]
  BY DEF CapacityInv, Placed
<1>2. \A q \in Providers : q # p => t \notin providerLeases'[q] \cup providerWaiters'[q]
  BY <1>1 DEF CommandFor, NotPut
<1> QED BY <1>2 DEF Leased, Waiting, InLeases, InQueues

OpGood(o) == CapacityInv' /\ LosesByFault(o)

(* A fault may do with the token of o what it likes. *)
LEMMA FaultGood ==
  ASSUME CapacityInv, NEW o \in Ops, Moves(o), CommandFor(prov[o], tok[o]), Fault,
         phase'[o] \in {"idle", "leaving"}
  PROVE  OpGood(o)
BY LeavingPlaced, OpKeepsInv, OthersNotLost DEF OpGood, LosesByFault

LEMMA StartGood ==
  ASSUME CapacityInv, NEW o \in Ops, Start(o)
  PROVE  OpGood(o)
<1>1. PICK p \in Providers, t \in Tokens \ (InSets \cup {tok[x] : x \in Ops}) :
        prov' = [prov EXCEPT ![o] = p] /\ tok' = [tok EXCEPT ![o] = t]
  BY DEF Start
<1>2. phase[o] = "idle" /\ phase' = [phase EXCEPT ![o] = "asking"] /\ ~renewing[o]
      /\ UNCHANGED <<registered, renewing, faults>> /\ UNCHANGED storeVars
  BY DEF Start, Goes
<1>3. SetsTypeOK /\ OpsTypeOK /\ faults \in 0..MaxFaults
  BY TypesSplit DEF CapacityInv
<1>4. OpsTypeOK' /\ OthersStay(o) /\ phase'[o] = "asking" /\ tok'[o] = t /\ prov'[o] = p
  BY <1>1, <1>2, <1>3 DEF OpsTypeOK, OthersStay
<1>5. SetsTypeOK' /\ \A u \in Tokens : Spares(u)
  BY <1>2, <1>3 DEF SetsTypeOK, Spares, NotPut, storeVars, leaseVars, waiterVars, rateVars
<1>6. UNCHANGED <<globalLeases, globalWaiters, providerLeases, providerWaiters>>
  BY <1>2 DEF storeVars, leaseVars, waiterVars
<1>7. ~InLeases(t) /\ ~InQueues(t)
  BY <1>1 DEF InSets, InLeases, InQueues
<1>8. Placed(o)'
  BY <1>4, <1>6, <1>7 DEF Placed, Working, Leased, Waiting, InLeases, InQueues
<1>9. \A x \in Ops : Placed(x)'
  BY <1>4, <1>5, <1>8, OthersPlaced
<1>10. CapacityTypeOK'
  BY <1>2, <1>3, <1>4, <1>5 DEF CapacityTypeOK, SetsTypeOK, OpsTypeOK
<1>11. \A x \in Ops : tok[x] # t
  BY <1>1
<1>12. Named' /\ TokensApart'
  BY <1>1, <1>2, <1>4, <1>11 DEF OthersStay, CapacityInv, Named, TokensApart
<1>13. Lost' \subseteq Lost
  <2> SUFFICES ASSUME NEW u \in Tokens, u \in Lost' PROVE u \in Lost
    BY DEF Lost
  <2>1. InLeases(u)' = InLeases(u) /\ InQueues(u)' = InQueues(u)
    BY <1>6 DEF InLeases, InQueues
  <2>2. \A x \in Ops : x # o => phase'[x] = phase[x] /\ tok'[x] = tok[x]
    BY <1>4 DEF OthersStay
  <2> QED BY <1>2, <1>4, <2>1, <2>2 DEF Lost
<1> QED BY <1>2, <1>9, <1>10, <1>12, <1>13 DEF CapacityInv, OpGood, LosesByFault

LEMMA AskGood ==
  ASSUME CapacityInv, NEW o \in Ops, Ask(o)
  PROVE  OpGood(o)
<1>1. PICK t \in Tokens, p \in Providers : t = tok[o] /\ p = prov[o]
  BY DEF Ask, CapacityInv, Named
<1>2. phase[o] = "asking" /\ SetsTypeOK /\ OpsTypeOK /\ Placed(o)
  BY TypesSplit DEF Ask, CapacityInv
<1>3. ~Leased(t, p) /\ (~registered[o] => ~Waiting(t, p))
      /\ \A q \in Providers : q # p => t \notin providerLeases[q] \cup providerWaiters[q]
  BY <1>1, <1>2 DEF Placed
<1>4. ASSUME CommandFor(p, t), Fault, Quits(o) PROVE OpGood(o)
  BY <1>1, <1>2, <1>4, QuitsMoves, FaultGood
<1>5. CASE UNCHANGED storeVars /\ Fault /\ Quits(o)
  BY <1>1, <1>2, <1>4, <1>5, OtherCommands
<1>6. ASSUME NEW s \in Skews, Acquire(p, t, s), Answered(o, AcquireReply(p, t, s)), UNCHANGED faults
      PROVE  OpGood(o)
  <2> DEFINE reply == AcquireReply(p, t, s)
  <2>1. CommandFor(p, t)
    BY <1>2, <1>6, AcquireCommand
  <2>2. /\ reply = "acquired" => /\ t \in globalLeases' /\ t \in providerLeases'[p] /\ ~Waiting(t, p)'
        /\ reply # "acquired" => ~Leased(t, p)'
        /\ reply = "rate-limited" => ~Waiting(t, p)'
        /\ reply = "queue-full" /\ ~registered[o] => ~Waiting(t, p)'
        /\ reply \in {"acquired", "rate-limited", "queue-full", "waiting"}
    BY <1>2, <1>3, <1>6, AcquireCommand DEF Leased, Waiting, NotPutInLeases
  <2>3. \A q \in Providers : q # p => t \notin providerLeases'[q] \cup providerWaiters'[q]
    BY <1>3, <2>1 DEF CommandFor, NotPut
  <2>4. Answered(o, reply)
    BY <1>6
  <2> HIDE DEF reply
  <2>5. CASE reply = "acquired"
    <3>1. Goes(o, "holding") /\ registered' = [registered EXCEPT ![o] = FALSE] /\ UNCHANGED <<prov, tok, renewing>>
      BY <2>4, <2>5 DEF Answered
    <3>2. Moves(o) /\ phase'[o] = "holding" /\ tok'[o] = t /\ prov'[o] = p
      BY <1>1, <1>2, <3>1 DEF Goes, OpsTypeOK, Moves, OthersStay, KeepsName
    <3>3. Placed(o)'
      BY <2>2, <2>3, <2>5, <3>2 DEF Placed, Working
    <3>4. CapacityInv'
      BY <1>1, <1>6, <2>1, <3>2, <3>3, OpKeepsInv
    <3> QED BY <1>1, <1>6, <2>1, <3>2, <3>4, NotLost DEF OpGood, LosesByFault
  <2>6. CASE reply = "rate-limited"
    <3>1. Moves(o) /\ phase'[o] = "idle"
      BY <1>2, <2>4, <2>6, EndsMoves DEF Answered
    <3>2. CapacityInv'
      BY <1>1, <1>6, <2>1, <3>1, LeavingPlaced, OpKeepsInv
    <3>3. ~InLeases(t)' /\ ~InQueues(t)'
      BY <1>1, <1>2, <2>1, <2>2, <2>6, OnlyThere
    <3> QED BY <1>1, <1>6, <2>1, <3>1, <3>2, <3>3, NotLost DEF OpGood, LosesByFault
  <2>7. CASE reply = "queue-full"
    <3>1. Moves(o) /\ (phase'[o] = "leaving" \/ (phase'[o] = "idle" /\ ~registered[o]))
      BY <1>2, <2>4, <2>7, QuitsMoves DEF Answered
    <3>2. CapacityInv'
      BY <1>1, <1>6, <2>1, <3>1, LeavingPlaced, OpKeepsInv
    <3>3. ~InLeases(t)' /\ (~registered[o] => ~InQueues(t)')
      BY <1>1, <1>2, <2>1, <2>2, <2>7, OnlyThere
    <3> QED BY <1>1, <1>6, <2>1, <3>1, <3>2, <3>3, NotLost DEF OpGood, LosesByFault
  <2>8. CASE reply = "waiting"
    <3>1. registered' = [registered EXCEPT ![o] = TRUE] /\ UNCHANGED <<phase, prov, tok, renewing>>
      BY <2>4, <2>8 DEF Answered
    <3>2. Moves(o) /\ phase'[o] = "asking" /\ registered'[o] /\ tok'[o] = t /\ prov'[o] = p
      BY <1>1, <1>2, <3>1 DEF OpsTypeOK, Moves, OthersStay, KeepsName
    <3>3. Placed(o)'
      BY <2>2, <2>3, <2>8, <3>2 DEF Placed, Working
    <3>4. CapacityInv'
      BY <1>1, <1>6, <2>1, <3>2, <3>3, OpKeepsInv
    <3> QED BY <1>1, <1>6, <2>1, <3>2, <3>4, NotLost DEF OpGood, LosesByFault
  <2> QED BY <2>2, <2>5, <2>6, <2>7, <2>8
<1>7. ASSUME NEW s \in Skews, Acquire(p, t, s), Fault, Quits(o) PROVE OpGood(o)
  BY <1>2, <1>4, <1>7, AcquireCommand
<1> QED BY <1>1, <1>5, <1>6, <1>7 DEF Ask

LEMMA AbortGood ==
  ASSUME CapacityInv, NEW o \in Ops, Abort(o)
  PROVE  OpGood(o)
<1>1. PICK t \in Tokens, p \in Providers : t = tok[o] /\ p = prov[o]
  BY DEF Abort, CapacityInv, Named
<1>2. phase[o] = "asking" /\ SetsTypeOK /\ OpsTypeOK /\ Placed(o)
  BY TypesSplit DEF Abort, CapacityInv
<1>3. Moves(o) /\ (phase'[o] = "leaving" \/ (phase'[o] = "idle" /\ ~registered[o])) /\ UNCHANGED <<storeVars, faults>>
  BY <1>2, QuitsMoves DEF Abort
<1>4. CommandFor(p, t)
  BY <1>2, <1>3, OtherCommands
<1>5. CapacityInv'
  BY <1>1, <1>3, <1>4, LeavingPlaced, OpKeepsInv
<1>6. ~Leased(t, p)' /\ (~registered[o] => ~Waiting(t, p)')
  BY <1>1, <1>2, <1>3 DEF Placed, Leased, Waiting, storeVars, leaseVars, waiterVars
<1>7. ~InLeases(t)' /\ (~registered[o] => ~InQueues(t)')
  BY <1>1, <1>2, <1>4, <1>6, OnlyThere
<1> QED BY <1>1, <1>3, <1>4, <1>5, <1>7, NotLost DEF OpGood, LosesByFault

LEMMA LeaveGood ==
  ASSUME CapacityInv, NEW o \in Ops, Leave(o)
  PROVE  OpGood(o)
<1>1. PICK t \in Tokens, p \in Providers : t = tok[o] /\ p = prov[o]
  BY DEF Leave, CapacityInv, Named
<1>2. phase[o] = "leaving" /\ Ends(o) /\ SetsTypeOK /\ OpsTypeOK
  BY TypesSplit DEF Leave, CapacityInv
<1>3. Moves(o) /\ phase'[o] = "idle"
  BY <1>2, EndsMoves
<1>4. CASE RemoveWaiter(p, t) /\ UNCHANGED faults
  <2>1. CommandFor(p, t)
    BY <1>2, <1>4, OtherCommands
  <2>2. CapacityInv'
    BY <1>1, <1>3, <1>4, <2>1, LeavingPlaced, OpKeepsInv
  <2>3. ~Waiting(t, p)' /\ (InLeases(t)' <=> InLeases(t))
    BY <1>2, <1>4 DEF RemoveWaiter, SetsTypeOK, Waiting, InLeases, leaseVars
  <2>4. ~InQueues(t)'
    BY <1>1, <1>2, <2>1, <2>3, OnlyThere
  <2>5. CASE InLeases(t)
    <3>1. t \in Lost
      BY <1>1, <1>2, <2>5 DEF Lost
    <3> QED BY <1>1, <1>3, <1>4, <2>1, <2>2, <3>1, OthersNotLost DEF OpGood, LosesByFault
  <2>6. CASE ~InLeases(t)
    BY <1>1, <1>3, <1>4, <2>1, <2>2, <2>3, <2>4, <2>6, NotLost DEF OpGood, LosesByFault
  <2> QED BY <2>5, <2>6
<1>5. CASE (RemoveWaiter(p, t) \/ UNCHANGED storeVars) /\ Fault
  <2>1. CommandFor(p, t)
    BY <1>2, <1>5, OtherCommands
  <2> QED BY <1>1, <1>3, <1>5, <2>1, FaultGood
<1> QED BY <1>1, <1>4, <1>5 DEF Leave

LEMMA ReleaseGood ==
  ASSUME CapacityInv, NEW o \in Ops, ReleaseStep(o)
  PROVE  OpGood(o)
<1>1. PICK t \in Tokens, p \in Providers : t = tok[o] /\ p = prov[o]
  BY DEF ReleaseStep, CapacityInv, Named
<1>2. phase[o] = "releasing" /\ Ends(o) /\ SetsTypeOK /\ OpsTypeOK /\ Placed(o)
  BY TypesSplit DEF ReleaseStep, CapacityInv
<1>3. Moves(o) /\ phase'[o] = "idle"
  BY <1>2, EndsMoves
<1>4. CASE Release(p, t) /\ UNCHANGED faults
  <2>1. CommandFor(p, t)
    BY <1>2, <1>4, OtherCommands
  <2>2. CapacityInv'
    BY <1>1, <1>3, <1>4, <2>1, LeavingPlaced, OpKeepsInv
  <2>3. ~Leased(t, p)'
    BY <1>2, <1>4 DEF Release, SetsTypeOK, Leased
  <2>4. ~Waiting(t, p)'
    BY <1>1, <1>2, <1>4 DEF Release, Placed, Waiting, waiterVars
  <2>5. ~InLeases(t)' /\ ~InQueues(t)'
    BY <1>1, <1>2, <2>1, <2>3, <2>4, OnlyThere
  <2> QED BY <1>1, <1>3, <1>4, <2>1, <2>2, <2>5, NotLost DEF OpGood, LosesByFault
<1>5. CASE (Release(p, t) \/ UNCHANGED storeVars) /\ Fault
  <2>1. CommandFor(p, t)
    BY <1>2, <1>5, OtherCommands
  <2> QED BY <1>1, <1>3, <1>5, <2>1, FaultGood
<1> QED BY <1>1, <1>4, <1>5 DEF ReleaseStep

(* A step that leaves all sets and all places alone loses nothing. *)
LEMMA SameNotLost ==
  ASSUME CapacityInv, NEW o \in Ops, Moves(o),
         UNCHANGED <<globalLeases, providerLeases, globalWaiters, providerWaiters>>,
         \/ phase'[o] = phase[o]
         \/ phase[o] = "holding" /\ phase'[o] = "releasing"
  PROVE  Lost' \subseteq Lost
<1> SUFFICES ASSUME NEW u \in Tokens, u \in Lost' PROVE u \in Lost
  BY DEF Lost
<1>1. InLeases(u)' = InLeases(u) /\ InQueues(u)' = InQueues(u)
  BY DEF InLeases, InQueues
<1>2. \A x \in Ops : x # o => phase'[x] = phase[x] /\ tok'[x] = tok[x]
  BY DEF Moves, OthersStay
<1>3. phase'[o] # "idle" => tok'[o] = tok[o]
  BY DEF Moves, KeepsName
<1>4. \A x \in Ops : /\ phase'[x] = "idle" <=> phase[x] = "idle"
                     /\ phase'[x] = "leaving" <=> phase[x] = "leaving"
                     /\ phase'[x] # "idle" => tok'[x] = tok[x]
  BY <1>2, <1>3
<1> QED BY <1>1, <1>4 DEF Lost

LEMMA DoneGood ==
  ASSUME CapacityInv, NEW o \in Ops, Done(o) \/ RenewSend(o)
  PROVE  OpGood(o)
<1>1. PICK t \in Tokens, p \in Providers : t = tok[o] /\ p = prov[o]
  BY DEF Done, RenewSend, CapacityInv, Named
<1>2. phase[o] = "holding" /\ SetsTypeOK /\ OpsTypeOK /\ Placed(o) /\ UNCHANGED <<storeVars, faults>>
  BY TypesSplit DEF Done, RenewSend, CapacityInv
<1>3. Moves(o) /\ phase'[o] \in {"holding", "releasing"} /\ tok'[o] = t /\ prov'[o] = p
  <2>1. OpsTypeOK' /\ OthersStay(o) /\ UNCHANGED <<tok, prov>>
    BY <1>2 DEF Done, RenewSend, Goes, OpsTypeOK, OthersStay
  <2>2. phase'[o] \in {"holding", "releasing"}
    BY <1>2 DEF Done, RenewSend, Goes, OpsTypeOK
  <2> QED BY <1>1, <1>2, <2>1, <2>2 DEF Moves, KeepsName
<1>4. CommandFor(p, t)
  BY <1>2, OtherCommands
<1>5. UNCHANGED <<globalLeases, providerLeases, globalWaiters, providerWaiters, leaseLeft>>
  BY <1>2 DEF storeVars, leaseVars, waiterVars
<1>6. Placed(o)'
  BY <1>1, <1>2, <1>3, <1>5 DEF Placed, Working, Leased, Waiting
<1>7. CapacityInv'
  BY <1>1, <1>2, <1>3, <1>4, <1>6, OpKeepsInv
<1> QED BY <1>2, <1>3, <1>5, <1>7, SameNotLost DEF OpGood, LosesByFault

(* A RENEW is never the way back into a set: a late one finds its token     *)
(* gone and changes nothing.                                                *)
LEMMA RenewGood ==
  ASSUME CapacityInv, NEW o \in Ops, RenewStep(o)
  PROVE  OpGood(o)
<1>1. PICK t \in Tokens, p \in Providers : t = tok[o] /\ p = prov[o]
  BY DEF RenewStep, CapacityInv, Named
<1>2. renewing[o] /\ SetsTypeOK /\ OpsTypeOK /\ Placed(o)
  BY TypesSplit DEF RenewStep, CapacityInv
<1>3. PICK lost \in BOOLEAN : Settles(o, lost) /\ (Fault \/ UNCHANGED faults)
  BY DEF RenewStep, Renewable
<1>4. \/ UNCHANGED storeVars
      \/ \E s \in Skews : Renew(p, t, s)
  BY <1>1 DEF RenewStep
<1>5. CommandFor(p, t)
  BY <1>2, <1>4, OtherCommands
<1>6. UNCHANGED <<globalLeases, providerLeases, globalWaiters, providerWaiters>>
  BY <1>4 DEF Renew, storeVars, leaseVars, waiterVars
<1>7. leaseLeft'[t] = leaseLeft[t] \/ Renewable(p, t)
  BY <1>4 DEF Renew, storeVars, leaseVars
<1>8. /\ Moves(o)
      /\ phase'[o] = IF lost /\ phase[o] = "holding" THEN "releasing" ELSE phase[o]
      /\ registered'[o] = registered[o]
  BY <1>2, <1>3, SettlesMoves
<1>9. Placed(o)'
  <2>1. CASE phase'[o] = "idle"
    BY <2>1 DEF Placed, Working
  <2>2. CASE phase'[o] # "idle"
    <3>1. tok'[o] = t /\ prov'[o] = p /\ phase[o] # "idle"
      BY <1>1, <1>8, <2>2 DEF Moves, KeepsName
    <3>2. /\ \A q \in Providers : q # p => t \notin providerLeases'[q] \cup providerWaiters'[q]
          /\ phase'[o] = "asking" => ~Leased(t, p)'
          /\ phase'[o] = "asking" /\ ~registered'[o] => ~Waiting(t, p)'
          /\ phase'[o] \in {"holding", "releasing"} => ~Waiting(t, p)'
      BY <1>1, <1>2, <1>6, <1>8, <3>1 DEF Placed, Leased, Waiting
    <3>3. phase'[o] = "holding" /\ leaseLeft'[t] > MaxSkew => t \in globalLeases' /\ t \in providerLeases'[p]
      BY <1>1, <1>2, <1>6, <1>7, <1>8 DEF Placed, Working, Renewable
    <3> QED BY <3>1, <3>2, <3>3 DEF Placed, Working
  <2> QED BY <2>1, <2>2
<1>10. CapacityInv'
  BY <1>1, <1>3, <1>5, <1>8, <1>9, OpKeepsInv
<1>11. Lost' \subseteq Lost
  BY <1>6, <1>8, SameNotLost
<1> QED BY <1>3, <1>10, <1>11 DEF OpGood, LosesByFault

LEMMA CrashGood ==
  ASSUME CapacityInv, NEW o \in Ops, Crash(o)
  PROVE  OpGood(o)
<1>1. PICK t \in Tokens, p \in Providers : t = tok[o] /\ p = prov[o]
  BY DEF Crash, CapacityInv, Named
<1>2. phase[o] # "idle" /\ SetsTypeOK /\ OpsTypeOK /\ UNCHANGED storeVars /\ Fault
  BY TypesSplit DEF Crash, CapacityInv
<1>3. OpsTypeOK' /\ OthersStay(o)
  BY <1>2 DEF Crash, Goes, OpsTypeOK, OthersStay
<1>4. phase'[o] = "idle" /\ KeepsName(o)
  BY <1>2 DEF Crash, Goes, OpsTypeOK, KeepsName
<1>5. CommandFor(p, t)
  BY <1>2, OtherCommands
<1> QED BY <1>1, <1>2, <1>3, <1>4, <1>5, FaultGood DEF Moves

(* Snapshots and time move no operation. *)
LEMMA ServerGood ==
  ASSUME CapacityInv, (\E s \in Skews : Snapshot(s)) \/ Tick
  PROVE  CapacityInv' /\ UNCHANGED faults /\ Lost' \subseteq Lost
<1>1. SetsTypeOK /\ OpsTypeOK /\ faults \in 0..MaxFaults
  BY TypesSplit DEF CapacityInv
<1>2. SetsTypeOK' /\ (\A u \in Tokens : Spares(u)) /\ UNCHANGED <<opVars, faults>>
  BY <1>1, SnapshotSpares, TickSpares DEF Snapshot, Tick
<1>3. UNCHANGED <<phase, prov, tok, registered, renewing, faults>>
  BY <1>2 DEF opVars
<1>4. CapacityTypeOK'
  BY <1>1, <1>2, <1>3 DEF CapacityTypeOK, SetsTypeOK, OpsTypeOK
<1>5. Named' /\ TokensApart'
  BY <1>3 DEF CapacityInv, Named, TokensApart
<1>6. ASSUME NEW x \in Ops PROVE Placed(x)'
  <2>1. CASE phase[x] = "idle"
    BY <1>3, <2>1 DEF Placed, Working
  <2>2. CASE phase[x] # "idle"
    <3>1. tok[x] \in Tokens /\ prov[x] \in Providers /\ Placed(x)
      BY <2>2 DEF CapacityInv, Named
    <3>2. Spares(tok[x])
      BY <1>2, <3>1
    <3> QED BY <1>3, <3>1, <3>2 DEF Placed, Spares, NotPut, Leased, Waiting, Working
  <2> QED BY <2>1, <2>2
<1>7. ASSUME NEW u \in Tokens, u \in Lost' PROVE u \in Lost
  <2>1. (InLeases(u)' => InLeases(u)) /\ (InQueues(u)' => InQueues(u))
    BY <1>2 DEF Spares, NotPut, InLeases, InQueues
  <2> QED BY <1>3, <1>7, <2>1 DEF Lost
<1>8. Lost' \subseteq Lost
  BY <1>7 DEF Lost
<1> QED BY <1>3, <1>4, <1>5, <1>6, <1>8 DEF CapacityInv

LEMMA OpStepGood == ASSUME CapacityInv, NEW o \in Ops, OpStep(o) PROVE OpGood(o)
BY StartGood, AskGood, AbortGood, LeaveGood, DoneGood, ReleaseGood, RenewGood, CrashGood DEF OpStep

LEMMA InitCapacityInv == CapacityInit => CapacityInv
<1> SUFFICES ASSUME CapacityInit PROVE CapacityInv
  OBVIOUS
<1>1. CapacityTypeOK
  BY Numbers DEF CapacityInit, CapacityTypeOK
<1>2. Named /\ TokensApart /\ \A o \in Ops : Placed(o)
  BY DEF CapacityInit, Named, TokensApart, Placed, Working
<1> QED BY <1>1, <1>2 DEF CapacityInv

LEMMA StutterCapacityInv == CapacityInv /\ UNCHANGED vars => CapacityInv' /\ Lost' = Lost
<1> SUFFICES ASSUME CapacityInv, UNCHANGED vars PROVE CapacityInv' /\ Lost' = Lost
  OBVIOUS
<1>1. UNCHANGED <<globalLeases, providerLeases, leaseLeft, globalWaiters, providerWaiters, waitLeft,
                  used, windowLeft, phase, prov, tok, registered, renewing, faults>>
  BY DEF vars, storeVars, leaseVars, waiterVars, rateVars, opVars
<1> QED BY <1>1 DEF CapacityInv, CapacityTypeOK, Named, TokensApart, Placed, Leased, Waiting, Working,
                    Lost, InLeases, InQueues

LEMMA StepCapacityInv == CapacityInv /\ [CapacityNext]_vars => CapacityInv'
BY OpStepGood, ServerGood, StutterCapacityInv DEF CapacityNext, OpGood

(* The inductive invariant: the types, tokens that are apart, and for every *)
(* operation where its token is and is not kept.                            *)
THEOREM CapacityAlways == CapacitySpec => []CapacityInv
BY InitCapacityInv, StepCapacityInv, PTL DEF CapacitySpec

(* Sets, scores, counters and operations hold what the code puts there; in  *)
(* particular the rate counter never passes maxRequests.                    *)
THEOREM CapacityTyped == CapacitySpec => []CapacityTypeOK
<1>1. CapacityInv => CapacityTypeOK
  BY DEF CapacityInv
<1> QED BY <1>1, CapacityAlways, PTL

-----------------------------------------------------------------------------
(* A step adds at most the token of a lost command, reply or operation.     *)
LostPerFault == Cardinality(Lost) <= faults

LEMMA LostFinite == IsFiniteSet(Lost) /\ Cardinality(Lost) \in Nat
<1>1. Lost \subseteq Tokens
  BY DEF Lost
<1> QED BY <1>1, TokensAssumption, FS_Subset, FS_CardinalityType

LEMMA NoMoreLost ==
  ASSUME CapacityInv, LostPerFault, UNCHANGED faults, Lost' \subseteq Lost
  PROVE  LostPerFault'
<1> DEFINE L == Lost
           M == Lost'
<1>1. IsFiniteSet(L) /\ M \subseteq L
  BY LostFinite
<1>2. Cardinality(M) <= Cardinality(L) /\ Cardinality(M) \in Nat /\ Cardinality(L) \in Nat
  <2> HIDE DEF L, M
  <2> QED BY <1>1, FS_Subset, FS_CardinalityType
<1> QED BY <1>2 DEF LostPerFault, CapacityInv, CapacityTypeOK

LEMMA OneMoreLost ==
  ASSUME CapacityInv, LostPerFault, Fault, NEW t, Lost' \subseteq Lost \cup {t}
  PROVE  LostPerFault'
<1> DEFINE L == Lost
           M == Lost'
<1>1. IsFiniteSet(L) /\ M \subseteq L \cup {t}
  BY LostFinite
<1>2. /\ Cardinality(M) \in Nat /\ Cardinality(L) \in Nat
      /\ Cardinality(M) <= Cardinality(L) + 1
  <2> HIDE DEF L, M
  <2>0. Cardinality(L) \in Nat
    BY <1>1, FS_CardinalityType
  <2>1. IsFiniteSet(L \cup {t}) /\ Cardinality(L \cup {t}) <= Cardinality(L) + 1
    <3>1. /\ IsFiniteSet(L \cup {t})
          /\ Cardinality(L \cup {t}) = IF t \in L THEN Cardinality(L) ELSE Cardinality(L) + 1
      BY <1>1, FS_AddElement
    <3> QED BY <2>0, <3>1
  <2>2. IsFiniteSet(M) /\ Cardinality(M) <= Cardinality(L \cup {t})
    BY <1>1, <2>1, FS_Subset
  <2>3. Cardinality(M) \in Nat /\ Cardinality(L \cup {t}) \in Nat
    BY <2>1, <2>2, FS_CardinalityType
  <2> QED BY <2>0, <2>1, <2>2, <2>3
<1>3. faults \in Nat /\ faults' = faults + 1
  BY Numbers DEF Fault, CapacityInv, CapacityTypeOK
<1> QED BY <1>2, <1>3 DEF LostPerFault

LEMMA StepLostPerFault ==
  ASSUME CapacityInv, LostPerFault, [CapacityNext]_vars
  PROVE  LostPerFault'
<1>1. CASE \E o \in Ops : OpStep(o)
  <2>1. PICK o \in Ops : OpGood(o)
    BY <1>1, OpStepGood
  <2>2. PICK t : t = tok[o]
    OBVIOUS
  <2> QED BY <2>1, <2>2, NoMoreLost, OneMoreLost DEF OpGood, LosesByFault
<1>2. CASE (\E s \in Skews : Snapshot(s)) \/ Tick
  BY <1>2, ServerGood, NoMoreLost
<1>3. CASE UNCHANGED vars
  BY <1>3, StutterCapacityInv, NoMoreLost DEF vars
<1> QED BY <1>1, <1>2, <1>3 DEF CapacityNext

LEMMA InitLost == CapacityInit => LostPerFault
<1> SUFFICES ASSUME CapacityInit PROVE LostPerFault
  OBVIOUS
<1>1. Lost = {}
  BY DEF CapacityInit, Lost, InLeases, InQueues
<1> QED BY <1>1, FS_EmptySet DEF LostPerFault, CapacityInit

LEMMA OrphansLost ==
  ASSUME CapacityInv, LostPerFault
  PROVE  LeakPerFault
<1>1. Orphans \subseteq Lost
  BY DEF Orphans, InSets, Lost, InLeases, InQueues, CapacityInv, CapacityTypeOK
<1>2. Cardinality(Orphans) <= Cardinality(Lost) /\ Cardinality(Orphans) \in Nat
  BY <1>1, LostFinite, FS_Subset, FS_CardinalityType
<1> QED BY <1>2, LostFinite DEF LostPerFault, LeakPerFault, CapacityInv, CapacityTypeOK

(* Every path out of an operation gives back its lease and its place in the *)
(* queue: each orphan is paid for by a lost command, a lost reply or a      *)
(* crash, also one that comes to light only when its operation ends.        *)
THEOREM PlacesGivenBack == CapacitySpec => []LeakPerFault
<1>1. CapacityInv /\ LostPerFault /\ [CapacityNext]_vars => LostPerFault'
  BY StepLostPerFault
<1>2. CapacityInv /\ LostPerFault => LeakPerFault
  BY OrphansLost
<1> QED BY <1>1, <1>2, InitLost, CapacityAlways, PTL DEF CapacitySpec

-----------------------------------------------------------------------------
(* The lease sets as semaphores. *)
SemaphoresStep ==
    /\ GlobalSemaphore!SemaphoreNext
    /\ \A p \in Providers : ProviderSemaphore(p)!SemaphoreNext

(* The Cardinality of an instance is that of the standard module. *)
LEMMA SameCardinality ==
  /\ \A S : GlobalSemaphore!Cardinality(S) = Cardinality(S)
  /\ \A p, S : ProviderSemaphore(p)!Cardinality(S) = Cardinality(S)
<1>1. ASSUME NEW S PROVE GlobalSemaphore!Cardinality(S) = Cardinality(S)
  BY DEF GlobalSemaphore!Cardinality, Cardinality
<1>2. ASSUME NEW p, NEW S PROVE ProviderSemaphore(p)!Cardinality(S) = Cardinality(S)
  BY DEF ProviderSemaphore!Cardinality, Cardinality
<1> QED BY <1>1, <1>2

(* Owners that only leave. *)
LEMMA Vacates ==
  ASSUME globalLeases' \subseteq globalLeases,
         \A p \in Providers : providerLeases'[p] \subseteq providerLeases[p]
  PROVE  SemaphoresStep
<1>1. GlobalSemaphore!SemaphoreNext
  <2> DEFINE gone == globalLeases \ globalLeases'
  <2>1. gone \in SUBSET globalLeases /\ globalLeases' = globalLeases \ gone
    OBVIOUS
  <2> QED BY <2>1 DEF GlobalSemaphore!SemaphoreNext, GlobalSemaphore!Vacate
<1>2. ASSUME NEW p \in Providers PROVE ProviderSemaphore(p)!SemaphoreNext
  <2> DEFINE gone == providerLeases[p] \ providerLeases'[p]
  <2>1. gone \in SUBSET providerLeases[p] /\ providerLeases'[p] = providerLeases[p] \ gone
    BY <1>2
  <2> QED BY <2>1 DEF ProviderSemaphore!SemaphoreNext, ProviderSemaphore!Vacate
<1> QED BY <1>1, <1>2 DEF SemaphoresStep

(* One owner enters the global set and the set of a provider, each of them  *)
(* with room left by the sweep.                                             *)
LEMMA Occupies ==
  ASSUME NEW p \in Providers, NEW t \in Tokens, NEW s \in Skews, SetsTypeOK,
         Room(p, s), SweepLeases(p, s, {t})
  PROVE  SemaphoresStep
<1> DEFINE G == Swept(globalLeases, leaseLeft, s)
           P == Swept(providerLeases[p], leaseLeft, s)
<1>1. G \subseteq globalLeases /\ P \subseteq providerLeases[p]
  BY DEF Swept
<1>2. Cardinality(G) < GlobalLimit /\ Cardinality(P) < ProviderLimit
  BY DEF Room
<1>3. globalLeases' = G \cup {t} /\ providerLeases' = [providerLeases EXCEPT ![p] = P \cup {t}]
  BY DEF SweepLeases
<1> HIDE DEF G, P
<1>4. GlobalSemaphore!SemaphoreNext
  <2> DEFINE gone == globalLeases \ G
  <2>1. gone \in SUBSET globalLeases /\ globalLeases \ gone = G
    BY <1>1
  <2>2. GlobalSemaphore!Occupy(gone, t)
    BY <1>2, <1>3, <2>1, SameCardinality DEF GlobalSemaphore!Occupy
  <2> QED BY <2>1, <2>2 DEF GlobalSemaphore!SemaphoreNext
<1>5. ASSUME NEW q \in Providers PROVE ProviderSemaphore(q)!SemaphoreNext
  <2>1. CASE q = p
    <3> DEFINE gone == providerLeases[q] \ P
    <3>1. gone \in SUBSET providerLeases[q] /\ providerLeases[q] \ gone = P /\ providerLeases'[q] = P \cup {t}
      BY <1>1, <1>3, <2>1 DEF SetsTypeOK
    <3>2. ProviderSemaphore(q)!Occupy(gone, t)
      BY <1>2, <3>1, SameCardinality DEF ProviderSemaphore!Occupy
    <3> QED BY <3>1, <3>2 DEF ProviderSemaphore!SemaphoreNext
  <2>2. CASE q # p
    <3>1. providerLeases'[q] = providerLeases[q] \ {} /\ {} \in SUBSET providerLeases[q]
      BY <1>3, <2>2 DEF SetsTypeOK
    <3> QED BY <3>1 DEF ProviderSemaphore!SemaphoreNext, ProviderSemaphore!Vacate
  <2> QED BY <2>1, <2>2
<1> QED BY <1>4, <1>5 DEF SemaphoresStep

LEMMA AcquireIsStep ==
  ASSUME SetsTypeOK, NEW p \in Providers, NEW t \in Tokens, NEW s \in Skews, Acquire(p, t, s)
  PROVE  SemaphoresStep
<1>1. CASE AcquireReply(p, t, s) = "acquired" /\ Acquired(p, t, s)
  <2>1. Room(p, s)
    BY <1>1 DEF AcquireReply
  <2> QED BY <1>1, <2>1, Occupies DEF Acquired
<1>2. CASE SweepLeases(p, s, {})
  BY <1>2, Vacates DEF SweepLeases, Swept, SetsTypeOK
<1> QED BY <1>1, <1>2 DEF Acquire, RateLimited, QueueIsFull, Waits

LEMMA StayIsStep ==
  ASSUME UNCHANGED <<globalLeases, providerLeases>>
  PROVE  SemaphoresStep
BY Vacates

LEMMA EveryStep ==
  ASSUME CapacityInv, [CapacityNext]_vars
  PROVE  SemaphoresStep
<1>1. SetsTypeOK
  BY TypesSplit DEF CapacityInv
<1>2. ASSUME NEW o \in Ops, Ask(o) PROVE SemaphoresStep
  <2>1. PICK t \in Tokens, p \in Providers : t = tok[o] /\ p = prov[o]
    BY <1>2 DEF Ask, CapacityInv, Named
  <2>2. UNCHANGED storeVars \/ \E s \in Skews : Acquire(p, t, s)
    BY <1>2, <2>1 DEF Ask
  <2> QED BY <1>1, <2>2, AcquireIsStep, StayIsStep DEF storeVars, leaseVars
<1>3. ASSUME NEW o \in Ops, ReleaseStep(o) PROVE SemaphoresStep
  <2>1. CASE Release(prov[o], tok[o])
    <3>1. globalLeases' \subseteq globalLeases /\ \A p \in Providers : providerLeases'[p] \subseteq providerLeases[p]
      BY <1>1, <2>1 DEF Release, SetsTypeOK
    <3> QED BY <3>1, Vacates
  <2>2. CASE UNCHANGED storeVars
    BY <2>2, StayIsStep DEF storeVars, leaseVars
  <2> QED BY <1>3, <2>1, <2>2 DEF ReleaseStep
<1>4. ASSUME NEW o \in Ops, RenewStep(o) PROVE SemaphoresStep
  BY <1>4, StayIsStep DEF RenewStep, Renew, storeVars, leaseVars
<1>5. ASSUME NEW o \in Ops, Leave(o) PROVE SemaphoresStep
  BY <1>5, StayIsStep DEF Leave, RemoveWaiter, storeVars, leaseVars
<1>6. ASSUME NEW o \in Ops, Start(o) \/ Abort(o) \/ Done(o) \/ RenewSend(o) \/ Crash(o) PROVE SemaphoresStep
  BY <1>6, StayIsStep DEF Start, Abort, Done, RenewSend, Crash, storeVars, leaseVars
<1>7. ASSUME (\E s \in Skews : Snapshot(s)) \/ Tick PROVE SemaphoresStep
  <2>1. /\ \A u \in globalLeases' : u \in globalLeases
        /\ \A p \in Providers : \A u \in providerLeases'[p] : u \in providerLeases[p]
    <3>1. SetsTypeOK' /\ \A u \in Tokens : Spares(u)
      BY <1>1, <1>7, SnapshotSpares, TickSpares
    <3> QED BY <3>1 DEF SetsTypeOK, Spares, NotPut
  <2> QED BY <2>1, Vacates
<1>8. CASE UNCHANGED vars
  BY <1>8, StayIsStep DEF vars, storeVars, leaseVars
<1> QED BY <1>2, <1>3, <1>4, <1>5, <1>6, <1>7, <1>8 DEF CapacityNext, OpStep

(* Refinement: every step of the coordinator, with skewed sweeps, late      *)
(* renewals, lost replies and crashes, is a step of the semaphore of the    *)
(* global limit and of the semaphore of each provider.                      *)
THEOREM EntersOnlyWithRoom == CapacitySpec => EntersWithRoom
<1>1. CapacityInv /\ [CapacityNext]_vars => [SemaphoresStep]_vars
  BY EveryStep
<1>2. CapacitySpec => [][SemaphoresStep]_vars
  BY <1>1, CapacityAlways, PTL DEF CapacitySpec
<1> QED BY <1>2 DEF EntersWithRoom, SemaphoresStep

-----------------------------------------------------------------------------
(* What a semaphore promises: it never has more owners than its limit. *)
SetsWithin ==
    /\ Cardinality(globalLeases) <= GlobalLimit
    /\ \A p \in Providers : Cardinality(providerLeases[p]) <= ProviderLimit

LEMMA OneMoreFits ==
  ASSUME NEW limit \in Nat, NEW S, IsFiniteSet(S), NEW t, Cardinality(S) < limit
  PROVE  Cardinality(S \cup {t}) <= limit
<1>1. Cardinality(S) \in Nat /\ Cardinality(S \cup {t}) = IF t \in S THEN Cardinality(S) ELSE Cardinality(S) + 1
  BY FS_AddElement, FS_CardinalityType
<1> QED BY <1>1

LEMMA FewerFit ==
  ASSUME NEW limit \in Nat, NEW S, IsFiniteSet(S), NEW R \in SUBSET S, Cardinality(S) <= limit
  PROVE  Cardinality(R) <= limit /\ IsFiniteSet(R)
<1>1. IsFiniteSet(R) /\ Cardinality(R) <= Cardinality(S)
  BY FS_Subset
<1>2. Cardinality(R) \in Nat /\ Cardinality(S) \in Nat
  BY <1>1, FS_CardinalityType
<1> QED BY <1>1, <1>2

LEMMA LeasesFinite ==
  ASSUME CapacityInv
  PROVE  IsFiniteSet(globalLeases) /\ \A p \in Providers : IsFiniteSet(providerLeases[p])
BY TokensAssumption, FS_Subset DEF CapacityInv, CapacityTypeOK

LEMMA StepSetsWithin ==
  ASSUME CapacityInv, SetsWithin, SemaphoresStep
  PROVE  SetsWithin'
<1>1. Cardinality(globalLeases') <= GlobalLimit
  <2>1. PICK gone \in SUBSET globalLeases :
          GlobalSemaphore!Vacate(gone) \/ \E t \in Tokens : GlobalSemaphore!Occupy(gone, t)
    BY DEF SemaphoresStep, GlobalSemaphore!SemaphoreNext
  <2>2. IsFiniteSet(globalLeases \ gone) /\ Cardinality(globalLeases \ gone) <= GlobalLimit
    BY LeasesFinite, FewerFit, Numbers DEF SetsWithin
  <2>3. CASE GlobalSemaphore!Vacate(gone)
    BY <2>2, <2>3 DEF GlobalSemaphore!Vacate
  <2>4. CASE \E t \in Tokens : GlobalSemaphore!Occupy(gone, t)
    BY <2>2, <2>4, OneMoreFits, SameCardinality, Numbers DEF GlobalSemaphore!Occupy
  <2> QED BY <2>1, <2>3, <2>4
<1>2. ASSUME NEW p \in Providers PROVE Cardinality(providerLeases'[p]) <= ProviderLimit
  <2>1. PICK gone \in SUBSET providerLeases[p] :
          ProviderSemaphore(p)!Vacate(gone) \/ \E t \in Tokens : ProviderSemaphore(p)!Occupy(gone, t)
    BY DEF SemaphoresStep, ProviderSemaphore!SemaphoreNext
  <2>2. IsFiniteSet(providerLeases[p] \ gone) /\ Cardinality(providerLeases[p] \ gone) <= ProviderLimit
    BY LeasesFinite, FewerFit, Numbers DEF SetsWithin
  <2>3. CASE ProviderSemaphore(p)!Vacate(gone)
    BY <2>2, <2>3 DEF ProviderSemaphore!Vacate
  <2>4. CASE \E t \in Tokens : ProviderSemaphore(p)!Occupy(gone, t)
    BY <2>2, <2>4, OneMoreFits, SameCardinality, Numbers DEF ProviderSemaphore!Occupy
  <2> QED BY <2>1, <2>3, <2>4
<1> QED BY <1>1, <1>2 DEF SetsWithin

LEMMA InitSetsWithin == CapacityInit => SetsWithin
BY FS_EmptySet, Numbers DEF CapacityInit, SetsWithin

(* Operations with a token each in a set are no more than its members.      *)
LEMMA NoMoreThanMembers ==
  ASSUME CapacityInv, NEW W \in SUBSET Ops, NEW S \in SUBSET Tokens, NEW limit \in Nat,
         \A o \in W : tok[o] \in S, Cardinality(S) <= limit
  PROVE  Cardinality(W) <= limit
<1> DEFINE f == [o \in W |-> tok[o]]
<1>1. IsFiniteSet(S) /\ Cardinality(S) \in Nat
  BY TokensAssumption, FS_Subset, FS_CardinalityType
<1>2. \A x, y \in W : tok[x] = tok[y] => x = y
  BY TokensAssumption DEF CapacityInv, TokensApart
<1>3. f \in Injection(W, S)
  BY <1>2 DEF Injection, IsInjective
<1>4. IsFiniteSet(W) /\ Cardinality(W) <= Cardinality(S)
  BY <1>1, <1>3, FS_Injection
<1>5. Cardinality(W) \in Nat
  BY <1>4, FS_CardinalityType
<1> QED BY <1>1, <1>4, <1>5

LEMMA WorkingWithin ==
  ASSUME CapacityInv, SetsWithin
  PROVE  LimitsHold
<1>1. \A o \in Ops : Working(o) => tok[o] \in globalLeases /\ tok[o] \in providerLeases[prov[o]]
  BY DEF CapacityInv, Placed
<1>2. globalLeases \in SUBSET Tokens /\ \A p \in Providers : providerLeases[p] \in SUBSET Tokens
  BY DEF CapacityInv, CapacityTypeOK
<1>3. Cardinality({o \in Ops : Working(o)}) <= GlobalLimit
  <2> DEFINE W == {o \in Ops : Working(o)}
  <2>1. W \in SUBSET Ops /\ \A o \in W : tok[o] \in globalLeases
    BY <1>1
  <2> HIDE DEF W
  <2>2. Cardinality(W) <= GlobalLimit
    BY <1>2, <2>1, NoMoreThanMembers, Numbers DEF SetsWithin
  <2> QED BY <2>2 DEF W
<1>4. ASSUME NEW p \in Providers PROVE Cardinality({o \in Ops : Working(o) /\ prov[o] = p}) <= ProviderLimit
  <2> DEFINE W == {o \in Ops : Working(o) /\ prov[o] = p}
  <2>1. W \in SUBSET Ops /\ \A o \in W : tok[o] \in providerLeases[p]
    BY <1>1
  <2> HIDE DEF W
  <2>2. Cardinality(W) <= ProviderLimit
    BY <1>2, <2>1, NoMoreThanMembers, Numbers DEF SetsWithin
  <2> QED BY <2>2 DEF W
<1> QED BY <1>3, <1>4 DEF LimitsHold

(* The operations whose lease runs on every clock stay within the global    *)
(* limit and within the limit of each provider.                             *)
THEOREM LimitsAlwaysHold == CapacitySpec => []LimitsHold
<1>1. CapacityInv /\ SetsWithin /\ [CapacityNext]_vars => SetsWithin'
  BY EveryStep, StepSetsWithin
<1>2. CapacityInv /\ SetsWithin => LimitsHold
  BY WorkingWithin
<1> QED BY <1>1, <1>2, InitSetsWithin, CapacityAlways, PTL DEF CapacitySpec
=============================================================================
