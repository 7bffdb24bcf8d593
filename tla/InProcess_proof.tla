--------------------------- MODULE InProcess_proof ---------------------------
(***************************************************************************)
(* Proofs about the stores of a single process: the capacity of providers, *)
(* for any operations, providers and limits; and the idempotency of        *)
(* searches, for any posts, keys, payloads, sizes and limits, and any      *)
(* number of records whose time runs out.  The two share no state.         *)
(*                                                                         *)
(* A drain of the queue and a pass over the Map are folds over a sequence. *)
(* What a fold comes to is proved position by position: if it were not so, *)
(* there would be a first position at which it is not.                     *)
(***************************************************************************)
EXTENDS LocalCapacity, LocalIdempotency, FiniteSums

(***************************** Folds over sequences *************************)
(* A fold from the left over q, whose steps are the entries of the table    *)
(* op: what it has come to is known by the set of positions it has passed.  *)
Passed(g, q, base, op, s) == IF s = {} THEN base ELSE op[<<g[s \ {Max(s)}], q[Max(s)]>>]

FoldsOver(g, A, q, base, op) ==
    g \in [SUBSET (1..Len(q)) -> A] /\ \A s \in SUBSET (1..Len(q)) : g[s] = Passed(g, q, base, op, s)

Tabled(A, B, q, base, op) == q \in Seq(B) /\ base \in A /\ op \in [A \X B -> A]

(* I takes the same steps.                                                  *)
Follows(I, A, q, base, op) ==
    \A s \in SUBSET (1..Len(q)) :
       /\ s = {} => I[s] = base
       /\ s # {} /\ I[s \ {Max(s)}] \in A => I[s] = op[<<I[s \ {Max(s)}], q[Max(s)]>>]

(* The fold position by position.                                           *)
RunsOver(h, A, q, base, op) ==
    /\ h \in [0..Len(q) -> A] /\ h[0] = base
    /\ \A i \in 1..Len(q) : h[i] = op[<<h[i - 1], q[i]>>]

(* Some positions have a last one, and the others come before it.           *)
LEMMA LastPosition ==
  ASSUME NEW i \in Nat, NEW s \in SUBSET (1..i), s # {}
  PROVE  /\ Max(s) \in s /\ Max(s) \in 1..i
         /\ s \ {Max(s)} \in SUBSET (1..(Max(s) - 1)) /\ s \ {Max(s)} \in SUBSET (1..(i - 1))
<1> DEFINE T == {i - x : x \in s}
<1>1. T \in SUBSET Nat /\ T # {}
  <2>1. \A x \in s : x \in 1..i /\ i - x \in Nat
    OBVIOUS
  <2> QED BY <2>1
<1>2. PICK m \in T : \A k \in T : m <= k
  <2> HIDE DEF T
  <2> QED BY <1>1, LeastNumber
<1>3. PICK x \in s : m = i - x
  BY <1>2
<1>4. \A y \in s : x >= y
  <2> SUFFICES ASSUME NEW y \in s PROVE x >= y
    OBVIOUS
  <2>1. m <= i - y
    BY <1>2
  <2> QED BY <1>3, <2>1
<1>5. Max(s) \in s /\ \A y \in s : Max(s) >= y
  BY <1>4 DEF Max
<1>6. Max(s) \in 1..i
  BY <1>5
<1>7. ASSUME NEW y \in s, y # Max(s) PROVE y \in 1..(Max(s) - 1) /\ y \in 1..(i - 1)
  <2>1. y \in 1..i /\ Max(s) >= y
    BY <1>5
  <2> QED BY <1>6, <1>7, <2>1
<1> QED BY <1>5, <1>6, <1>7

LEMMA LastOfFirst ==
  ASSUME NEW i \in Nat \ {0}
  PROVE  Max(1..i) = i /\ (1..i) \ {Max(1..i)} = 1..(i - 1)
<1>1. Max(1..i) \in 1..i /\ (1..i) \ {Max(1..i)} \in SUBSET (1..(i - 1))
  <2> DEFINE s == 1..i
  <2>1. i \in Nat /\ s \in SUBSET (1..i) /\ s # {}
    BY i \in 1..i
  <2> HIDE DEF s
  <2>2. Max(s) \in 1..i /\ s \ {Max(s)} \in SUBSET (1..(i - 1))
    BY <2>1, LastPosition
  <2> QED BY <2>2 DEF s
<1>2. Max(1..i) = i
  BY SMTT(30), <1>1
<1> QED BY <1>2

LEMMA TableFolds ==
  ASSUME NEW A, NEW B, NEW q, NEW base, NEW op, Tabled(A, B, q, base, op)
  PROVE  \E g : FoldsOver(g, A, q, base, op)
<1> USE DEF Tabled
<1> DEFINE n == Len(q)
           D == SUBSET (1..n)
           Upto(g, i) == \A s \in SUBSET (1..i) : s \in D => g[s] = Passed(g, q, base, op, s)
           Bad == {i \in Nat : ~\E g \in [D -> A] : Upto(g, i)}
<1>1. n \in Nat /\ \A i \in 1..n : q[i] \in B
  OBVIOUS
<1>2. 0 \notin Bad
  <2> DEFINE g == [s \in D |-> base]
  <2>1. \A s \in SUBSET (1..0) : s = {}
    OBVIOUS
  <2>2. Upto(g, 0) /\ g \in [D -> A]
    BY <2>1 DEF Passed
  <2> QED BY <2>2
<1>3. ASSUME NEW m \in Nat, m # 0, m - 1 \notin Bad PROVE m \notin Bad
  <2>1. m - 1 \in Nat
    BY <1>3
  <2>2. PICK g \in [D -> A] : Upto(g, m - 1)
    BY <1>3, <2>1
  <2> DEFINE h == [s \in D |-> IF s \in SUBSET (1..(m - 1)) THEN g[s] ELSE Passed(g, q, base, op, s)]
  <2>3. ASSUME NEW s \in D PROVE Passed(g, q, base, op, s) \in A
    <3>1. CASE s = {}
      BY <3>1 DEF Passed
    <3>2. CASE s # {}
      <4>1. Max(s) \in 1..n /\ s \ {Max(s)} \in D
        BY <1>1, <3>2, LastPosition
      <4>2. g[s \ {Max(s)}] \in A /\ q[Max(s)] \in B
        BY <1>1, <4>1
      <4> QED BY <3>2, <4>2 DEF Passed
    <3> QED BY <3>1, <3>2
  <2>4. h \in [D -> A]
    BY <2>3
  <2>5. ASSUME NEW s \in SUBSET (1..m), s \in D PROVE h[s] = Passed(h, q, base, op, s)
    <3>1. h[s] = Passed(g, q, base, op, s)
      BY <2>2, <2>5
    <3>2. CASE s = {}
      BY <3>1, <3>2 DEF Passed
    <3>3. CASE s # {}
      <4>1. s \ {Max(s)} \in SUBSET (1..(m - 1))
        BY <3>3, LastPosition
      <4>2. h[s \ {Max(s)}] = g[s \ {Max(s)}]
        BY <4>1, <2>5
      <4> QED BY <3>1, <3>3, <4>2 DEF Passed
    <3> QED BY <3>2, <3>3
  <2> HIDE DEF h
  <2>6. Upto(h, m)
    BY <2>5
  <2> QED BY <2>4, <2>6
<1>4. Bad = {}
  <2> SUFFICES ASSUME Bad # {} PROVE FALSE
    OBVIOUS
  <2>1. Bad \in SUBSET Nat
    OBVIOUS
  <2> HIDE DEF Bad
  <2>2. PICK m \in Bad : \A k \in Bad : m <= k
    BY <2>1, LeastNumber
  <2>3. m \in Nat /\ m # 0
    BY <2>1, <2>2, <1>2
  <2>4. m - 1 \notin Bad
    BY <2>2, <2>3
  <2> QED BY <2>2, <2>3, <2>4, <1>3
<1>5. PICK g \in [D -> A] : Upto(g, n)
  BY <1>1, <1>4
<1>6. FoldsOver(g, A, q, base, op)
  BY <1>5 DEF FoldsOver
<1> QED BY <1>6

(* What passes the positions in the same steps is the same fold.            *)
LEMMA TableIs ==
  ASSUME NEW A, NEW B, NEW q, NEW base, NEW op, Tabled(A, B, q, base, op),
         NEW g, FoldsOver(g, A, q, base, op), NEW I, Follows(I, A, q, base, op)
  PROVE  \A s \in SUBSET (1..Len(q)) : I[s] = g[s]
<1> USE DEF Tabled
<1> USE DEF Follows
<1> DEFINE n == Len(q)
           D == SUBSET (1..n)
           Bad == {i \in Nat : \E s \in D : s \in SUBSET (1..i) /\ I[s] # g[s]}
<1>1. n \in Nat
  OBVIOUS
<1>2. Bad = {}
  <2> SUFFICES ASSUME Bad # {} PROVE FALSE
    OBVIOUS
  <2>1. Bad \in SUBSET Nat
    OBVIOUS
  <2>2. PICK m \in Bad : \A k \in Bad : m <= k
    <3> HIDE DEF Bad
    <3> QED BY <2>1, LeastNumber
  <2>3. PICK s \in D : s \in SUBSET (1..m) /\ I[s] # g[s]
    BY <2>2
  <2>4. g[s] = Passed(g, q, base, op, s)
    BY DEF FoldsOver
  <2>5. s # {}
    BY <2>3, <2>4 DEF Passed
  <2>6. /\ s \ {Max(s)} \in SUBSET (1..(m - 1)) /\ s \ {Max(s)} \in D /\ m # 0
    <3>1. m # 0
      <4>1. 1..0 = {}
        OBVIOUS
      <4> HIDE DEF Bad, D
      <4> QED BY <2>3, <2>5, <4>1
    <3> QED BY <3>1, <1>1, <2>1, <2>3, <2>5, LastPosition
  <2>7. m - 1 \notin Bad
    <3> HIDE DEF Bad
    <3> QED BY <2>1, <2>2, <2>6
  <2>8. I[s \ {Max(s)}] = g[s \ {Max(s)}]
    BY <2>1, <2>6, <2>7
  <2>9. g[s \ {Max(s)}] \in A
    BY <2>6 DEF FoldsOver
  <2> QED BY <2>3, <2>4, <2>5, <2>8, <2>9 DEF Passed
<1> QED BY <1>1, <1>2

LEMMA TableRun ==
  ASSUME NEW A, NEW B, NEW q, NEW base, NEW op, Tabled(A, B, q, base, op),
         NEW g, FoldsOver(g, A, q, base, op)
  PROVE  \E h : RunsOver(h, A, q, base, op) /\ h[Len(q)] = g[1..Len(q)]
<1> USE DEF Tabled
<1> DEFINE h == [i \in 0..Len(q) |-> g[1..i]]
<1>0. Len(q) \in Nat
  OBVIOUS
<1>1. \A i \in 0..Len(q) : 1..i \in SUBSET (1..Len(q))
  OBVIOUS
<1>2. h \in [0..Len(q) -> A]
  BY <1>1 DEF FoldsOver
<1>3. h[0] = base
  <2>1. 1..0 = {} /\ h[0] = g[1..0]
    BY <1>0
  <2> QED BY <2>1 DEF FoldsOver, Passed
<1>4. ASSUME NEW i \in 1..Len(q) PROVE h[i] = op[<<h[i - 1], q[i]>>]
  <2>0. i \in Nat \ {0} /\ i \in 0..Len(q) /\ i - 1 \in 0..Len(q) /\ i \in 1..i
    BY <1>0
  <2>1. h[i] = g[1..i] /\ h[i - 1] = g[1..(i - 1)] /\ 1..i # {} /\ i \in Nat \ {0}
    BY <2>0
  <2>2. g[1..i] = Passed(g, q, base, op, 1..i)
    BY <1>1 DEF FoldsOver
  <2> HIDE DEF h
  <2> QED BY <2>1, <2>2, LastOfFirst DEF Passed
<1>5. h[Len(q)] = g[1..Len(q)]
  BY <1>0
<1> HIDE DEF h
<1>6. RunsOver(h, A, q, base, op)
  BY <1>2, <1>3, <1>4 DEF RunsOver
<1> QED BY <1>5, <1>6

(* So what follows the table is the outcome of a run.                       *)
LEMMA FoldRun ==
  ASSUME NEW A, NEW B, NEW q, NEW base, NEW op, Tabled(A, B, q, base, op),
         NEW I, Follows(I, A, q, base, op)
  PROVE  \E h : RunsOver(h, A, q, base, op) /\ h[Len(q)] = I[1..Len(q)]
<1>1. PICK g : FoldsOver(g, A, q, base, op)
  BY TableFolds
<1>2. PICK h : RunsOver(h, A, q, base, op) /\ h[Len(q)] = g[1..Len(q)]
  BY <1>1, TableRun
<1>3. \A s \in SUBSET (1..Len(q)) : I[s] = g[s]
  BY <1>1, TableIs
<1>4. 1..Len(q) \in SUBSET (1..Len(q))
  OBVIOUS
<1> QED BY <1>2, <1>3, <1>4

(**************************** Capacity in one process ***********************)

Distinct(q) == \A i, j \in DOMAIN q : q[i] = q[j] => i = j

Counters == [LocalProviders -> Nat]

LocalTypeOK ==
    /\ place \in [Operations -> {"out", "queued", "running"}]
    /\ line \in Seq(Operations) /\ Distinct(line)
    /\ running \in Nat /\ runningOf \in Counters

LocalInv == LocalTypeOK /\ CapacityInUse

-----------------------------------------------------------------------------
(* A drain passes the queue once, a waiter at a time.                       *)
Drains == [line : Seq(Operations), granted : SUBSET Operations, all : Nat, each : Counters]

LEMMA ServesTyped ==
  ASSUME NEW d \in Drains, NEW o \in Operations
  PROVE  Serves(d, o) \in Drains
<1>1. ProviderOf[o] \in LocalProviders
  BY DEF LocalProviders
<1>2. Append(d.line, o) \in Seq(Operations)
  BY DEF Drains
<1>3. Skips(d, o) \in Drains
  BY <1>2 DEF Drains, Skips
<1>4. Grants(d, o) \in Drains
  <2>1. [d.each EXCEPT ![ProviderOf[o]] = @ + 1] \in Counters
    BY <1>1 DEF Drains, Counters
  <2> QED BY <2>1 DEF Drains, Grants
<1> QED BY <1>3, <1>4 DEF Serves

Serving(g, q, base, s) == IF s = {} THEN base ELSE Serves(g[s \ {Max(s)}], q[Max(s)])
ServedBy(q, base) == CHOOSE g : g = [s \in SUBSET (DOMAIN q) |-> Serving(g, q, base, s)]

LEMMA DrainRun ==
  ASSUME NEW q \in Seq(Operations), NEW all \in Nat, NEW each \in Counters
  PROVE  \E h \in [0..Len(q) -> Drains] :
            /\ h[0] = Undrained(all, each) /\ Drained(q, all, each) = h[Len(q)]
            /\ \A i \in 1..Len(q) : h[i] = Serves(h[i - 1], q[i])
<1> DEFINE base == Undrained(all, each)
           op == [p \in Drains \X Operations |-> Serves(p[1], p[2])]
           I == ServedBy(q, base)
           D == SUBSET (1..Len(q))
<1>1. base \in Drains
  BY DEF Undrained, Drains
<1>2. op \in [Drains \X Operations -> Drains]
  BY ServesTyped
<1>3. \A d \in Drains, o \in Operations : op[<<d, o>>] = Serves(d, o)
  OBVIOUS
<1>4. Drained(q, all, each) = I[DOMAIN q] /\ DOMAIN q = 1..Len(q) /\ Len(q) \in Nat
  BY DEF Drained, FoldLeft, MapThenFoldSet, ServedBy, Serving
<1>14. Tabled(Drains, Operations, q, base, op)
  BY <1>1, <1>2 DEF Tabled
<1> HIDE DEF base, op
<1>5. PICK g : FoldsOver(g, Drains, q, base, op)
  BY <1>14, TableFolds
<1>6. ASSUME NEW s \in D, s # {} PROVE s \ {Max(s)} \in D /\ q[Max(s)] \in Operations
  BY <1>4, <1>6, LastPosition
<1>7. g = [s \in SUBSET (DOMAIN q) |-> Serving(g, q, base, s)]
  <2>1. ASSUME NEW s \in D PROVE g[s] = Serving(g, q, base, s)
    <3>1. g[s] = Passed(g, q, base, op, s)
      BY <1>5 DEF FoldsOver
    <3>2. s # {} => g[s \ {Max(s)}] \in Drains /\ q[Max(s)] \in Operations
      BY <1>5, <1>6 DEF FoldsOver
    <3> QED BY <3>1, <3>2, <1>3 DEF Passed, Serving
  <2> QED BY <2>1, <1>4, <1>5 DEF FoldsOver
<1>8. I = [s \in SUBSET (DOMAIN q) |-> Serving(I, q, base, s)]
  BY <1>7 DEF ServedBy
<1>9. Follows(I, Drains, q, base, op)
  <2>1. ASSUME NEW s \in D PROVE I[s] = Serving(I, q, base, s)
    <3> HIDE DEF I
    <3> QED BY <1>8, <1>4
  <2> HIDE DEF I
  <2> QED BY <2>1, <1>3, <1>6 DEF Serving, Follows
<1> HIDE DEF I, D
<1>10. PICK h : RunsOver(h, Drains, q, base, op) /\ h[Len(q)] = I[1..Len(q)]
  BY <1>14, <1>9, FoldRun
<1>11. h \in [0..Len(q) -> Drains] /\ h[0] = base /\ \A i \in 1..Len(q) : h[i] = op[<<h[i - 1], q[i]>>]
  BY <1>10 DEF RunsOver
<1>12. ASSUME NEW i \in 1..Len(q) PROVE h[i] = Serves(h[i - 1], q[i])
  <2>1. i - 1 \in 0..Len(q) /\ q[i] \in Operations
    BY <1>4
  <2> QED BY <1>11, <1>3, <2>1
<1>13. Drained(q, all, each) = h[Len(q)]
  BY <1>4, <1>10, <1>11
<1> QED BY <1>11, <1>12, <1>13 DEF base

(* What a sequence holds, with an element more or less.                     *)
LEMMA AppendOne ==
  ASSUME NEW S, NEW q \in Seq(S), NEW x \in S
  PROVE  /\ Append(q, x) \in Seq(S) /\ ToSet(Append(q, x)) = ToSet(q) \cup {x}
         /\ Len(Append(q, x)) = Len(q) + 1
         /\ Distinct(q) /\ x \notin ToSet(q) => Distinct(Append(q, x))
<1> DEFINE r == Append(q, x)
<1>1. /\ r \in Seq(S) /\ Len(r) = Len(q) + 1 /\ DOMAIN r = 1..(Len(q) + 1) /\ DOMAIN q = 1..Len(q)
      /\ Len(q) \in Nat /\ r[Len(q) + 1] = x /\ \A i \in 1..Len(q) : r[i] = q[i]
  OBVIOUS
<1> HIDE DEF r
<1>2. \A i \in 1..(Len(q) + 1) : i \in 1..Len(q) \/ i = Len(q) + 1
  BY <1>1
<1>3. ToSet(r) = ToSet(q) \cup {x}
  <2>1. ASSUME NEW y \in ToSet(r) PROVE y \in ToSet(q) \cup {x}
    BY <1>1, <1>2, <2>1 DEF ToSet
  <2>2. ASSUME NEW y \in ToSet(q) PROVE y \in ToSet(r)
    <3>1. PICK i \in 1..Len(q) : y = q[i]
      BY <1>1, <2>2 DEF ToSet
    <3>2. i \in DOMAIN r /\ r[i] = y
      BY <1>1, <3>1
    <3> QED BY <3>2 DEF ToSet
  <2>3. x \in ToSet(r)
    <3>1. Len(q) + 1 \in DOMAIN r
      BY <1>1
    <3> QED BY <1>1, <3>1 DEF ToSet
  <2> QED BY <2>1, <2>2, <2>3
<1>4. ASSUME Distinct(q), x \notin ToSet(q) PROVE Distinct(r)
  <2>1. \A i \in 1..Len(q) : r[i] # x
    BY <1>1, <1>4 DEF ToSet
  <2>2. ASSUME NEW i \in DOMAIN r, NEW j \in DOMAIN r, r[i] = r[j] PROVE i = j
    <3>1. CASE i \in 1..Len(q) /\ j \in 1..Len(q)
      BY <1>1, <1>4, <2>2, <3>1 DEF Distinct
    <3>2. CASE i = Len(q) + 1 \/ j = Len(q) + 1
      BY <1>1, <1>2, <2>1, <2>2, <3>2
    <3> QED BY <1>1, <1>2, <3>1, <3>2
  <2> QED BY <2>2 DEF Distinct
<1> QED BY <1>1, <1>3, <1>4 DEF r

LEMMA RemovedAt ==
  ASSUME NEW S, NEW q \in Seq(S), NEW k \in DOMAIN q
  PROVE  /\ RemoveAt(q, k) \in Seq(S) /\ Len(RemoveAt(q, k)) = Len(q) - 1
         /\ DOMAIN RemoveAt(q, k) = 1..(Len(q) - 1)
         /\ \A i \in 1..(Len(q) - 1) : RemoveAt(q, k)[i] = IF i < k THEN q[i] ELSE q[i + 1]
<1> DEFINE r == RemoveAt(q, k)
           n == Len(q)
<1>1. n \in Nat /\ DOMAIN q = 1..n /\ k \in 1..n
  OBVIOUS
<1>2. /\ r \in Seq(S) /\ Len(r) = n - 1 /\ DOMAIN r = 1..(n - 1)
      /\ \A i \in 1..(n - 1) : r[i] = IF i < k THEN q[i] ELSE q[i + 1]
  <2> DEFINE a == SubSeq(q, 1, k - 1)
             b == SubSeq(q, k + 1, n)
  <2>1. a \in Seq(S) /\ Len(a) = k - 1 /\ \A i \in 1..(k - 1) : a[i] = q[i]
    BY <1>1
  <2>2. b \in Seq(S) /\ Len(b) = n - k /\ \A i \in 1..(n - k) : b[i] = q[i + k]
    BY <1>1
  <2>3. r = a \o b
    BY DEF RemoveAt
  <2> HIDE DEF a, b, r
  <2>4. r \in Seq(S) /\ Len(r) = Len(a) + Len(b)
    <3>1. a \in Seq(S) /\ b \in Seq(S)
      BY <2>1, <2>2
    <3>2. a \o b \in Seq(S) /\ Len(a \o b) = Len(a) + Len(b)
      BY <3>1
    <3> QED BY <2>3, <3>2
  <2>5. Len(r) = n - 1 /\ DOMAIN r = 1..(n - 1)
    BY <1>1, <2>1, <2>2, <2>4
  <2>6. ASSUME NEW i \in 1..(n - 1) PROVE r[i] = IF i < k THEN q[i] ELSE q[i + 1]
    <3>1. CASE i < k
      <4>1. i \in 1..(k - 1) /\ r[i] = a[i]
        BY <1>1, <2>1, <2>2, <2>3, <2>6, <3>1
      <4> QED BY <2>1, <3>1, <4>1
    <3>2. CASE ~(i < k)
      <4>1. i - (k - 1) \in 1..(n - k) /\ r[i] = b[i - (k - 1)]
        BY <1>1, <2>1, <2>2, <2>3, <2>6, <3>2
      <4>2. i - (k - 1) + k = i + 1
        BY <1>1
      <4> QED BY <2>2, <3>2, <4>1, <4>2
    <3> QED BY <3>1, <3>2
  <2> QED BY <2>4, <2>5, <2>6
<1> QED BY <1>2

LEMMA RemoveOne ==
  ASSUME NEW S, NEW q \in Seq(S), Distinct(q), NEW k \in DOMAIN q
  PROVE  /\ RemoveAt(q, k) \in Seq(S) /\ ToSet(RemoveAt(q, k)) = ToSet(q) \ {q[k]}
         /\ Len(RemoveAt(q, k)) = Len(q) - 1 /\ Distinct(RemoveAt(q, k))
<1> DEFINE r == RemoveAt(q, k)
           n == Len(q)
<1>1. n \in Nat /\ DOMAIN q = 1..n /\ k \in 1..n
  OBVIOUS
<1>2. /\ r \in Seq(S) /\ Len(r) = n - 1 /\ DOMAIN r = 1..(n - 1)
      /\ \A i \in 1..(n - 1) : r[i] = IF i < k THEN q[i] ELSE q[i + 1]
  BY RemovedAt
<1> HIDE DEF r
<1>3. ToSet(r) = ToSet(q) \ {q[k]}
  <2>1. ASSUME NEW y \in ToSet(r) PROVE y \in ToSet(q) \ {q[k]}
    <3>1. PICK i \in 1..(n - 1) : y = r[i]
      BY <1>2, <2>1 DEF ToSet
    <3>2. CASE i < k
      BY SMTT(30), <1>1, <1>2, <3>1, <3>2 DEF ToSet, Distinct
    <3>3. CASE ~(i < k)
      BY <1>1, <1>2, <3>1, <3>3 DEF ToSet, Distinct
    <3> QED BY <3>2, <3>3
  <2>2. ASSUME NEW y \in ToSet(q) \ {q[k]} PROVE y \in ToSet(r)
    <3>1. PICK i \in 1..n : y = q[i]
      BY <1>1, <2>2 DEF ToSet
    <3>2. i # k
      BY <2>2, <3>1
    <3>3. CASE i < k
      <4>1. i \in 1..(n - 1) /\ r[i] = y
        BY <1>1, <1>2, <3>1, <3>3
      <4> QED BY <1>2, <4>1 DEF ToSet
    <3>4. CASE i > k
      <4>1. i - 1 \in 1..(n - 1) /\ r[i - 1] = y
        BY <1>1, <1>2, <3>1, <3>4
      <4> QED BY <1>2, <4>1 DEF ToSet
    <3> QED BY <1>1, <3>2, <3>3, <3>4
  <2> QED BY <2>1, <2>2
<1>4. ASSUME NEW i \in DOMAIN r, NEW j \in DOMAIN r, r[i] = r[j] PROVE i = j
  <2>1. i \in 1..(n - 1) /\ j \in 1..(n - 1)
    BY <1>2
  <2>2. \A x, y \in 1..n : q[x] = q[y] => x = y
    BY <1>1 DEF Distinct
  <2> QED BY <1>1, <1>2, <1>4, <2>1, <2>2
<1> QED BY <1>2, <1>3, <1>4 DEF r, Distinct

-----------------------------------------------------------------------------
(* The counters are those of the operations in R, within both limits.       *)
Counted(all, each, R) ==
    /\ all = Cardinality(R) /\ all <= MaxRunning
    /\ \A p \in LocalProviders : each[p] = Cardinality(OfProvider(p, R)) /\ each[p] <= MaxRunningOf

LEMMA CountedOneMore ==
  ASSUME NEW R \in SUBSET Operations, NEW o \in Operations \ R, NEW all \in Nat, NEW each \in Counters,
         Counted(all, each, R), CanStart(ProviderOf[o], all, each)
  PROVE  Counted(all + 1, [each EXCEPT ![ProviderOf[o]] = @ + 1], R \cup {o})
<1> DEFINE p == ProviderOf[o]
           more == [each EXCEPT ![p] = @ + 1]
<1>1. p \in LocalProviders /\ MaxRunning \in Nat /\ MaxRunningOf \in Nat /\ IsFiniteSet(R)
  BY LocalAssumption, FS_Subset DEF LocalProviders
<1>2. all + 1 = Cardinality(R \cup {o}) /\ all + 1 <= MaxRunning
  <2>1. Cardinality(R \cup {o}) = Cardinality(R) + 1
    BY <1>1, FS_AddElement
  <2>2. all < MaxRunning
    BY DEF CanStart
  <2> QED BY <1>1, <2>1, <2>2 DEF Counted
<1>3. ASSUME NEW x \in LocalProviders
      PROVE  more[x] = Cardinality(OfProvider(x, R \cup {o})) /\ more[x] <= MaxRunningOf
  <2>1. CASE x = p
    <3>1. OfProvider(x, R \cup {o}) = OfProvider(x, R) \cup {o} /\ o \notin OfProvider(x, R)
      BY <2>1 DEF OfProvider
    <3>2. IsFiniteSet(OfProvider(x, R))
      BY <1>1, FS_Subset DEF OfProvider
    <3>3. Cardinality(OfProvider(x, R) \cup {o}) = Cardinality(OfProvider(x, R)) + 1
      BY <3>1, <3>2, FS_AddElement
    <3>4. more[x] = each[x] + 1 /\ each[x] < MaxRunningOf /\ each[x] \in Nat
      BY <1>1, <2>1 DEF CanStart, Counters
    <3> QED BY <1>1, <3>1, <3>3, <3>4 DEF Counted
  <2>2. CASE x # p
    <3>1. OfProvider(x, R \cup {o}) = OfProvider(x, R)
      BY <2>2 DEF OfProvider
    <3>2. more[x] = each[x]
      BY <2>2 DEF Counters
    <3> QED BY <3>1, <3>2 DEF Counted
  <2> QED BY <2>1, <2>2
<1> QED BY <1>2, <1>3 DEF Counted

LEMMA CountedOneLess ==
  ASSUME NEW R \in SUBSET Operations, NEW o \in R, NEW all \in Nat, NEW each \in Counters,
         Counted(all, each, R)
  PROVE  /\ Counted(Fewer(all), [each EXCEPT ![ProviderOf[o]] = Fewer(@)], R \ {o})
         /\ Fewer(all) \in Nat /\ [each EXCEPT ![ProviderOf[o]] = Fewer(@)] \in Counters
<1> DEFINE p == ProviderOf[o]
           less == [each EXCEPT ![p] = Fewer(@)]
<1>1. /\ p \in LocalProviders /\ MaxRunning \in Nat /\ MaxRunningOf \in Nat
      /\ IsFiniteSet(R) /\ IsFiniteSet(OfProvider(p, R)) /\ o \in OfProvider(p, R)
  BY LocalAssumption, FS_Subset DEF LocalProviders, OfProvider
<1>2. /\ Cardinality(R \ {o}) = Cardinality(R) - 1
      /\ Cardinality(OfProvider(p, R) \ {o}) = Cardinality(OfProvider(p, R)) - 1
  BY <1>1, FS_RemoveElement
<1>3. Cardinality(R \ {o}) \in Nat /\ Cardinality(OfProvider(p, R) \ {o}) \in Nat
  BY <1>1, FS_Subset, FS_CardinalityType
<1>4. Fewer(all) = Cardinality(R \ {o}) /\ Fewer(all) <= MaxRunning /\ Fewer(all) \in Nat
  BY <1>1, <1>2, <1>3 DEF Counted, Fewer
<1>5. less \in Counters
  BY <1>1 DEF Counters, Fewer
<1>6. ASSUME NEW x \in LocalProviders
      PROVE  less[x] = Cardinality(OfProvider(x, R \ {o})) /\ less[x] <= MaxRunningOf
  <2>1. CASE x = p
    <3>1. OfProvider(x, R \ {o}) = OfProvider(x, R) \ {o}
      BY <2>1 DEF OfProvider
    <3>2. less[x] = Fewer(each[x]) /\ each[x] \in Nat
      BY <1>1, <2>1 DEF Counters
    <3>3. each[x] = Cardinality(OfProvider(x, R)) /\ each[x] <= MaxRunningOf
      BY DEF Counted
    <3> DEFINE c == Cardinality(OfProvider(p, R) \ {o})
    <3>4. each[x] = c + 1 /\ c \in Nat /\ c + 1 > 0 /\ c + 1 - 1 = c
      <4>1. Cardinality(OfProvider(p, R)) \in Nat
        BY <1>1, FS_CardinalityType
      <4> HIDE DEF c
      <4>2. c = Cardinality(OfProvider(p, R)) - 1 /\ c \in Nat
        BY <1>2, <1>3 DEF c
      <4> QED BY <2>1, <3>3, <4>1, <4>2
    <3>5. less[x] = c
      <4> HIDE DEF c, less
      <4> QED BY <3>2, <3>4 DEF Fewer
    <3> HIDE DEF c, less
    <3>6. less[x] <= MaxRunningOf
      BY <1>1, <3>3, <3>4, <3>5
    <3> QED BY <2>1, <3>1, <3>5, <3>6 DEF c
  <2>2. CASE x # p
    <3>1. OfProvider(x, R \ {o}) = OfProvider(x, R)
      BY <2>2 DEF OfProvider
    <3>2. less[x] = each[x]
      BY <2>2 DEF Counters
    <3> QED BY <3>1, <3>2 DEF Counted
  <2> QED BY <2>1, <2>2
<1> QED BY <1>4, <1>5, <1>6 DEF Counted

(* What a drain has come to after the waiters in S, when the operations in  *)
(* R were running: everybody has been granted or still waits, each once,    *)
(* and for want of room.                                                    *)
DrainedSoFar(d, S, R) ==
    /\ d \in Drains /\ d.granted \cup ToSet(d.line) = S /\ d.granted \cap ToSet(d.line) = {}
    /\ Distinct(d.line) /\ Len(d.line) = Cardinality(ToSet(d.line))
    /\ Counted(d.all, d.each, R \cup d.granted)
    /\ \A o \in ToSet(d.line) : ~CanStart(ProviderOf[o], d.all, d.each)

LEMMA ServesOneMore ==
  ASSUME NEW R \in SUBSET Operations, NEW S \in SUBSET Operations, NEW o \in Operations,
         o \notin R, o \notin S, R \cap S = {}, NEW d, DrainedSoFar(d, S, R)
  PROVE  DrainedSoFar(Serves(d, o), S \cup {o}, R)
<1> DEFINE e == Serves(d, o)
<1> SUFFICES DrainedSoFar(e, S \cup {o}, R)
  OBVIOUS
<1>1. e \in Drains /\ d \in Drains
  BY ServesTyped DEF DrainedSoFar
<1>2. d.line \in Seq(Operations) /\ d.all \in Nat /\ d.each \in Counters /\ d.granted \subseteq S
  BY <1>1 DEF Drains, DrainedSoFar
<1>3. ToSet(d.line) \subseteq S /\ IsFiniteSet(ToSet(d.line)) /\ o \notin ToSet(d.line)
  BY LocalAssumption, FS_Subset DEF DrainedSoFar
<1>4. CASE CanStart(ProviderOf[o], d.all, d.each)
  <2>1. e = Grants(d, o)
    BY <1>4 DEF Serves
  <2>2. /\ e.line = d.line /\ e.granted = d.granted \cup {o} /\ e.all = d.all + 1
        /\ e.each = [d.each EXCEPT ![ProviderOf[o]] = @ + 1]
    BY <2>1 DEF Grants
  <2>3. Counted(e.all, e.each, R \cup e.granted)
    <3>1. o \in Operations \ (R \cup d.granted) /\ R \cup d.granted \in SUBSET Operations
      BY <1>2
    <3>2. Counted(e.all, e.each, (R \cup d.granted) \cup {o})
      <4>1. Counted(d.all, d.each, R \cup d.granted)
        BY DEF DrainedSoFar
      <4> HIDE DEF e
      <4>2. Counted(d.all + 1, [d.each EXCEPT ![ProviderOf[o]] = @ + 1], (R \cup d.granted) \cup {o})
        BY <1>2, <1>4, <3>1, <4>1, CountedOneMore
      <4> QED BY <2>2, <4>2
    <3>3. (R \cup d.granted) \cup {o} = R \cup e.granted
      BY <2>2
    <3> QED BY <3>2, <3>3
  <2>4. ASSUME NEW x \in ToSet(e.line) PROVE ~CanStart(ProviderOf[x], e.all, e.each)
    <3>1. ~CanStart(ProviderOf[x], d.all, d.each) /\ ProviderOf[x] \in LocalProviders
      BY <1>3, <2>2, <2>4 DEF DrainedSoFar, LocalProviders
    <3>2. e.each[ProviderOf[x]] >= d.each[ProviderOf[x]] /\ e.all >= d.all
          /\ e.each[ProviderOf[x]] \in Nat /\ d.each[ProviderOf[x]] \in Nat
      BY <1>2, <2>2, <3>1 DEF Counters
    <3>3. MaxRunning \in Nat /\ MaxRunningOf \in Nat
      BY LocalAssumption
    <3> QED BY <1>2, <2>2, <3>1, <3>2, <3>3 DEF CanStart
  <2> HIDE DEF e
  <2> QED BY <1>1, <1>3, <2>2, <2>3, <2>4 DEF DrainedSoFar
<1>5. CASE ~CanStart(ProviderOf[o], d.all, d.each)
  <2>1. e = Skips(d, o)
    BY <1>5 DEF Serves
  <2>2. e.line = Append(d.line, o) /\ e.granted = d.granted /\ e.all = d.all /\ e.each = d.each
    BY <1>1, <2>1 DEF Skips, Drains
  <2>3. /\ ToSet(e.line) = ToSet(d.line) \cup {o} /\ Distinct(e.line) /\ Len(e.line) = Len(d.line) + 1
    BY <1>2, <1>3, <2>2, AppendOne DEF DrainedSoFar
  <2>4. Len(e.line) = Cardinality(ToSet(e.line))
    <3>1. Cardinality(ToSet(d.line) \cup {o}) = Cardinality(ToSet(d.line)) + 1
      BY <1>3, FS_AddElement
    <3> HIDE DEF e
    <3> QED BY <2>3, <3>1 DEF DrainedSoFar
  <2> HIDE DEF e
  <2> QED BY <1>1, <1>2, <1>5, <2>2, <2>3, <2>4 DEF DrainedSoFar
<1> QED BY <1>4, <1>5

(* In a queue, o is before q. *)
Before(o, q, l) == \E i, j \in DOMAIN l : i < j /\ l[i] = o /\ l[j] = q

(* What a drain has done to the order of the first m waiters of q.          *)
OrderSoFar(d, q, m) ==
    /\ \A i, j \in 1..m :
          i < j /\ q[i] \notin d.granted /\ q[j] \in d.granted
             => ProviderOf[q[j]] # ProviderOf[q[i]] /\ d.each[ProviderOf[q[i]]] >= MaxRunningOf
    /\ \A i, j \in 1..m :
          i < j /\ q[i] \notin d.granted /\ q[j] \notin d.granted => Before(q[i], q[j], d.line)

LEMMA AppendBehind ==
  ASSUME NEW S, NEW l \in Seq(S), NEW x \in S
  PROVE  /\ \A a, b : Before(a, b, l) => Before(a, b, Append(l, x))
         /\ \A a \in ToSet(l) : Before(a, x, Append(l, x))
<1> DEFINE r == Append(l, x)
           n == Len(l)
<1>1. /\ n \in Nat /\ DOMAIN l = 1..n /\ DOMAIN r = 1..(n + 1) /\ r[n + 1] = x
      /\ \A i \in 1..n : r[i] = l[i]
  OBVIOUS
<1> HIDE DEF r, n
<1>2. ASSUME NEW a, NEW b, Before(a, b, l) PROVE Before(a, b, r)
  <2> PICK i \in 1..n, j \in 1..n : i < j /\ l[i] = a /\ l[j] = b
    BY <1>1, <1>2 DEF Before
  <2> QED BY <1>1 DEF Before
<1>3. ASSUME NEW a \in ToSet(l) PROVE Before(a, x, r)
  <2> PICK i \in 1..n : l[i] = a
    BY <1>1 DEF ToSet
  <2>1. i \in DOMAIN r /\ n + 1 \in DOMAIN r /\ i < n + 1 /\ r[i] = a
    BY <1>1
  <2> QED BY <1>1, <2>1 DEF Before
<1> QED BY <1>2, <1>3 DEF r

LEMMA OrderOneMore ==
  ASSUME NEW R, NEW q \in Seq(Operations), Distinct(q), NEW m \in Nat, m + 1 <= Len(q),
         NEW d, DrainedSoFar(d, {q[k] : k \in 1..m}, R), OrderSoFar(d, q, m)
  PROVE  OrderSoFar(Serves(d, q[m + 1]), q, m + 1)
<1> DEFINE o == q[m + 1]
           e == Serves(d, o)
           S == {q[k] : k \in 1..m}
<1>0. /\ DOMAIN q = 1..Len(q) /\ Len(q) \in Nat /\ o \in Operations /\ d \in Drains /\ o \notin S
      /\ \A i \in 1..m : q[i] \in S /\ q[i] \in Operations /\ ProviderOf[q[i]] \in LocalProviders /\ q[i] # o
  BY DEF Distinct, LocalProviders, DrainedSoFar
<1>1. /\ d.line \in Seq(Operations) /\ d.each \in Counters /\ d.all \in Nat /\ o \notin d.granted
      /\ \A i \in 1..m : q[i] \notin d.granted => q[i] \in ToSet(d.line)
      /\ MaxRunning \in Nat /\ MaxRunningOf \in Nat
  BY <1>0, LocalAssumption DEF DrainedSoFar, Drains
<1> HIDE DEF o, S
<1>2. CASE CanStart(ProviderOf[o], d.all, d.each)
  <2>1. /\ e.line = d.line /\ e.granted = d.granted \cup {o}
        /\ e.each = [d.each EXCEPT ![ProviderOf[o]] = @ + 1]
    BY <1>2 DEF Serves, Grants
  <2>2. \A p \in LocalProviders : e.each[p] >= d.each[p] /\ e.each[p] \in Nat /\ d.each[p] \in Nat
    BY <1>1, <2>1 DEF Counters
  <2> HIDE DEF e
  <2>3. ASSUME NEW i \in 1..(m + 1), NEW j \in 1..(m + 1), i < j, q[i] \notin e.granted, q[j] \in e.granted
        PROVE  ProviderOf[q[j]] # ProviderOf[q[i]] /\ e.each[ProviderOf[q[i]]] >= MaxRunningOf
    <3>1. i \in 1..m /\ q[i] \notin d.granted
      BY <2>1, <2>3
    <3>2. CASE j \in 1..m
      <4>1. q[j] \in d.granted
        BY <1>0, <2>1, <2>3, <3>2
      <4>2. ProviderOf[q[j]] # ProviderOf[q[i]] /\ d.each[ProviderOf[q[i]]] >= MaxRunningOf
        BY <2>3, <3>1, <3>2, <4>1 DEF OrderSoFar
      <4> QED BY <1>0, <1>1, <2>2, <3>1, <4>2
    <3>3. CASE j = m + 1
      <4>1. ~CanStart(ProviderOf[q[i]], d.all, d.each)
        BY <1>1, <3>1 DEF DrainedSoFar
      <4>2. d.each[ProviderOf[q[i]]] >= MaxRunningOf
        BY <1>0, <1>1, <1>2, <2>2, <3>1, <4>1 DEF CanStart
      <4>3. ProviderOf[o] # ProviderOf[q[i]]
        BY <1>2, <4>1
      <4> QED BY <1>0, <1>1, <2>2, <3>1, <3>3, <4>2, <4>3 DEF o
    <3> QED BY <3>2, <3>3
  <2>4. ASSUME NEW i \in 1..(m + 1), NEW j \in 1..(m + 1), i < j, q[i] \notin e.granted, q[j] \notin e.granted
        PROVE  Before(q[i], q[j], e.line)
    <3>1. i \in 1..m /\ j \in 1..m
      BY <2>1, <2>4 DEF o
    <3> QED BY <2>1, <2>4, <3>1 DEF OrderSoFar
  <2> QED BY <2>3, <2>4 DEF OrderSoFar, e, o
<1>3. CASE ~CanStart(ProviderOf[o], d.all, d.each)
  <2>1. e.line = Append(d.line, o) /\ e.granted = d.granted /\ e.each = d.each
    BY <1>0, <1>3 DEF Serves, Skips, Drains
  <2>2. /\ \A a, b : Before(a, b, d.line) => Before(a, b, e.line)
        /\ \A a \in ToSet(d.line) : Before(a, o, e.line)
    BY <1>0, <1>1, <2>1, AppendBehind
  <2> HIDE DEF e
  <2>3. ASSUME NEW i \in 1..(m + 1), NEW j \in 1..(m + 1), i < j, q[i] \notin e.granted, q[j] \in e.granted
        PROVE  ProviderOf[q[j]] # ProviderOf[q[i]] /\ e.each[ProviderOf[q[i]]] >= MaxRunningOf
    <3>1. i \in 1..m /\ j \in 1..m
      BY <1>1, <2>1, <2>3 DEF o
    <3> QED BY <2>1, <2>3, <3>1 DEF OrderSoFar
  <2>4. ASSUME NEW i \in 1..(m + 1), NEW j \in 1..(m + 1), i < j, q[i] \notin e.granted, q[j] \notin e.granted
        PROVE  Before(q[i], q[j], e.line)
    <3>1. i \in 1..m
      BY <2>4
    <3>2. CASE j \in 1..m
      BY <2>1, <2>2, <2>4, <3>1, <3>2 DEF OrderSoFar
    <3>3. CASE j = m + 1
      BY <1>1, <2>1, <2>2, <2>4, <3>1, <3>3 DEF o
    <3> QED BY <3>2, <3>3
  <2> QED BY <2>3, <2>4 DEF OrderSoFar, e, o
<1> QED BY <1>2, <1>3

(* A drain of the whole queue.                                              *)
LEMMA DrainServes ==
  ASSUME NEW R \in SUBSET Operations, NEW q \in Seq(Operations), Distinct(q), R \cap ToSet(q) = {},
         NEW all \in Nat, NEW each \in Counters, Counted(all, each, R)
  PROVE  DrainedSoFar(Drained(q, all, each), ToSet(q), R) /\ OrderSoFar(Drained(q, all, each), q, Len(q))
<1> DEFINE n == Len(q)
           Earlier(i) == {q[k] : k \in 1..i}
<1>1. n \in Nat /\ DOMAIN q = 1..n /\ \A i \in 1..n : q[i] \in Operations
  OBVIOUS
<1>2. PICK h \in [0..n -> Drains] :
         /\ h[0] = Undrained(all, each) /\ Drained(q, all, each) = h[n]
         /\ \A i \in 1..n : h[i] = Serves(h[i - 1], q[i])
  BY DrainRun
<1> DEFINE Bad == {i \in 0..n : ~(DrainedSoFar(h[i], Earlier(i), R) /\ OrderSoFar(h[i], q, i))}
<1>3. Bad = {}
  <2> SUFFICES ASSUME Bad # {} PROVE FALSE
    OBVIOUS
  <2>1. Bad \in SUBSET Nat
    BY <1>1
  <2>2. PICK m \in Bad : \A k \in Bad : m <= k
    <3> HIDE DEF Bad
    <3> QED BY <2>1, LeastNumber
  <2>3. CASE m = 0
    <3>1. h[m].line = <<>> /\ h[m].granted = {} /\ h[m].all = all /\ h[m].each = each /\ h[m] \in Drains
      BY <1>1, <1>2, <2>3 DEF Undrained
    <3>2. Earlier(m) = {} /\ ToSet(h[m].line) = {} /\ Distinct(h[m].line) /\ Len(h[m].line) = 0
      BY <2>3, <3>1 DEF ToSet, Distinct
    <3>3. Cardinality({}) = 0 /\ R \cup h[m].granted = R
      BY <3>1, FS_EmptySet
    <3>4. DrainedSoFar(h[m], Earlier(m), R)
      BY <3>1, <3>2, <3>3 DEF DrainedSoFar
    <3>5. OrderSoFar(h[m], q, m)
      BY <2>3 DEF OrderSoFar
    <3> QED BY <2>2, <3>4, <3>5
  <2>4. CASE m # 0
    <3>1. m \in 1..n /\ m - 1 \in 0..n /\ m - 1 \notin Bad
      BY <1>1, <2>2, <2>4
    <3>2. /\ DrainedSoFar(h[m - 1], Earlier(m - 1), R) /\ OrderSoFar(h[m - 1], q, m - 1)
          /\ h[m] = Serves(h[m - 1], q[m])
      BY <1>2, <3>1
    <3>3. Earlier(m) = Earlier(m - 1) \cup {q[m]} /\ Earlier(m) \subseteq ToSet(q) /\ Earlier(m) \subseteq Operations
      <4>1. 1..m = (1..(m - 1)) \cup {m} /\ 1..m \subseteq 1..n
        BY <1>1, <3>1
      <4> QED BY <1>1, <4>1 DEF ToSet
    <3>4. q[m] \notin Earlier(m - 1)
      BY <1>1, <3>1 DEF Distinct
    <3>7. OrderSoFar(h[m], q, m)
      <4>1. m - 1 \in Nat /\ (m - 1) + 1 = m /\ m <= Len(q)
        BY <1>1, <3>1
      <4>2. DrainedSoFar(h[m - 1], {q[k] : k \in 1..(m - 1)}, R)
        BY <3>2
      <4>3. OrderSoFar(Serves(h[m - 1], q[(m - 1) + 1]), q, (m - 1) + 1)
        <5> DEFINE l == m - 1
        <5> HIDE DEF l
        <5> SUFFICES OrderSoFar(Serves(h[l], q[l + 1]), q, l + 1)
          BY DEF l
        <5>1. l \in Nat /\ l + 1 <= Len(q) /\ DrainedSoFar(h[l], {q[k] : k \in 1..l}, R) /\ OrderSoFar(h[l], q, l)
          BY <3>2, <4>1, <4>2 DEF l
        <5> QED BY <5>1, OrderOneMore
      <4> QED BY <3>2, <4>1, <4>3
    <3> HIDE DEF Earlier
    <3>5. q[m] \in Operations /\ q[m] \notin R /\ Earlier(m - 1) \in SUBSET Operations /\ R \cap Earlier(m - 1) = {}
      BY <1>1, <3>1, <3>3
    <3>6. DrainedSoFar(h[m], Earlier(m), R)
      BY <3>2, <3>3, <3>4, <3>5, ServesOneMore
    <3> QED BY <2>2, <3>6, <3>7
  <2> QED BY <2>3, <2>4
<1>4. DrainedSoFar(h[n], Earlier(n), R) /\ OrderSoFar(h[n], q, n)
  BY <1>1, <1>3
<1>5. Earlier(n) = ToSet(q)
  BY <1>1 DEF ToSet
<1> HIDE DEF Earlier
<1> QED BY <1>2, <1>4, <1>5

-----------------------------------------------------------------------------
LEMMA InitLocalInv == LocalInit => LocalInv
<1> SUFFICES ASSUME LocalInit PROVE LocalInv
  OBVIOUS
<1>1. OpsIn("queued") = {} /\ OpsIn("running") = {} /\ ToSet(line) = {} /\ Len(line) = 0 /\ Distinct(line)
      /\ line \in Seq(Operations)
  BY DEF LocalInit, OpsIn, ToSet, Distinct
<1>2. \A p \in LocalProviders : OfProvider(p, {}) = {}
  BY DEF OfProvider
<1>3. MaxRunning \in Nat /\ MaxRunningOf \in Nat /\ Cardinality({}) = 0
  BY LocalAssumption, FS_EmptySet
<1>4. LocalTypeOK
  BY <1>1 DEF LocalInit, LocalTypeOK, Counters
<1>5. CapacityInUse
  <2>1. running = 0 /\ \A p \in LocalProviders : runningOf[p] = 0
    BY DEF LocalInit
  <2>2. 0 <= MaxRunning /\ 0 <= MaxRunningOf
    BY <1>3
  <2>3. \A p \in LocalProviders : Cardinality(OfProvider(p, OpsIn("running"))) = 0
    BY <1>1, <1>2, <1>3
  <2> QED BY <1>1, <1>3, <2>1, <2>2, <2>3 DEF CapacityInUse
<1> QED BY <1>4, <1>5 DEF LocalInv

(* A drain leaves a state in order, when nobody but the waiters of the      *)
(* queue waits before it.                                                   *)
LEMMA AfterDrain ==
  ASSUME NEW places \in [Operations -> {"out", "queued", "running"}],
         NEW q \in Seq(Operations), Distinct(q), ToSet(q) = {o \in Operations : places[o] = "queued"},
         NEW all \in Nat, NEW each \in Counters, Counted(all, each, {o \in Operations : places[o] = "running"}),
         After(Drained(q, all, each), places)
  PROVE  LocalInv'
<1> DEFINE d == Drained(q, all, each)
           R == {o \in Operations : places[o] = "running"}
<1>1. DrainedSoFar(d, ToSet(q), R)
  <2>1. R \in SUBSET Operations /\ R \cap ToSet(q) = {}
    OBVIOUS
  <2> HIDE DEF R
  <2>2. Counted(all, each, R)
    BY DEF R
  <2> QED BY <2>1, <2>2, DrainServes
<1>2. /\ line' = d.line /\ running' = d.all /\ runningOf' = d.each
      /\ place' = [o \in Operations |-> IF o \in d.granted THEN "running" ELSE places[o]]
  BY DEF After
<1> HIDE DEF d
<1>3. /\ d.line \in Seq(Operations) /\ d.all \in Nat /\ d.each \in Counters
      /\ d.granted \subseteq ToSet(q) /\ ToSet(d.line) = ToSet(q) \ d.granted /\ Distinct(d.line)
  BY <1>1 DEF DrainedSoFar, Drains
<1>4. OpsIn("running")' = R \cup d.granted /\ OpsIn("queued")' = ToSet(d.line)
  BY <1>2, <1>3 DEF OpsIn
<1>5. LocalTypeOK'
  BY <1>2, <1>3 DEF LocalTypeOK
<1>6. CapacityInUse'
  <2> HIDE DEF R
  <2>1. /\ d.all = Cardinality(R \cup d.granted) /\ d.all <= MaxRunning
        /\ \A p \in LocalProviders :
              d.each[p] = Cardinality(OfProvider(p, R \cup d.granted)) /\ d.each[p] <= MaxRunningOf
    BY <1>1 DEF DrainedSoFar, Counted
  <2>2. /\ Len(d.line) = Cardinality(ToSet(d.line))
        /\ \A o \in ToSet(d.line) : ~CanStart(ProviderOf[o], d.all, d.each)
    BY <1>1 DEF DrainedSoFar
  <2> QED BY <1>2, <1>4, <2>1, <2>2 DEF CapacityInUse
<1> QED BY <1>5, <1>6 DEF LocalInv

LEMMA StartsAtOnceKeeps ==
  ASSUME LocalInv, NEW o \in Operations, StartsAtOnce(o)
  PROVE  LocalInv'
<1> DEFINE R == OpsIn("running")
<1>0. /\ LocalTypeOK /\ CapacityInUse /\ ProviderOf[o] \in LocalProviders
      /\ place[o] = "out" /\ CanStart(ProviderOf[o], running, runningOf)
      /\ place' = [place EXCEPT ![o] = "running"] /\ running' = running + 1
      /\ runningOf' = [runningOf EXCEPT ![ProviderOf[o]] = @ + 1] /\ line' = line
  BY DEF LocalInv, StartsAtOnce, LocalProviders
<1>1. Counted(running, runningOf, R) /\ R \in SUBSET Operations /\ o \notin R
  BY <1>0 DEF CapacityInUse, Counted, OpsIn
<1>2. Counted(running', runningOf', R \cup {o})
  <2> HIDE DEF R
  <2> QED BY <1>0, <1>1, CountedOneMore DEF LocalTypeOK
<1>3. OpsIn("running")' = R \cup {o} /\ OpsIn("queued")' = OpsIn("queued")
  BY <1>0 DEF OpsIn, LocalTypeOK
<1>4. LocalTypeOK'
  BY <1>0 DEF LocalTypeOK, Counters
<1>5. ASSUME NEW x \in OpsIn("queued") PROVE ~CanStart(ProviderOf[x], running', runningOf')
  <2>1. ~CanStart(ProviderOf[x], running, runningOf) /\ ProviderOf[x] \in LocalProviders
    BY <1>0, <1>5 DEF CapacityInUse, LocalProviders, OpsIn
  <2>2. runningOf'[ProviderOf[x]] >= runningOf[ProviderOf[x]] /\ running' >= running
        /\ runningOf'[ProviderOf[x]] \in Nat /\ runningOf[ProviderOf[x]] \in Nat
    BY <1>0, <2>1 DEF LocalTypeOK, Counters
  <2>3. MaxRunning \in Nat /\ MaxRunningOf \in Nat
    BY LocalAssumption
  <2> QED BY <1>0, <2>1, <2>2, <2>3 DEF CanStart, LocalTypeOK
<1> HIDE DEF R
<1>6. CapacityInUse'
  BY <1>0, <1>2, <1>3, <1>5 DEF CapacityInUse, Counted
<1> QED BY <1>4, <1>6 DEF LocalInv

LEMMA QueuesKeeps ==
  ASSUME LocalInv, NEW o \in Operations, Queues(o)
  PROVE  LocalInv'
<1> DEFINE places == [place EXCEPT ![o] = "queued"]
           q == Append(line, o)
<1>0. LocalTypeOK /\ CapacityInUse /\ place[o] = "out" /\ After(Drained(q, running, runningOf), places)
  BY DEF LocalInv, Queues
<1>1. places \in [Operations -> {"out", "queued", "running"}] /\ running \in Nat /\ runningOf \in Counters
  BY <1>0 DEF LocalTypeOK
<1>2. ToSet(line) = OpsIn("queued") /\ o \notin OpsIn("queued")
  BY <1>0 DEF CapacityInUse, OpsIn
<1>3. q \in Seq(Operations) /\ Distinct(q) /\ ToSet(q) = ToSet(line) \cup {o}
  BY <1>0, <1>2, AppendOne DEF LocalTypeOK
<1>4. ToSet(q) = {x \in Operations : places[x] = "queued"}
  <2> HIDE DEF q
  <2> QED BY <1>0, <1>2, <1>3 DEF OpsIn, LocalTypeOK
<1>5. {x \in Operations : places[x] = "running"} = OpsIn("running")
  BY <1>0 DEF OpsIn, LocalTypeOK
<1>6. Counted(running, runningOf, {x \in Operations : places[x] = "running"})
  <2> HIDE DEF places
  <2> QED BY <1>0, <1>5 DEF Counted, CapacityInUse
<1> HIDE DEF q, places
<1> QED BY <1>0, <1>1, <1>3, <1>4, <1>6, AfterDrain

LEMMA ReleasesKeeps ==
  ASSUME LocalInv, NEW o \in Operations, Releases(o)
  PROVE  LocalInv'
<1> DEFINE places == [place EXCEPT ![o] = "out"]
           all == Fewer(running)
           each == [runningOf EXCEPT ![ProviderOf[o]] = Fewer(@)]
<1>0. LocalTypeOK /\ CapacityInUse /\ place[o] = "running" /\ After(Drained(line, all, each), places)
  BY DEF LocalInv, Releases
<1>1. places \in [Operations -> {"out", "queued", "running"}]
  BY <1>0 DEF LocalTypeOK
<1>2. OpsIn("running") \in SUBSET Operations /\ o \in OpsIn("running")
  BY <1>0 DEF OpsIn
<1>3. Counted(running, runningOf, OpsIn("running")) /\ running \in Nat /\ runningOf \in Counters
  BY <1>0 DEF CapacityInUse, Counted, LocalTypeOK
<1>4. Counted(all, each, OpsIn("running") \ {o}) /\ all \in Nat /\ each \in Counters
  BY <1>2, <1>3, CountedOneLess
<1>5. {x \in Operations : places[x] = "running"} = OpsIn("running") \ {o}
  BY <1>0 DEF OpsIn, LocalTypeOK
<1>6. ToSet(line) = {x \in Operations : places[x] = "queued"}
  BY <1>0 DEF OpsIn, LocalTypeOK, CapacityInUse
<1>7. line \in Seq(Operations) /\ Distinct(line)
  BY <1>0 DEF LocalTypeOK
<1> HIDE DEF places, all, each
<1> QED BY <1>0, <1>1, <1>4, <1>5, <1>6, <1>7, AfterDrain

LEMMA AbortsKeeps ==
  ASSUME LocalInv, NEW o \in Operations, Aborts(o)
  PROVE  LocalInv'
<1>0. /\ LocalTypeOK /\ CapacityInUse /\ place[o] = "queued" /\ place' = [place EXCEPT ![o] = "out"]
      /\ running' = running /\ runningOf' = runningOf
  BY DEF LocalInv, Aborts
<1>1. PICK i \in DOMAIN line : line[i] = o /\ line' = RemoveAt(line, i)
  BY DEF Aborts
<1>2. line' \in Seq(Operations) /\ ToSet(line') = ToSet(line) \ {o} /\ Len(line') = Len(line) - 1 /\ Distinct(line')
  BY <1>0, <1>1, RemoveOne DEF LocalTypeOK
<1>3. OpsIn("running")' = OpsIn("running") /\ OpsIn("queued")' = OpsIn("queued") \ {o} /\ o \in OpsIn("queued")
  BY <1>0 DEF OpsIn, LocalTypeOK
<1>4. IsFiniteSet(OpsIn("queued"))
  BY LocalAssumption, FS_Subset DEF OpsIn
<1>5. Cardinality(OpsIn("queued") \ {o}) = Cardinality(OpsIn("queued")) - 1
  BY <1>3, <1>4, FS_RemoveElement
<1>6. LocalTypeOK'
  BY <1>0, <1>2 DEF LocalTypeOK
<1>7. CapacityInUse'
  BY <1>0, <1>2, <1>3, <1>5 DEF CapacityInUse
<1> QED BY <1>6, <1>7 DEF LocalInv

(* The inductive invariant of the capacity of a single process: types, a    *)
(* queue without repetition, and counters and queue that agree with what    *)
(* the operations do.                                                       *)
THEOREM LocalAlways == LocalSpec => []LocalInv
<1>1. LocalInv /\ [LocalNext]_localVars => LocalInv'
  <2> SUFFICES ASSUME LocalInv, [LocalNext]_localVars PROVE LocalInv'
    OBVIOUS
  <2>1. CASE UNCHANGED localVars
    BY <2>1 DEF localVars, LocalInv, LocalTypeOK, CapacityInUse, OpsIn
  <2>2. CASE LocalNext
    <3>1. PICK o \in Operations : StartsAtOnce(o) \/ Queues(o) \/ Aborts(o) \/ Releases(o)
      BY <2>2 DEF LocalNext
    <3> QED BY <3>1, StartsAtOnceKeeps, QueuesKeeps, AbortsKeeps, ReleasesKeeps
  <2> QED BY <2>1, <2>2
<1> QED BY <1>1, InitLocalInv, PTL DEF LocalSpec

(* Whatever order operations arrive, are aborted and end in, both counters  *)
(* are those of the operations that run and keep both limits, the queue     *)
(* holds those that wait, each once, and no waiter could start: a drain     *)
(* leaves nobody behind whom it had room for.                               *)
THEOREM CapacityKept == LocalSpec => []CapacityInUse
<1>1. LocalInv => CapacityInUse
  BY DEF LocalInv
<1> QED BY <1>1, LocalAlways, PTL

-----------------------------------------------------------------------------
(* The order of the waiters. *)
Waits(o)  == place[o] = "queued" /\ place'[o] = "queued"
Starts(o) == place[o] # "running" /\ place'[o] = "running"

(* Who comes after a waiter o, from outside or from behind o in the queue,  *)
(* starts before o only if the provider of o is another one and is at its   *)
(* limit, and else stays behind o.                                          *)
WaitersInOrder ==
    \A o, q \in Operations :
       Waits(o) /\ (place[q] = "out" \/ Before(o, q, line)) =>
          /\ Starts(q) => ProviderOf[q] # ProviderOf[o] /\ runningOf'[ProviderOf[o]] = MaxRunningOf
          /\ place'[q] = "queued" => Before(o, q, line')

LEMMA RemoveKeepsOrder ==
  ASSUME NEW S, NEW q \in Seq(S), NEW k \in DOMAIN q
  PROVE  \A a, b : Before(a, b, q) /\ a # q[k] /\ b # q[k] => Before(a, b, RemoveAt(q, k))
<1> DEFINE r == RemoveAt(q, k)
           n == Len(q)
           at(i) == IF i < k THEN i ELSE i - 1
<1>1. n \in Nat /\ DOMAIN q = 1..n /\ k \in 1..n
  OBVIOUS
<1>2. DOMAIN r = 1..(n - 1) /\ \A i \in 1..(n - 1) : r[i] = IF i < k THEN q[i] ELSE q[i + 1]
  BY RemovedAt
<1> HIDE DEF r, n
<1> SUFFICES ASSUME NEW a, NEW b, Before(a, b, q), a # q[k], b # q[k] PROVE Before(a, b, r)
  BY DEF r
<1>3. PICK i \in 1..n, j \in 1..n : i < j /\ q[i] = a /\ q[j] = b
  BY <1>1 DEF Before
<1>4. at(i) \in 1..(n - 1) /\ at(j) \in 1..(n - 1) /\ at(i) < at(j)
  BY <1>1, <1>3
<1>5. \A h \in 1..n : h # k => (at(h) \in 1..(n - 1) => r[at(h)] = q[h])
  <2> SUFFICES ASSUME NEW h \in 1..n, h # k, at(h) \in 1..(n - 1) PROVE r[at(h)] = q[h]
    OBVIOUS
  <2>1. CASE h < k BY <1>1, <1>2, <2>1
  <2>2. CASE h > k
    <3>1. at(h) = h - 1 /\ ~(h - 1 < k) /\ (h - 1) + 1 = h
      BY <1>1, <2>2
    <3> QED BY <1>1, <1>2, <3>1
  <2> QED BY <1>1, <2>1, <2>2
<1>6. i # k /\ j # k
  BY <1>3
<1>7. r[at(i)] = a /\ r[at(j)] = b
  BY <1>3, <1>4, <1>5, <1>6
<1> HIDE DEF at
<1> QED BY <1>2, <1>4, <1>7 DEF Before

(* A drain keeps the order of the queue it serves.                          *)
LEMMA DrainInOrder ==
  ASSUME LocalTypeOK, NEW places \in [Operations -> {"out", "queued", "running"}],
         NEW q \in Seq(Operations), Distinct(q), ToSet(q) = {o \in Operations : places[o] = "queued"},
         NEW all \in Nat, NEW each \in Counters, Counted(all, each, {o \in Operations : places[o] = "running"}),
         After(Drained(q, all, each), places), NEW o \in Operations, NEW x \in Operations, Before(o, x, q),
         place'[o] = "queued"
  PROVE  /\ place'[x] = "running" =>
               ProviderOf[x] # ProviderOf[o] /\ runningOf'[ProviderOf[o]] = MaxRunningOf
         /\ place'[x] = "queued" => Before(o, x, line')
<1> DEFINE d == Drained(q, all, each)
           R == {y \in Operations : places[y] = "running"}
<1>1. DrainedSoFar(d, ToSet(q), R) /\ OrderSoFar(d, q, Len(q))
  <2>1. R \in SUBSET Operations /\ R \cap ToSet(q) = {}
    OBVIOUS
  <2> HIDE DEF R
  <2>2. Counted(all, each, R)
    BY DEF R
  <2> QED BY <2>1, <2>2, DrainServes
<1>2. /\ line' = d.line /\ runningOf' = d.each
      /\ place' = [y \in Operations |-> IF y \in d.granted THEN "running" ELSE places[y]]
  BY DEF After
<1> HIDE DEF d
<1>3. PICK i \in 1..Len(q), j \in 1..Len(q) : i < j /\ q[i] = o /\ q[j] = x
  BY DEF Before
<1>4. places[x] = "queued" /\ o \notin d.granted
  <2>1. x \in ToSet(q)
    BY <1>3 DEF ToSet
  <2> QED BY <1>2, <2>1
<1>5. MaxRunningOf \in Nat /\ ProviderOf[o] \in LocalProviders
      /\ d.each[ProviderOf[o]] \in Nat /\ d.each[ProviderOf[o]] <= MaxRunningOf
  BY <1>1, LocalAssumption DEF DrainedSoFar, Counted, Drains, Counters, LocalProviders
<1>6. CASE x \in d.granted
  BY <1>1, <1>2, <1>3, <1>4, <1>5, <1>6 DEF OrderSoFar
<1>7. CASE x \notin d.granted
  BY <1>1, <1>2, <1>3, <1>4, <1>7 DEF OrderSoFar
<1> QED BY <1>6, <1>7

LEMMA QueuesInOrder ==
  ASSUME LocalInv, NEW n \in Operations, Queues(n)
  PROVE  WaitersInOrder
<1> DEFINE places == [place EXCEPT ![n] = "queued"]
           q == Append(line, n)
<1>0. /\ LocalTypeOK /\ CapacityInUse /\ place[n] = "out" /\ After(Drained(q, running, runningOf), places)
      /\ running \in Nat /\ runningOf \in Counters /\ line \in Seq(Operations)
  BY DEF LocalInv, Queues, LocalTypeOK
<1>1. places \in [Operations -> {"out", "queued", "running"}] /\ places[n] = "queued"
      /\ \A x \in Operations \ {n} : places[x] = place[x]
  BY <1>0 DEF LocalTypeOK
<1>2. ToSet(line) = OpsIn("queued") /\ n \notin OpsIn("queued")
  BY <1>0 DEF CapacityInUse, OpsIn
<1>3. q \in Seq(Operations) /\ Distinct(q) /\ ToSet(q) = ToSet(line) \cup {n}
  BY <1>0, <1>2, AppendOne DEF LocalTypeOK
<1>4. /\ \A a, b : Before(a, b, line) => Before(a, b, q)
      /\ \A a \in ToSet(line) : Before(a, n, q)
  BY <1>0, AppendBehind
<1> HIDE DEF q
<1>5. ToSet(q) = {x \in Operations : places[x] = "queued"}
  BY <1>0, <1>1, <1>2, <1>3 DEF OpsIn
<1>6. Counted(running, runningOf, {x \in Operations : places[x] = "running"})
  <2>1. {x \in Operations : places[x] = "running"} = OpsIn("running")
    BY <1>0, <1>1 DEF OpsIn
  <2> QED BY <1>0, <2>1 DEF Counted, CapacityInUse
<1> HIDE DEF places
<1> SUFFICES ASSUME NEW o \in Operations, NEW x \in Operations, Waits(o), place[x] = "out" \/ Before(o, x, line),
                    place'[x] \in {"running", "queued"}
             PROVE  /\ place'[x] = "running" =>
                          ProviderOf[x] # ProviderOf[o] /\ runningOf'[ProviderOf[o]] = MaxRunningOf
                    /\ place'[x] = "queued" => Before(o, x, line')
  BY DEF WaitersInOrder, Starts
<1>7. Before(o, x, q)
  <2>1. CASE x = n
    BY <1>2, <1>4, <2>1 DEF Waits, OpsIn
  <2>2. ASSUME x # n, place[x] = "out" PROVE FALSE
    <3>1. DrainedSoFar(Drained(q, running, runningOf), ToSet(q), {y \in Operations : places[y] = "running"})
      <4> DEFINE R == {y \in Operations : places[y] = "running"}
      <4>1. R \in SUBSET Operations /\ R \cap ToSet(q) = {}
        BY <1>5
      <4>2. Counted(running, runningOf, R)
        BY <1>6
      <4> HIDE DEF R
      <4>3. DrainedSoFar(Drained(q, running, runningOf), ToSet(q), R)
        BY <1>0, <1>3, <4>1, <4>2, DrainServes
      <4> QED BY <4>3 DEF R
    <3>2. x \notin Drained(q, running, runningOf).granted
      BY <1>1, <1>5, <2>2, <3>1 DEF DrainedSoFar
    <3> QED BY <1>0, <1>1, <2>2, <3>2 DEF After
  <2> QED BY <1>4, <2>1, <2>2
<1> QED BY <1>0, <1>1, <1>3, <1>5, <1>6, <1>7, DrainInOrder DEF Waits

LEMMA ReleasesInOrder ==
  ASSUME LocalInv, NEW n \in Operations, Releases(n)
  PROVE  WaitersInOrder
<1> DEFINE places == [place EXCEPT ![n] = "out"]
           all == Fewer(running)
           each == [runningOf EXCEPT ![ProviderOf[n]] = Fewer(@)]
<1>0. LocalTypeOK /\ CapacityInUse /\ place[n] = "running" /\ After(Drained(line, all, each), places)
      /\ line \in Seq(Operations) /\ Distinct(line)
  BY DEF LocalInv, Releases, LocalTypeOK
<1>1. places \in [Operations -> {"out", "queued", "running"}] /\ places[n] = "out"
      /\ \A x \in Operations \ {n} : places[x] = place[x]
  BY <1>0 DEF LocalTypeOK
<1>2. OpsIn("running") \in SUBSET Operations /\ n \in OpsIn("running")
  BY <1>0 DEF OpsIn
<1>3. Counted(running, runningOf, OpsIn("running")) /\ running \in Nat /\ runningOf \in Counters
  BY <1>0 DEF CapacityInUse, Counted, LocalTypeOK
<1>4. Counted(all, each, OpsIn("running") \ {n}) /\ all \in Nat /\ each \in Counters
  BY <1>2, <1>3, CountedOneLess
<1> HIDE DEF places, all, each
<1>5. {x \in Operations : places[x] = "running"} = OpsIn("running") \ {n}
  BY <1>0, <1>1 DEF OpsIn
<1>6. ToSet(line) = {x \in Operations : places[x] = "queued"}
  BY <1>0, <1>1 DEF OpsIn, CapacityInUse
<1> SUFFICES ASSUME NEW o \in Operations, NEW x \in Operations, Waits(o), place[x] = "out" \/ Before(o, x, line),
                    place[x] # "running", place'[x] \in {"running", "queued"}
             PROVE  /\ place'[x] = "running" =>
                          ProviderOf[x] # ProviderOf[o] /\ runningOf'[ProviderOf[o]] = MaxRunningOf
                    /\ place'[x] = "queued" => Before(o, x, line')
  <2>1. \A o, x \in Operations : Before(o, x, line) => x \in ToSet(line)
    BY DEF Before, ToSet
  <2>2. \A o, x \in Operations : Before(o, x, line) => place[x] # "running"
    BY <1>0, <2>1 DEF CapacityInUse, OpsIn
  <2> QED BY <2>2 DEF WaitersInOrder, Starts
<1>7. Before(o, x, line)
  <2> SUFFICES ASSUME place[x] = "out" PROVE FALSE
    OBVIOUS
  <2>1. DrainedSoFar(Drained(line, all, each), ToSet(line), OpsIn("running") \ {n})
    <3>1. OpsIn("running") \ {n} \in SUBSET Operations /\ (OpsIn("running") \ {n}) \cap ToSet(line) = {}
      BY <1>2, <1>5, <1>6
    <3> QED BY <1>0, <1>4, <3>1, DrainServes
  <2>2. x \notin Drained(line, all, each).granted /\ x # n
    BY <1>0, <1>1, <1>6, <2>1 DEF DrainedSoFar
  <2> QED BY <1>0, <1>1, <2>2 DEF After
<1>8. Counted(all, each, {y \in Operations : places[y] = "running"})
  BY <1>4, <1>5
<1> QED BY <1>0, <1>1, <1>4, <1>6, <1>7, <1>8, DrainInOrder DEF Waits

LEMMA StartsInOrder ==
  ASSUME LocalInv, NEW n \in Operations, StartsAtOnce(n)
  PROVE  WaitersInOrder
<1>0. /\ LocalTypeOK /\ CapacityInUse /\ place[n] = "out" /\ CanStart(ProviderOf[n], running, runningOf)
      /\ place' = [place EXCEPT ![n] = "running"] /\ line' = line
      /\ runningOf' = [runningOf EXCEPT ![ProviderOf[n]] = @ + 1]
  BY DEF LocalInv, StartsAtOnce
<1>1. /\ place'[n] = "running"
      /\ \A x \in Operations \ {n} : place'[x] = place[x]
      /\ MaxRunning \in Nat /\ MaxRunningOf \in Nat
  BY <1>0, LocalAssumption DEF LocalTypeOK
<1>2. ASSUME NEW o \in Operations, Waits(o)
      PROVE  ProviderOf[n] # ProviderOf[o] /\ runningOf'[ProviderOf[o]] = MaxRunningOf
  <2>1. /\ ~CanStart(ProviderOf[o], running, runningOf) /\ ProviderOf[o] \in LocalProviders
        /\ runningOf[ProviderOf[o]] \in Nat /\ running \in Nat /\ runningOf[ProviderOf[o]] <= MaxRunningOf
    BY <1>0, <1>2 DEF Waits, CapacityInUse, OpsIn, LocalProviders, LocalTypeOK, Counters
  <2>2. ProviderOf[n] # ProviderOf[o] /\ runningOf[ProviderOf[o]] = MaxRunningOf
    BY <1>0, <1>1, <2>1 DEF CanStart
  <2> QED BY <1>0, <2>1, <2>2 DEF LocalTypeOK, Counters
<1>3. ASSUME NEW o \in Operations, NEW x \in Operations, Waits(o), place[x] = "out" \/ Before(o, x, line)
      PROVE  /\ Starts(x) => ProviderOf[x] # ProviderOf[o] /\ runningOf'[ProviderOf[o]] = MaxRunningOf
             /\ place'[x] = "queued" => Before(o, x, line')
  <2>1. Starts(x) => x = n
    BY <1>1 DEF Starts
  <2>2. place'[x] = "queued" => place[x] = "queued"
    <3>1. CASE x = n BY <1>1, <3>1
    <3>2. CASE x # n BY <1>1, <3>2
    <3> QED BY <3>1, <3>2
  <2> QED BY <1>0, <1>2, <1>3, <2>1, <2>2
<1> QED BY <1>3 DEF WaitersInOrder

LEMMA AbortsInOrder ==
  ASSUME LocalInv, NEW n \in Operations, Aborts(n)
  PROVE  WaitersInOrder
<1>0. LocalTypeOK /\ place[n] = "queued" /\ place' = [place EXCEPT ![n] = "out"] /\ line \in Seq(Operations)
      /\ Distinct(line)
  BY DEF LocalInv, Aborts, LocalTypeOK
<1>1. PICK k \in DOMAIN line : line[k] = n /\ line' = RemoveAt(line, k)
  BY DEF Aborts
<1>2. \A a, b : Before(a, b, line) /\ a # n /\ b # n => Before(a, b, line')
  BY <1>0, <1>1, RemoveKeepsOrder
<1>3. place'[n] = "out" /\ \A x \in Operations \ {n} : place'[x] = place[x]
  BY <1>0 DEF LocalTypeOK
<1>4. ASSUME NEW o \in Operations, NEW x \in Operations, Waits(o), place[x] = "out" \/ Before(o, x, line)
      PROVE  ~Starts(x) /\ (place'[x] = "queued" => Before(o, x, line'))
  <2>1. ~Starts(x) /\ o # n /\ (place'[x] = "queued" => x # n /\ place[x] = "queued")
    <3>1. CASE x = n BY <1>0, <1>3, <1>4, <3>1 DEF Starts, Waits
    <3>2. CASE x # n BY <1>0, <1>3, <1>4, <3>2 DEF Starts, Waits
    <3> QED BY <3>1, <3>2
  <2> QED BY <1>2, <1>4, <2>1
<1> QED BY <1>4 DEF WaitersInOrder

(* First come, first served.  Whatever arrives, ends or is aborted, a       *)
(* waiter is overtaken only by operations of other providers, and only      *)
(* while its own provider is at its limit; the waiters of one provider      *)
(* start in the order of their arrival, and the queue keeps its order.      *)
THEOREM ServedInOrder == LocalSpec => [][WaitersInOrder]_localVars
<1>1. LocalInv /\ [LocalNext]_localVars => [WaitersInOrder]_localVars
  <2> SUFFICES ASSUME LocalInv, LocalNext PROVE WaitersInOrder
    OBVIOUS
  <2>1. PICK n \in Operations : StartsAtOnce(n) \/ Queues(n) \/ Aborts(n) \/ Releases(n)
    BY DEF LocalNext
  <2> QED BY <2>1, StartsInOrder, QueuesInOrder, AbortsInOrder, ReleasesInOrder
<1> QED BY <1>1, LocalAlways, PTL DEF LocalSpec

(************************* Idempotency in one process ***********************)

PostRecords == [key : PostKeys, owner : Posts, payload : PostPayloads,
                state : {"pending", "fulfilled"}, size : Nat, lapsed : BOOLEAN]
Leavings    == {"no", "lapsed", "evicted", "ended"}
Tables      == [shelf : Seq(PostRecords), total : Nat, left : [Posts -> Leavings]]

(* A Map has one record of a key, and a post makes one record.              *)
Apart(rs) == \A r, s \in rs : r.owner = s.owner \/ r.key = s.key => r = s

(* The table is in order by itself.                                         *)
TableOK(t) ==
    /\ t \in Tables /\ Distinct(t.shelf) /\ Apart(Held(t))
    /\ t.total = SizeOf(Held(t)) /\ t.total <= PostBudget /\ Len(t.shelf) <= MaxPostRecords

-----------------------------------------------------------------------------
(* Keep passes a sequence once and takes what is in the set.                *)
Keeping(g, S, q, s) ==
    IF s = {} THEN <<>>
    ELSE IF q[Max(s)] \in S THEN Append(g[s \ {Max(s)}], q[Max(s)]) ELSE g[s \ {Max(s)}]
KeptBy(q, S) == CHOOSE g : g = [s \in SUBSET (DOMAIN q) |-> Keeping(g, S, q, s)]
KeepOne(a, x, S) == IF x \in S THEN Append(a, x) ELSE a

KeepsAlong(h, B, q, S) ==
    /\ h \in [0..Len(q) -> Seq(B)] /\ h[0] = <<>> /\ Keep(q, S) = h[Len(q)]
    /\ \A i \in 1..Len(q) : h[i] = KeepOne(h[i - 1], q[i], S)

LEMMA KeepRun ==
  ASSUME NEW B, NEW q \in Seq(B), NEW S
  PROVE  \E h : KeepsAlong(h, B, q, S)
<1> DEFINE A == Seq(B)
           op == [p \in A \X B |-> KeepOne(p[1], p[2], S)]
           I == KeptBy(q, S)
           D == SUBSET (1..Len(q))
<1>1. <<>> \in A
  OBVIOUS
<1>2. op \in [A \X B -> A]
  <2>1. ASSUME NEW a \in A, NEW x \in B PROVE KeepOne(a, x, S) \in A
    BY DEF KeepOne
  <2> QED BY <2>1
<1>3. \A a \in A, x \in B : op[<<a, x>>] = KeepOne(a, x, S)
  OBVIOUS
<1>4. Keep(q, S) = I[DOMAIN q] /\ DOMAIN q = 1..Len(q) /\ Len(q) \in Nat
  BY DEF Keep, FoldLeft, MapThenFoldSet, KeptBy, Keeping
<1> HIDE DEF A, op
<1>5. Tabled(A, B, q, <<>>, op)
  BY <1>1, <1>2 DEF Tabled, A
<1>6. PICK g : FoldsOver(g, A, q, <<>>, op)
  BY <1>5, TableFolds
<1>7. ASSUME NEW s \in D, s # {} PROVE s \ {Max(s)} \in D /\ q[Max(s)] \in B
  BY <1>4, <1>7, LastPosition
<1>8. g = [s \in SUBSET (DOMAIN q) |-> Keeping(g, S, q, s)]
  <2>1. ASSUME NEW s \in D PROVE g[s] = Keeping(g, S, q, s)
    <3>1. g[s] = Passed(g, q, <<>>, op, s)
      BY <1>6 DEF FoldsOver
    <3>2. s # {} => g[s \ {Max(s)}] \in A /\ q[Max(s)] \in B
      BY <1>6, <1>7 DEF FoldsOver
    <3> QED BY <3>1, <3>2, <1>3 DEF Passed, Keeping, KeepOne
  <2> QED BY <2>1, <1>4, <1>6 DEF FoldsOver
<1>9. I = [s \in SUBSET (DOMAIN q) |-> Keeping(I, S, q, s)]
  BY <1>8 DEF KeptBy
<1>10. Follows(I, A, q, <<>>, op)
  <2>1. ASSUME NEW s \in D PROVE I[s] = Keeping(I, S, q, s)
    <3> HIDE DEF I
    <3> QED BY <1>9, <1>4
  <2> HIDE DEF I
  <2> QED BY <2>1, <1>3, <1>7 DEF Keeping, KeepOne, Follows
<1> HIDE DEF I, D
<1>11. PICK h : RunsOver(h, A, q, <<>>, op) /\ h[Len(q)] = I[1..Len(q)]
  BY <1>5, <1>10, FoldRun
<1>12. h \in [0..Len(q) -> A] /\ h[0] = <<>> /\ \A i \in 1..Len(q) : h[i] = op[<<h[i - 1], q[i]>>]
  BY <1>11 DEF RunsOver
<1>13. ASSUME NEW i \in 1..Len(q) PROVE h[i] = KeepOne(h[i - 1], q[i], S)
  <2>1. i - 1 \in 0..Len(q) /\ q[i] \in B
    BY <1>4
  <2> QED BY <1>12, <1>3, <2>1
<1>14. Keep(q, S) = h[Len(q)]
  BY <1>4, <1>11
<1> QED BY <1>12, <1>13, <1>14 DEF A, KeepsAlong

(* What is kept, each once if it was, is what was in the set.               *)
LEMMA KeepHolds ==
  ASSUME NEW B, NEW q \in Seq(B), Distinct(q), NEW S
  PROVE  /\ Keep(q, S) \in Seq(B) /\ ToSet(Keep(q, S)) = ToSet(q) \cap S
         /\ Distinct(Keep(q, S)) /\ Len(Keep(q, S)) <= Len(q)
<1> DEFINE n == Len(q)
           Early(i) == {q[k] : k \in 1..i}
           OK(a, i) == a \in Seq(B) /\ ToSet(a) = Early(i) \cap S /\ Distinct(a) /\ Len(a) <= i
<1>1. n \in Nat /\ DOMAIN q = 1..n /\ \A i \in 1..n : q[i] \in B
  OBVIOUS
<1>0. PICK h : KeepsAlong(h, B, q, S)
  BY KeepRun
<1>2. /\ h \in [0..n -> Seq(B)] /\ h[0] = <<>> /\ Keep(q, S) = h[n]
      /\ \A i \in 1..n : h[i] = KeepOne(h[i - 1], q[i], S)
  BY <1>0 DEF KeepsAlong
<1> DEFINE Bad == {i \in 0..n : ~OK(h[i], i)}
<1>a. ASSUME NEW m \in 1..n, OK(h[m - 1], m - 1) PROVE OK(h[m], m)
  <2>1. m \in Nat /\ m - 1 \in Nat /\ h[m] = KeepOne(h[m - 1], q[m], S) /\ q[m] \in B
    BY <1>1, <1>2
  <2>2. Early(m) = Early(m - 1) \cup {q[m]}
    <3>1. 1..m = (1..(m - 1)) \cup {m}
      BY <1>1
    <3> QED BY <3>1
  <2>3. q[m] \notin Early(m - 1)
    <3> SUFFICES ASSUME NEW k \in 1..(m - 1), q[m] = q[k] PROVE FALSE
      OBVIOUS
    <3>1. k \in DOMAIN q /\ m \in DOMAIN q /\ k # m
      BY <1>1
    <3> QED BY <3>1 DEF Distinct
  <2> DEFINE a == h[m - 1]
  <2>4. a \in Seq(B) /\ ToSet(a) = Early(m - 1) \cap S /\ Distinct(a) /\ Len(a) <= m - 1 /\ Len(a) \in Nat
    BY <1>a
  <2>5. h[m] = KeepOne(a, q[m], S)
    BY <2>1
  <2> HIDE DEF a, Early
  <2>6. CASE q[m] \in S
    <3>1. h[m] = Append(a, q[m]) /\ q[m] \notin ToSet(a)
      BY <2>3, <2>4, <2>5, <2>6 DEF KeepOne
    <3>2. /\ h[m] \in Seq(B) /\ ToSet(h[m]) = ToSet(a) \cup {q[m]} /\ Len(h[m]) = Len(a) + 1 /\ Distinct(h[m])
      BY <2>1, <2>4, <3>1, AppendOne
    <3>3. Len(h[m]) <= m
      BY <2>1, <2>4, <3>2
    <3>4. ToSet(h[m]) = Early(m) \cap S
      BY <2>2, <2>4, <2>6, <3>2
    <3> QED BY <3>2, <3>3, <3>4
  <2>7. CASE q[m] \notin S
    <3>1. h[m] = a
      BY <2>5, <2>7 DEF KeepOne
    <3>2. Len(a) <= m
      BY <2>1, <2>4
    <3>3. ToSet(a) = Early(m) \cap S
      BY <2>2, <2>4, <2>7
    <3> QED BY <2>4, <3>1, <3>2, <3>3
  <2> QED BY <2>6, <2>7
<1>b. OK(h[0], 0)
  <2>1. h[0] = <<>> /\ Early(0) = {} /\ ToSet(<<>>) = {} /\ Distinct(<<>>) /\ Len(<<>>) = 0 /\ <<>> \in Seq(B)
    BY <1>2 DEF ToSet, Distinct
  <2> HIDE DEF Early
  <2> QED BY <2>1
<1> HIDE DEF OK
<1>3. Bad = {}
  <2> SUFFICES ASSUME Bad # {} PROVE FALSE
    OBVIOUS
  <2>1. Bad \in SUBSET Nat
    BY <1>1
  <2>2. PICK m \in Bad : \A k \in Bad : m <= k
    <3> HIDE DEF Bad
    <3> QED BY <2>1, LeastNumber
  <2>3. m \in 0..n /\ ~OK(h[m], m)
    BY <2>2
  <2>4. m # 0
    BY <2>3, <1>b
  <2>5. m \in 1..n /\ m - 1 \in 0..n /\ ~(m <= m - 1)
    BY <1>1, <2>3, <2>4
  <2>6. m - 1 \notin Bad
    <3> HIDE DEF Bad
    <3> QED BY <2>2, <2>5
  <2>7. OK(h[m - 1], m - 1)
    BY <2>5, <2>6
  <2> QED BY <2>3, <2>5, <2>7, <1>a
<1>4. OK(h[n], n) /\ Early(n) = ToSet(q)
  <2>1. n \in 0..n
    BY <1>1
  <2> QED BY <1>1, <1>3, <2>1 DEF ToSet
<1> HIDE DEF Early
<1> QED BY <1>2, <1>4 DEF OK

-----------------------------------------------------------------------------
(* The bytes of records.                                                    *)
SizeTable == [r \in PostRecords |-> r.size]

LEMMA HeldFinite ==
  ASSUME NEW S, NEW q \in Seq(S)
  PROVE  IsFiniteSet(ToSet(q)) /\ ToSet(q) \in SUBSET S
<1> DEFINE n == Len(q)
<1>1. n \in Nat /\ DOMAIN q = 1..n /\ \A i \in 1..n : q[i] \in S
  OBVIOUS
<1>2. IsFiniteSet(1..n)
  BY <1>1, FS_Interval
<1> DEFINE T == {q[i] : i \in 1..n}
           g == [i \in 1..n |-> q[i]]
<1>3. g \in Surjection(1..n, T)
  BY DEF Surjection
<1>4. ToSet(q) = T /\ T \in SUBSET S
  BY <1>1 DEF ToSet
<1> HIDE DEF T, g
<1>5. IsFiniteSet(T)
  BY <1>2, <1>3, FS_Surjection
<1> QED BY <1>4, <1>5

LEMMA SizeIs ==
  ASSUME NEW H \in SUBSET PostRecords, IsFiniteSet(H)
  PROVE  SizeOf(H) = Total(SizeTable, H) /\ Sized(SizeTable, H)
<1> DEFINE h == [r \in H |-> r.size]
<1>1. Sized(SizeTable, H) /\ \A r \in H : h[r] = SizeTable[r]
  BY DEF Sized, SizeTable, PostRecords
<1>2. Total(h, H) = Total(SizeTable, H)
  <2> HIDE DEF h
  <2> QED BY <1>1, TotalSame
<1>3. SizeOf(H) = Total(h, H)
  BY DEF SizeOf, SumFunction, SumFunctionOnSet, FoldFunction, FoldFunctionOnSet, Total, MapThenSumSet, MapThenFoldSet
<1> QED BY <1>1, <1>2, <1>3

LEMMA SizeSplit ==
  ASSUME NEW H \in SUBSET PostRecords, IsFiniteSet(H), NEW G \in SUBSET H
  PROVE  /\ SizeOf(H) = SizeOf(G) + SizeOf(H \ G)
         /\ SizeOf(H) \in Nat /\ SizeOf(G) \in Nat /\ SizeOf(H \ G) \in Nat
<1>1. /\ IsFiniteSet(G) /\ IsFiniteSet(H \ G)
      /\ G \in SUBSET PostRecords /\ H \ G \in SUBSET PostRecords /\ H \ G \in SUBSET H /\ H \in SUBSET H
  BY FS_Subset
<1>2. SizeOf(H) = Total(SizeTable, H) /\ Sized(SizeTable, H)
      /\ SizeOf(G) = Total(SizeTable, G) /\ SizeOf(H \ G) = Total(SizeTable, H \ G)
  BY <1>1, SizeIs
<1>3. Total(SizeTable, H) = Total(SizeTable, G) + Total(SizeTable, H \ G)
  BY <1>1, <1>2, TotalUnion
<1>4. Total(SizeTable, H) \in Nat /\ Total(SizeTable, G) \in Nat /\ Total(SizeTable, H \ G) \in Nat
  BY <1>1, <1>2, TotalStep
<1> QED BY <1>2, <1>3, <1>4

LEMMA SizeAdd ==
  ASSUME NEW H \in SUBSET PostRecords, IsFiniteSet(H), NEW x \in PostRecords, x \notin H
  PROVE  SizeOf(H \cup {x}) = SizeOf(H) + x.size /\ SizeOf(H) \in Nat /\ x.size \in Nat
<1> DEFINE D == H \cup {x}
<1>1. IsFiniteSet(D) /\ D \in SUBSET PostRecords /\ x \in D /\ D \in SUBSET D /\ D \ {x} = H
  BY FS_AddElement
<1> HIDE DEF D
<1>2. SizeOf(D) = Total(SizeTable, D) /\ Sized(SizeTable, D) /\ SizeOf(H) = Total(SizeTable, H)
  BY <1>1, SizeIs
<1>3. Total(SizeTable, D) = SizeTable[x] + Total(SizeTable, D \ {x})
  BY <1>1, <1>2, TotalAdd
<1>4. SizeTable[x] = x.size /\ x.size \in Nat
  BY DEF SizeTable, PostRecords
<1>5. SizeOf(H) \in Nat
  BY SizeSplit
<1>6. Total(SizeTable, D) = x.size + Total(SizeTable, H)
  BY <1>1, <1>3, <1>4
<1> QED BY <1>2, <1>4, <1>5, <1>6 DEF D

LEMMA NoBytes == SizeOf({}) = 0
<1>1. IsFiniteSet({}) /\ {} \in SUBSET PostRecords /\ {} \in SUBSET {}
  BY FS_EmptySet
<1>2. SizeOf({}) = Total(SizeTable, {}) /\ Sized(SizeTable, {})
  BY <1>1, SizeIs
<1> QED BY <1>1, <1>2, TotalStep

-----------------------------------------------------------------------------
(* Records are taken away from a table, and how they went is noted.         *)
Shrinks(t, d, how) ==
    /\ TableOK(d) /\ Held(d) \subseteq Held(t)
    /\ Len(d.shelf) <= Len(t.shelf) /\ d.total <= t.total
    /\ \A p \in Posts :
          d.left[p] = IF \E r \in Held(t) \ Held(d) : r.owner = p THEN how ELSE t.left[p]

LEMMA Deleted ==
  ASSUME NEW t, TableOK(t), NEW owners, NEW how \in Leavings
  PROVE  /\ Shrinks(t, Delete(t, owners, how), how)
         /\ Held(Delete(t, owners, how)) = {r \in Held(t) : r.owner \notin owners}
<1> DEFINE d == Delete(t, owners, how)
           gone == {r \in Held(t) : r.owner \in owners}
           rest == Held(t) \ gone
           size == SizeOf(gone)
<1>1. /\ t.shelf \in Seq(PostRecords) /\ Distinct(t.shelf) /\ t.total \in Nat /\ t.left \in [Posts -> Leavings]
      /\ t.total = SizeOf(Held(t)) /\ t.total <= PostBudget /\ Len(t.shelf) <= MaxPostRecords
      /\ Len(t.shelf) \in Nat
  BY DEF TableOK, Tables
<1>2. IsFiniteSet(Held(t)) /\ Held(t) \in SUBSET PostRecords
  BY <1>1, HeldFinite DEF Held
<1>3. /\ d.shelf = Keep(t.shelf, rest)
      /\ d.total = IF t.total > size THEN t.total - size ELSE 0
      /\ d.left = [p \in Posts |-> IF \E r \in gone : r.owner = p THEN how ELSE t.left[p]]
      /\ d = [shelf |-> d.shelf, total |-> d.total, left |-> d.left]
  BY DEF Delete
<1>4. gone \in SUBSET Held(t) /\ rest \in SUBSET Held(t) /\ Held(t) \ rest = gone
      /\ rest = {r \in Held(t) : r.owner \notin owners}
  OBVIOUS
<1> HIDE DEF d, gone, rest
<1>5. /\ d.shelf \in Seq(PostRecords) /\ ToSet(d.shelf) = ToSet(t.shelf) \cap rest
      /\ Distinct(d.shelf) /\ Len(d.shelf) <= Len(t.shelf)
  BY <1>1, <1>3, KeepHolds
<1>6. Held(d) = rest
  BY <1>4, <1>5 DEF Held
<1>7. size \in Nat /\ SizeOf(rest) \in Nat /\ t.total = size + SizeOf(rest)
  <2>1. SizeOf(Held(t)) = SizeOf(rest) + SizeOf(gone) /\ SizeOf(rest) \in Nat /\ SizeOf(gone) \in Nat
    BY <1>2, <1>4, SizeSplit
  <2> QED BY <1>1, <2>1
<1> HIDE DEF size
<1>8. d.total = SizeOf(rest) /\ d.total \in Nat /\ d.total <= t.total
  BY <1>1, <1>3, <1>7
<1>9. d.left \in [Posts -> Leavings]
      /\ \A p \in Posts : d.left[p] = IF \E r \in gone : r.owner = p THEN how ELSE t.left[p]
  BY <1>1, <1>3
<1>10. d \in Tables
  BY <1>3, <1>5, <1>8, <1>9 DEF Tables
<1>11. Apart(Held(d))
  BY <1>4, <1>6 DEF TableOK, Apart
<1>12. d.total <= PostBudget /\ Len(d.shelf) <= MaxPostRecords /\ d.total = SizeOf(Held(d))
  <2>1. Len(d.shelf) \in Nat /\ MaxPostRecords \in Nat /\ PostBudget \in Nat
    BY <1>5, PostAssumption
  <2> QED BY <1>1, <1>5, <1>6, <1>8, <2>1
<1>13. TableOK(d)
  BY <1>5, <1>10, <1>11, <1>12 DEF TableOK
<1>14. Shrinks(t, d, how)
  BY <1>4, <1>5, <1>6, <1>8, <1>9, <1>13 DEF Shrinks
<1> QED BY <1>4, <1>6, <1>14 DEF d, rest

(* Eviction takes what is fulfilled, and no more than there is.             *)
LEMMA EvictionTakes ==
  ASSUME NEW t, TableOK(t), NEW enough \in SUBSET Evictions(t)
  PROVE  /\ Shrinks(t, Evicted(t, enough), "evicted")
         /\ \A r \in Held(t) \ Held(Evicted(t, enough)) : r.state = "fulfilled"
<1> DEFINE c == Completed(t)
           done == {r \in Held(t) : r.state = "fulfilled"}
           m == Min(enough \cup {Len(c)})
           owners == {c[i].owner : i \in 1..m}
<1>1. t.shelf \in Seq(PostRecords) /\ Distinct(t.shelf)
  BY DEF TableOK, Tables
<1>2. c \in Seq(PostRecords) /\ ToSet(c) = done
  <2>1. c = Keep(t.shelf, done)
    BY DEF Completed
  <2> HIDE DEF c, done
  <2>2. c \in Seq(PostRecords) /\ ToSet(c) = ToSet(t.shelf) \cap done
    BY <1>1, <2>1, KeepHolds
  <2> QED BY <2>2 DEF done, Held
<1>3. enough \in SUBSET (0..Len(c))
  BY DEF Evictions
<1> HIDE DEF c
<1>4. Len(c) \in Nat /\ DOMAIN c = 1..Len(c)
  BY <1>2
<1>5. m \in 0..Len(c)
  <2> DEFINE T == enough \cup {Len(c)}
  <2>1. T \in SUBSET Nat /\ T # {} /\ T \in SUBSET (0..Len(c))
    <3>1. Len(c) \in 0..Len(c) /\ 0..Len(c) \in SUBSET Nat
      BY <1>4
    <3>2. T \in SUBSET (0..Len(c))
      BY <1>3, <3>1
    <3> HIDE DEF m, owners
    <3> QED BY <3>1, <3>2
  <2>2. \E x \in T : \A y \in T : x <= y
    <3> HIDE DEF T
    <3> QED BY <2>1, LeastNumber
  <2>3. Min(T) \in T
    <3> HIDE DEF T
    <3> QED BY <2>2 DEF Min
  <2> QED BY <2>1, <2>3
<1>6. Evicted(t, enough) = Delete(t, owners, "evicted")
  BY DEF Evicted, WithoutOldest, c
<1> HIDE DEF m
<1>7. ASSUME NEW r \in Held(t), r.owner \in owners PROVE r.state = "fulfilled"
  <2>1. PICK i \in 1..m : r.owner = c[i].owner
    BY <1>7
  <2>2. i \in DOMAIN c
    BY <1>4, <1>5
  <2>3. c[i] \in done
    BY <1>2, <2>2 DEF ToSet
  <2>4. r = c[i]
    BY <2>1, <2>3 DEF TableOK, Apart
  <2> QED BY <2>3, <2>4
<1> HIDE DEF owners
<1>8. "evicted" \in Leavings
  BY DEF Leavings
<1>9. /\ Shrinks(t, Evicted(t, enough), "evicted")
      /\ Held(Evicted(t, enough)) = {r \in Held(t) : r.owner \notin owners}
  BY <1>6, <1>8, Deleted
<1> QED BY <1>7, <1>9

-----------------------------------------------------------------------------
(* Posts and records point to each other.                                   *)
PostStates == [at : {"new", "executing", "waiting", "done"}, key : PostKeys \cup {NoPost},
               payload : PostPayloads \cup {NoPost}, awaits : Posts \cup {NoPost},
               answer : Posts \cup {NoPost}]

Alike(x, y) == x.key = y.key /\ x.payload = y.payload

RecordLinked(r, t, ps) ==
    /\ Alike(ps[r.owner], r) /\ t.left[r.owner] = "no"
    /\ r.state = "pending" => ps[r.owner].at = "executing" /\ r.size = 0
    /\ r.state = "fulfilled" => ps[r.owner].at = "done" /\ ps[r.owner].answer = r.owner

OwnRecord(p, t) == \E r \in Held(t) : r.owner = p

PostLinked(p, t, ps) ==
    /\ ps[p].at = "new" => t.left[p] = "no"
    /\ ps[p].at = "executing" => OwnRecord(p, t) \/ t.left[p] = "lapsed"
    /\ ps[p].at = "waiting" =>
          /\ ps[p].awaits \in Posts /\ ps[ps[p].awaits].at = "executing"
          /\ Alike(ps[p], ps[ps[p].awaits])
    /\ ps[p].answer # NoPost =>
          /\ ps[p].at = "done" /\ ps[ps[p].answer].at = "done"
          /\ ps[ps[p].answer].answer = ps[p].answer /\ Alike(ps[p], ps[ps[p].answer])
    /\ ps[p].answer = p => OwnRecord(p, t) \/ t.left[p] # "no"

Linked(t, ps) ==
    /\ ps \in [Posts -> PostStates]
    /\ \A r \in Held(t) : RecordLinked(r, t, ps)
    /\ \A p \in Posts : PostLinked(p, t, ps)

LocalSearchInv == TableOK(Table) /\ Linked(Table, post) /\ lapses \in Nat

(* Records that lapse, or that are fulfilled, may go.                       *)
LEMMA ShrinkKeeps ==
  ASSUME NEW t, TableOK(t), NEW d, NEW how \in Leavings \ {"no"}, Shrinks(t, d, how),
         NEW ps, Linked(t, ps),
         how = "lapsed" \/ \A r \in Held(t) \ Held(d) : r.state = "fulfilled"
  PROVE  Linked(d, ps)
<1>1. Held(t) \in SUBSET PostRecords
  BY HeldFinite DEF TableOK, Tables, Held
<1>2. \A r \in Held(t) : r.owner \in Posts /\ r.state \in {"pending", "fulfilled"}
  BY <1>1 DEF PostRecords
<1>3. ASSUME NEW r \in Held(d) PROVE RecordLinked(r, d, ps)
  <2>1. r \in Held(t) /\ RecordLinked(r, t, ps) /\ r.owner \in Posts
    BY <1>2 DEF Shrinks, Linked
  <2>2. ~\E x \in Held(t) \ Held(d) : x.owner = r.owner
    BY <2>1 DEF TableOK, Apart
  <2>3. d.left[r.owner] = t.left[r.owner]
    BY <2>1, <2>2 DEF Shrinks
  <2> QED BY <2>1, <2>3 DEF RecordLinked
<1>4. ASSUME NEW p \in Posts PROVE PostLinked(p, d, ps)
  <2>1. PostLinked(p, t, ps)
    BY DEF Linked
  <2>2. CASE \E r \in Held(t) \ Held(d) : r.owner = p
    <3>1. PICK r \in Held(t) \ Held(d) : r.owner = p
      BY <2>2
    <3>2. RecordLinked(r, t, ps) /\ d.left[p] = how
      BY <2>2, <3>1 DEF Linked, Shrinks
    <3>3. ps[p].at # "new" /\ (ps[p].at = "executing" => how = "lapsed")
      BY <1>2, <3>1, <3>2 DEF RecordLinked
    <3> QED BY <2>1, <3>2, <3>3 DEF PostLinked
  <2>3. CASE ~\E r \in Held(t) \ Held(d) : r.owner = p
    <3>1. d.left[p] = t.left[p] /\ (OwnRecord(p, t) => OwnRecord(p, d))
      BY <2>3 DEF Shrinks, OwnRecord
    <3> QED BY <2>1, <3>1 DEF PostLinked
  <2> QED BY <2>2, <2>3
<1> QED BY <1>3, <1>4 DEF Linked

(* A post that arrives changes nothing for the others.                      *)
LEMMA NewAlone ==
  ASSUME NEW t, NEW ps, Linked(t, ps), NEW p \in Posts, ps[p].at = "new"
  PROVE  /\ \A r \in Held(t) : r.state \in {"pending", "fulfilled"} => r.owner # p
         /\ \A q \in Posts : ps[q].awaits = p => ps[q].at # "waiting"
         /\ \A q \in Posts : ps[q].answer # p
         /\ t.left[p] = "no" /\ ps[p].answer = NoPost
<1>1. ASSUME NEW q \in Posts PROVE (ps[q].awaits = p => ps[q].at # "waiting") /\ ps[q].answer # p
  <2>1. PostLinked(q, t, ps) /\ p # NoPost
    BY PostAssumption DEF Linked
  <2> QED BY <2>1 DEF PostLinked
<1>2. ASSUME NEW r \in Held(t), r.state \in {"pending", "fulfilled"} PROVE r.owner # p
  BY <1>2 DEF Linked, RecordLinked
<1>3. PostLinked(p, t, ps)
  BY DEF Linked
<1> QED BY <1>1, <1>2, <1>3 DEF PostLinked

LEMMA JoinKeeps ==
  ASSUME NEW t, TableOK(t), NEW ps, Linked(t, ps), NEW p \in Posts, ps[p].at = "new",
         NEW k \in PostKeys, NEW f \in PostPayloads, NEW r \in Held(t), r.key = k
  PROVE  Linked(t, [ps EXCEPT ![p] = Joined(k, f, r)])
<1> DEFINE j == Joined(k, f, r)
           ns == [ps EXCEPT ![p] = j]
<1>1. Held(t) \in SUBSET PostRecords
  BY HeldFinite DEF TableOK, Tables, Held
<1>2. r.owner \in Posts /\ r.state \in {"pending", "fulfilled"}
      /\ \A x \in Held(t) : x.owner \in Posts /\ x.state \in {"pending", "fulfilled"}
  BY <1>1 DEF PostRecords
<1>3. ps \in [Posts -> PostStates] /\ RecordLinked(r, t, ps)
  BY DEF Linked
<1>4. /\ \A x \in Held(t) : x.owner # p
      /\ \A q \in Posts : ps[q].awaits = p => ps[q].at # "waiting"
      /\ \A q \in Posts : ps[q].answer # p
      /\ t.left[p] = "no"
  BY <1>2, NewAlone
<1>5. j \in PostStates
  BY <1>2 DEF Joined, PostStates
<1>6. /\ j.key = k /\ j.payload = f /\ j.at \in {"waiting", "done"} /\ j.awaits = r.owner
      /\ j.at = "waiting" => r.payload = f /\ r.state = "pending"
      /\ j.answer # NoPost => r.payload = f /\ r.state = "fulfilled" /\ j.answer = r.owner /\ j.at = "done"
  BY DEF Joined
<1>7. ns \in [Posts -> PostStates] /\ ns[p] = j /\ \A q \in Posts : q # p => ns[q] = ps[q]
  BY <1>3, <1>5
<1> HIDE DEF j, ns
<1>8. ASSUME NEW x \in Held(t) PROVE RecordLinked(x, t, ns)
  <2>1. RecordLinked(x, t, ps) /\ x.owner \in Posts /\ ns[x.owner] = ps[x.owner]
    BY <1>2, <1>4, <1>7 DEF Linked
  <2> QED BY <2>1 DEF RecordLinked
<1>9. ASSUME NEW q \in Posts, q # p PROVE PostLinked(q, t, ns)
  <2>1. PostLinked(q, t, ps) /\ ns[q] = ps[q] /\ ps[q] \in PostStates
    BY <1>3, <1>7, <1>9 DEF Linked
  <2>2. ps[q].at = "waiting" => ns[ps[q].awaits] = ps[ps[q].awaits]
    BY <1>4, <1>7, <2>1 DEF PostLinked
  <2>3. ps[q].answer # NoPost => ns[ps[q].answer] = ps[ps[q].answer]
    BY <1>4, <1>7, <2>1 DEF PostStates
  <2> QED BY <2>1, <2>2, <2>3 DEF PostLinked
<1>10. PostLinked(p, t, ns)
  <2>1. ns[p] = j /\ r.owner # p /\ ns[r.owner] = ps[r.owner] /\ r.owner \in Posts /\ r.owner # NoPost
    BY <1>2, <1>4, <1>7, PostAssumption
  <2>2. Alike(ps[r.owner], r) /\ (r.state = "pending" => ps[r.owner].at = "executing")
        /\ (r.state = "fulfilled" => ps[r.owner].at = "done" /\ ps[r.owner].answer = r.owner)
    BY <1>3 DEF RecordLinked
  <2>3. r.payload = f => Alike(j, ps[r.owner])
    BY <1>6, <2>2 DEF Alike
  <2>4. j.answer # p
    BY <1>6, <2>1, PostAssumption
  <2> QED BY <1>6, <2>1, <2>2, <2>3, <2>4 DEF PostLinked
<1> QED BY <1>7, <1>8, <1>9, <1>10 DEF Linked, ns, j

(* A post for which there is no room.                                       *)
To(ps, p, k, f, where) == [ps EXCEPT ![p].key = k, ![p].payload = f, ![p].at = where]

LEMMA ToIs ==
  ASSUME NEW ps \in [Posts -> PostStates], NEW p \in Posts,
         NEW k \in PostKeys, NEW f \in PostPayloads, NEW where \in {"executing", "done"}
  PROVE  /\ To(ps, p, k, f, where) \in [Posts -> PostStates]
         /\ \A q \in Posts : q # p => To(ps, p, k, f, where)[q] = ps[q]
         /\ To(ps, p, k, f, where)[p].at = where
         /\ To(ps, p, k, f, where)[p].key = k /\ To(ps, p, k, f, where)[p].payload = f
         /\ To(ps, p, k, f, where)[p].awaits = ps[p].awaits
         /\ To(ps, p, k, f, where)[p].answer = ps[p].answer
  BY DEF To, PostStates

LEMMA RefuseKeeps ==
  ASSUME NEW t, TableOK(t), NEW ps, Linked(t, ps), NEW p \in Posts, ps[p].at = "new",
         NEW k \in PostKeys, NEW f \in PostPayloads
  PROVE  Linked(t, To(ps, p, k, f, "done"))
<1> DEFINE ns == To(ps, p, k, f, "done")
<1>1. Held(t) \in SUBSET PostRecords
  BY HeldFinite DEF TableOK, Tables, Held
<1>2. \A x \in Held(t) : x.owner \in Posts /\ x.state \in {"pending", "fulfilled"}
  BY <1>1 DEF PostRecords
<1>3. ps \in [Posts -> PostStates]
  BY DEF Linked
<1>4. /\ \A x \in Held(t) : x.owner # p
      /\ \A q \in Posts : ps[q].awaits = p => ps[q].at # "waiting"
      /\ \A q \in Posts : ps[q].answer # p
      /\ ps[p].answer = NoPost
  BY <1>2, NewAlone
<1>7. ns \in [Posts -> PostStates] /\ ns[p].at = "done" /\ ns[p].answer = NoPost
      /\ \A q \in Posts : q # p => ns[q] = ps[q]
  BY <1>3, <1>4, ToIs
<1> HIDE DEF ns
<1>8. ASSUME NEW x \in Held(t) PROVE RecordLinked(x, t, ns)
  <2>1. RecordLinked(x, t, ps) /\ x.owner \in Posts /\ ns[x.owner] = ps[x.owner]
    BY <1>2, <1>4, <1>7 DEF Linked
  <2> QED BY <2>1 DEF RecordLinked
<1>9. ASSUME NEW q \in Posts, q # p PROVE PostLinked(q, t, ns)
  <2>1. PostLinked(q, t, ps) /\ ns[q] = ps[q] /\ ps[q] \in PostStates
    BY <1>3, <1>7, <1>9 DEF Linked
  <2>2. ps[q].at = "waiting" => ns[ps[q].awaits] = ps[ps[q].awaits]
    BY <1>4, <1>7, <2>1 DEF PostLinked
  <2>3. ps[q].answer # NoPost => ns[ps[q].answer] = ps[ps[q].answer]
    BY <1>4, <1>7, <2>1 DEF PostStates
  <2> QED BY <2>1, <2>2, <2>3 DEF PostLinked
<1>10. PostLinked(p, t, ns)
  BY <1>7, PostAssumption DEF PostLinked
<1> QED BY <1>7, <1>8, <1>9, <1>10 DEF Linked, ns

(* A post that makes a record of its own.                                   *)
Opened(t, x) == [t EXCEPT !.shelf = Append(@, x)]

LEMMA OpenKeeps ==
  ASSUME NEW t, TableOK(t), NEW ps, Linked(t, ps), NEW p \in Posts, ps[p].at = "new",
         NEW k \in PostKeys, NEW f \in PostPayloads,
         RoomForRecord(t), \A r \in Held(t) : r.key # k
  PROVE  LET d == Opened(t, Record(p, k, f))
         IN  TableOK(d) /\ Linked(d, To(ps, p, k, f, "executing"))
<1> DEFINE x == Record(p, k, f)
           d == Opened(t, x)
           ns == To(ps, p, k, f, "executing")
<1>1. Held(t) \in SUBSET PostRecords /\ IsFiniteSet(Held(t))
  BY HeldFinite DEF TableOK, Tables, Held
<1>2. \A y \in Held(t) : y.owner \in Posts /\ y.state \in {"pending", "fulfilled"}
  BY <1>1 DEF PostRecords
<1>3. ps \in [Posts -> PostStates]
  BY DEF Linked
<1>4. /\ \A y \in Held(t) : y.owner # p
      /\ \A q \in Posts : ps[q].awaits = p => ps[q].at # "waiting"
      /\ \A q \in Posts : ps[q].answer # p
      /\ t.left[p] = "no" /\ ps[p].answer = NoPost
  BY <1>2, NewAlone
<1>5. x \in PostRecords /\ x.owner = p /\ x.key = k /\ x.payload = f /\ x.size = 0 /\ x.state = "pending"
  BY DEF Record, PostRecords
<1>6. ns \in [Posts -> PostStates] /\ ns[p].at = "executing" /\ ns[p].answer = NoPost
      /\ ns[p].key = k /\ ns[p].payload = f
      /\ \A q \in Posts : q # p => ns[q] = ps[q]
  BY <1>3, <1>4, ToIs
<1>7. /\ t \in Tables /\ t.shelf \in Seq(PostRecords) /\ Distinct(t.shelf) /\ Apart(Held(t))
      /\ t.total = SizeOf(Held(t)) /\ t.total <= PostBudget
      /\ Len(t.shelf) < MaxPostRecords /\ Len(t.shelf) \in Nat /\ MaxPostRecords \in Nat
  BY PostAssumption DEF TableOK, Tables, RoomForRecord
<1> HIDE DEF x, ns
<1>8. d \in Tables /\ d.shelf = Append(t.shelf, x) /\ d.total = t.total /\ d.left = t.left
  <2>1. Append(t.shelf, x) \in Seq(PostRecords)
    BY <1>5, <1>7
  <2> QED BY <1>7, <2>1 DEF Opened, Tables
<1>9. x \notin Held(t)
  BY <1>4, <1>5
<1>10. /\ d.shelf \in Seq(PostRecords) /\ Held(d) = Held(t) \cup {x} /\ Distinct(d.shelf)
       /\ Len(d.shelf) = Len(t.shelf) + 1 /\ d.total = t.total /\ d.left = t.left
  BY <1>5, <1>7, <1>8, <1>9, AppendOne DEF Held
<1>11. TableOK(d)
  <2>1. d \in Tables
    BY <1>8
  <2>2. Apart(Held(d))
    BY <1>4, <1>5, <1>7, <1>10 DEF Apart
  <2>3. SizeOf(Held(d)) = SizeOf(Held(t))
    BY <1>1, <1>5, <1>9, <1>10, SizeAdd
  <2> HIDE DEF d
  <2>4. Len(d.shelf) <= MaxPostRecords
    BY <1>7, <1>10
  <2> QED BY <1>7, <1>10, <2>1, <2>2, <2>3, <2>4 DEF TableOK
<1> HIDE DEF d
<1>12. ASSUME NEW y \in Held(d) PROVE RecordLinked(y, d, ns)
  <2>1. CASE y \in Held(t)
    <3>1. RecordLinked(y, t, ps) /\ y.owner \in Posts /\ ns[y.owner] = ps[y.owner]
      BY <1>2, <1>4, <1>6, <2>1 DEF Linked
    <3> QED BY <1>10, <3>1 DEF RecordLinked
  <2>2. CASE y = x
    BY <1>4, <1>5, <1>6, <1>10, <2>2 DEF RecordLinked, Alike
  <2> QED BY <1>10, <2>1, <2>2
<1>13. ASSUME NEW q \in Posts, q # p PROVE PostLinked(q, d, ns)
  <2>1. PostLinked(q, t, ps) /\ ns[q] = ps[q] /\ ps[q] \in PostStates
    BY <1>3, <1>6, <1>13 DEF Linked
  <2>2. ps[q].at = "waiting" => ns[ps[q].awaits] = ps[ps[q].awaits]
    BY <1>4, <1>6, <2>1 DEF PostLinked
  <2>3. ps[q].answer # NoPost => ns[ps[q].answer] = ps[ps[q].answer]
    BY <1>4, <1>6, <2>1 DEF PostStates
  <2>4. OwnRecord(q, t) => OwnRecord(q, d)
    BY <1>10 DEF OwnRecord
  <2> QED BY <1>10, <2>1, <2>2, <2>3, <2>4 DEF PostLinked
<1>14. PostLinked(p, d, ns)
  <2>1. OwnRecord(p, d)
    BY <1>5, <1>10 DEF OwnRecord
  <2> QED BY <1>6, <2>1, PostAssumption DEF PostLinked
<1> QED BY <1>6, <1>11, <1>12, <1>13, <1>14 DEF Linked, d, ns, x

-----------------------------------------------------------------------------
(* A record becomes another one of the same post and key.                   *)
Swapped(q, i, x) == [j \in DOMAIN q |-> IF j = i THEN x ELSE q[j]]

LEMMA SwapOne ==
  ASSUME NEW S, NEW q \in Seq(S), Distinct(q), NEW i \in DOMAIN q, NEW x \in S, x \notin ToSet(q) \ {q[i]}
  PROVE  /\ Swapped(q, i, x) \in Seq(S) /\ Len(Swapped(q, i, x)) = Len(q) /\ Distinct(Swapped(q, i, x))
         /\ ToSet(Swapped(q, i, x)) = (ToSet(q) \ {q[i]}) \cup {x}
<1> DEFINE r == Swapped(q, i, x)
           n == Len(q)
<1>1. n \in Nat /\ DOMAIN q = 1..n /\ \A j \in 1..n : q[j] \in S
  OBVIOUS
<1>2. r = [j \in 1..n |-> IF j = i THEN x ELSE q[j]]
  BY <1>1 DEF Swapped
<1>3. r \in Seq(S) /\ Len(r) = n /\ DOMAIN r = 1..n /\ \A j \in 1..n : r[j] = IF j = i THEN x ELSE q[j]
  BY <1>1, <1>2
<1> HIDE DEF r
<1>4. \A j \in 1..n : j # i => q[j] # q[i] /\ q[j] \in ToSet(q)
  BY <1>1 DEF Distinct, ToSet
<1>5. \A j \in 1..n : r[j] = x => j = i
  BY <1>3, <1>4
<1>6. Distinct(r)
  BY <1>1, <1>3, <1>5 DEF Distinct
<1>7. ASSUME NEW y \in ToSet(r) PROVE y \in (ToSet(q) \ {q[i]}) \cup {x}
  <2>1. PICK j \in 1..n : y = r[j]
    BY <1>3, <1>7 DEF ToSet
  <2> QED BY <1>3, <1>4, <2>1
<1>8. ASSUME NEW y \in ToSet(q) \ {q[i]} PROVE y \in ToSet(r)
  <2>1. PICK j \in 1..n : y = q[j] /\ j # i
    BY <1>1, <1>8 DEF ToSet
  <2> QED BY <1>3, <2>1 DEF ToSet
<1>9. x \in ToSet(r)
  BY <1>1, <1>3 DEF ToSet
<1> QED BY <1>1, <1>3, <1>6, <1>7, <1>8, <1>9 DEF r

LEMMA TableSwap ==
  ASSUME NEW t, TableOK(t), NEW i \in DOMAIN t.shelf, NEW x \in PostRecords,
         x.owner = t.shelf[i].owner, x.key = t.shelf[i].key,
         NEW d \in Tables, d.shelf = Swapped(t.shelf, i, x), d.left = t.left,
         d.total + t.shelf[i].size = t.total + x.size, d.total <= PostBudget
  PROVE  TableOK(d) /\ Held(d) = (Held(t) \ {t.shelf[i]}) \cup {x} /\ t.shelf[i] \in Held(t)
<1> DEFINE r == t.shelf[i]
           H == Held(t)
<1>1. /\ t.shelf \in Seq(PostRecords) /\ Distinct(t.shelf) /\ Apart(H) /\ t.total = SizeOf(H)
      /\ Len(t.shelf) <= MaxPostRecords
  BY DEF TableOK, Tables
<1>2. H \in SUBSET PostRecords /\ IsFiniteSet(H)
  BY <1>1, HeldFinite DEF Held
<1>3. r \in H /\ r \in PostRecords
  BY <1>1, <1>2 DEF Held, ToSet
<1>4. x \notin H \ {r}
  BY <1>1, <1>3 DEF Apart
<1>5. /\ Len(d.shelf) = Len(t.shelf) /\ Distinct(d.shelf) /\ Held(d) = (H \ {r}) \cup {x}
  BY <1>1, <1>4, SwapOne DEF Held
<1> HIDE DEF r, H
<1>6. Apart(Held(d))
  BY <1>1, <1>3, <1>5 DEF Apart, r
<1>7. H \ {r} \in SUBSET PostRecords /\ IsFiniteSet(H \ {r}) /\ (H \ {r}) \cup {r} = H
  BY <1>2, <1>3, FS_Subset
<1>8. SizeOf(Held(d)) = SizeOf(H \ {r}) + x.size /\ SizeOf(H \ {r}) \in Nat /\ x.size \in Nat
  BY <1>4, <1>5, <1>7, SizeAdd
<1>9. SizeOf(H) = SizeOf(H \ {r}) + r.size /\ r.size \in Nat
  BY <1>3, <1>7, SizeAdd
<1>10. d.total = SizeOf(Held(d))
  <2>1. d.total \in Nat /\ d.total + r.size = t.total + x.size
    BY DEF Tables, r
  <2> QED BY SMTT(30), <1>1, <1>8, <1>9, <2>1
<1>11. TableOK(d)
  BY <1>1, <1>5, <1>6, <1>10 DEF TableOK
<1> QED BY <1>3, <1>5, <1>11 DEF r, H

-----------------------------------------------------------------------------
(* The promise of p settles.                                                *)
Settled(ps, p, answer) ==
    [q \in Posts |-> IF q = p \/ (ps[q].at = "waiting" /\ ps[q].awaits = p)
                     THEN [ps[q] EXCEPT !.at = "done", !.answer = answer] ELSE ps[q]]

SettlesWith(ps, p, q) == q = p \/ (ps[q].at = "waiting" /\ ps[q].awaits = p)

LEMMA SettledIs ==
  ASSUME NEW ps \in [Posts -> PostStates], NEW p \in Posts, NEW answer \in Posts \cup {NoPost}
  PROVE  /\ Settled(ps, p, answer) \in [Posts -> PostStates]
         /\ \A q \in Posts :
              /\ ~SettlesWith(ps, p, q) => Settled(ps, p, answer)[q] = ps[q]
              /\ SettlesWith(ps, p, q) =>
                   /\ Settled(ps, p, answer)[q].at = "done" /\ Settled(ps, p, answer)[q].answer = answer
                   /\ Alike(Settled(ps, p, answer)[q], ps[q])
<1> DEFINE ns == Settled(ps, p, answer)
           x(q) == [ps[q] EXCEPT !.at = "done", !.answer = answer]
<1>1. ASSUME NEW q \in Posts
      PROVE  x(q) \in PostStates /\ x(q).at = "done" /\ x(q).answer = answer /\ Alike(x(q), ps[q])
  <2>1. ps[q] \in PostStates
    OBVIOUS
  <2> QED BY <2>1 DEF PostStates, Alike
<1>2. ns = [q \in Posts |-> IF SettlesWith(ps, p, q) THEN x(q) ELSE ps[q]]
  BY DEF Settled, SettlesWith
<1> HIDE DEF x, ns
<1>3. ns \in [Posts -> PostStates]
  BY <1>1, <1>2
<1> QED BY <1>1, <1>2, <1>3 DEF ns

(* What an end does to the posts, whatever becomes of the record.           *)
LEMMA SettledKeeps ==
  ASSUME NEW t, TableOK(t), NEW ps, Linked(t, ps), NEW p \in Posts, ps[p].at = "executing",
         NEW answer \in {NoPost, p}, NEW d, d.left \in [Posts -> Leavings],
         \A q \in Posts \ {p} : d.left[q] = t.left[q] /\ (OwnRecord(q, t) => OwnRecord(q, d)),
         OwnRecord(p, d) \/ d.left[p] # "no",
         \A r \in Held(d) : (r \in Held(t) /\ r.owner # p) \/ RecordLinked(r, d, Settled(ps, p, answer))
  PROVE  Linked(d, Settled(ps, p, answer))
<1> DEFINE ns == Settled(ps, p, answer)
<1>1. Held(t) \in SUBSET PostRecords
  BY HeldFinite DEF TableOK, Tables, Held
<1>2. \A r \in Held(t) : r.owner \in Posts /\ r.state \in {"pending", "fulfilled"}
  BY <1>1 DEF PostRecords
<1>3. ps \in [Posts -> PostStates] /\ answer \in Posts \cup {NoPost} /\ NoPost \notin Posts
  BY PostAssumption DEF Linked
<1>4. /\ ns \in [Posts -> PostStates]
      /\ \A q \in Posts :
           /\ ~SettlesWith(ps, p, q) => ns[q] = ps[q]
           /\ SettlesWith(ps, p, q) => ns[q].at = "done" /\ ns[q].answer = answer /\ Alike(ns[q], ps[q])
  BY <1>3, SettledIs
<1> HIDE DEF ns
<1>5. ASSUME NEW q \in Posts, q # p, ps[q].at # "waiting" PROVE ns[q] = ps[q]
  BY <1>4, <1>5 DEF SettlesWith
<1>6. ASSUME NEW r \in Held(d) PROVE RecordLinked(r, d, ns)
  <2>1. CASE r \in Held(t) /\ r.owner # p
    <3>1. RecordLinked(r, t, ps) /\ r.owner \in Posts /\ r.state \in {"pending", "fulfilled"}
      BY <1>2, <2>1 DEF Linked
    <3>2. ns[r.owner] = ps[r.owner] /\ d.left[r.owner] = t.left[r.owner]
      BY <1>5, <2>1, <3>1 DEF RecordLinked
    <3> QED BY <3>1, <3>2 DEF RecordLinked
  <2> QED BY <2>1 DEF ns
<1>7. ASSUME NEW q \in Posts, ~SettlesWith(ps, p, q) PROVE PostLinked(q, d, ns)
  <2>1. PostLinked(q, t, ps) /\ ns[q] = ps[q] /\ ps[q] \in PostStates /\ q # p
    BY <1>3, <1>4, <1>7 DEF Linked, SettlesWith
  <2>2. ps[q].at = "waiting" => ns[ps[q].awaits] = ps[ps[q].awaits]
    BY <1>5, <1>7, <2>1 DEF PostLinked, SettlesWith
  <2>3. ps[q].answer # NoPost => ps[q].answer \in Posts
    BY <2>1 DEF PostStates
  <2>4. ps[q].answer # NoPost => ns[ps[q].answer] = ps[ps[q].answer]
    BY <1>5, <2>1, <2>3 DEF PostLinked
  <2>5. d.left[q] = t.left[q] /\ (OwnRecord(q, t) => OwnRecord(q, d))
    BY <2>1
  <2> QED BY <2>1, <2>2, <2>4, <2>5 DEF PostLinked
<1>8. ASSUME NEW q \in Posts, SettlesWith(ps, p, q) PROVE PostLinked(q, d, ns)
  <2>1. ns[q].at = "done" /\ ns[q].answer = answer /\ Alike(ns[q], ps[q])
    BY <1>4, <1>8
  <2>2. ns[p].at = "done" /\ ns[p].answer = answer /\ Alike(ns[p], ps[p])
    BY <1>4 DEF SettlesWith
  <2>3. Alike(ps[q], ps[p])
    BY <1>8 DEF SettlesWith, Linked, PostLinked, Alike
  <2>4. Alike(ns[q], ns[p])
    BY <2>1, <2>2, <2>3 DEF Alike
  <2> QED BY <1>3, <2>1, <2>2, <2>4 DEF PostLinked
<1> QED BY <1>4, <1>6, <1>7, <1>8 DEF Linked, ns

(* The record of p goes, or had gone.                                       *)
LEMMA EndKeeps ==
  ASSUME NEW t, TableOK(t), NEW ps, Linked(t, ps), NEW p \in Posts, ps[p].at = "executing",
         NEW answer \in {NoPost, p}, NEW d, Shrinks(t, d, "ended"),
         Held(d) = {r \in Held(t) : r.owner # p}
  PROVE  Linked(d, Settled(ps, p, answer))
<1>1. Held(t) \ Held(d) = {r \in Held(t) : r.owner = p}
  OBVIOUS
<1>2. d.left \in [Posts -> Leavings]
  BY DEF Shrinks, TableOK, Tables
<1>3. ASSUME NEW q \in Posts \ {p}
      PROVE  d.left[q] = t.left[q] /\ (OwnRecord(q, t) => OwnRecord(q, d))
  BY <1>1 DEF Shrinks, OwnRecord
<1>4. OwnRecord(p, d) \/ d.left[p] # "no"
  <2>1. PostLinked(p, t, ps)
    BY DEF Linked
  <2>2. CASE OwnRecord(p, t)
    BY <1>1, <2>2 DEF OwnRecord, Shrinks
  <2>3. CASE ~OwnRecord(p, t)
    BY <1>1, <2>1, <2>3 DEF OwnRecord, Shrinks, PostLinked
  <2> QED BY <2>2, <2>3
<1>5. \A r \in Held(d) : r \in Held(t) /\ r.owner # p
  OBVIOUS
<1> QED BY <1>2, <1>3, <1>4, <1>5, SettledKeeps

(* The response of p is stored.                                             *)
LEMMA StoreKeeps ==
  ASSUME NEW t, TableOK(t), NEW ps, Linked(t, ps), NEW p \in Posts, ps[p].at = "executing",
         OwnRecord(p, t), NEW size \in Nat, RoomForBytes(t, size)
  PROVE  TableOK(Completes(t, p, size)) /\ Linked(Completes(t, p, size), Settled(ps, p, p))
<1> DEFINE d == Completes(t, p, size)
           stored(y) == [y EXCEPT !.state = "fulfilled", !.size = size, !.lapsed = FALSE]
<1>1. /\ t \in Tables /\ t.shelf \in Seq(PostRecords) /\ Distinct(t.shelf) /\ Apart(Held(t))
      /\ t.total \in Nat /\ t.left \in [Posts -> Leavings]
  BY DEF TableOK, Tables
<1>2. PICK i \in DOMAIN t.shelf : t.shelf[i].owner = p
  BY DEF OwnRecord, Held, ToSet
<1> DEFINE r == t.shelf[i]
           x == stored(r)
<1>3. \A j \in DOMAIN t.shelf : t.shelf[j] \in Held(t)
  BY DEF Held, ToSet
<1>4. r \in Held(t) /\ r \in PostRecords
  BY <1>1, <1>3
<1>5. ASSUME NEW j \in DOMAIN t.shelf PROVE t.shelf[j].owner = p <=> j = i
  <2>1. t.shelf[j].owner = p => t.shelf[j] = t.shelf[i]
    BY <1>1, <1>2, <1>3 DEF Apart
  <2> QED BY <1>1, <1>2, <2>1 DEF Distinct
<1>6. x \in PostRecords /\ x.owner = p /\ x.key = r.key /\ x.payload = r.payload
      /\ x.state = "fulfilled" /\ x.size = size
  BY <1>2, <1>4 DEF PostRecords
<1>7. /\ d.left = t.left /\ d.total = t.total + size
      /\ d.shelf = [j \in DOMAIN t.shelf |-> IF t.shelf[j].owner = p THEN stored(t.shelf[j]) ELSE t.shelf[j]]
      /\ d = [[t EXCEPT !.total = d.total] EXCEPT !.shelf = d.shelf]
  BY <1>1 DEF Completes, Tables
<1>8. d.shelf = Swapped(t.shelf, i, x)
  BY <1>5, <1>7 DEF Swapped
<1> HIDE DEF d, x, stored
<1>9. x \notin Held(t) \ {r}
  BY <1>1, <1>2, <1>4, <1>6 DEF Apart
<1>10. d \in Tables
  <2>1. Swapped(t.shelf, i, x) \in Seq(PostRecords)
    BY <1>1, <1>6, <1>9, SwapOne DEF Held
  <2>2. d.shelf \in Seq(PostRecords) /\ d.total \in Nat
    BY <1>1, <1>7, <1>8, <2>1
  <2> QED BY <1>1, <1>7, <2>2 DEF Tables
<1>11. RecordLinked(r, t, ps)
  BY <1>4 DEF Linked
<1>12. r.size = 0
  <2>1. r.state \in {"pending", "fulfilled"}
    BY <1>4 DEF PostRecords
  <2> QED BY <1>2, <1>11, <2>1 DEF RecordLinked
<1>13. d.total + r.size = t.total + x.size /\ d.total <= PostBudget
  BY <1>1, <1>6, <1>7, <1>12 DEF RoomForBytes
<1>14. TableOK(d) /\ Held(d) = (Held(t) \ {r}) \cup {x}
  BY <1>2, <1>6, <1>7, <1>8, <1>10, <1>13, TableSwap
<1> DEFINE ns == Settled(ps, p, p)
<1>15. ns[p].at = "done" /\ ns[p].answer = p /\ Alike(ns[p], ps[p])
  <2>1. ps \in [Posts -> PostStates] /\ SettlesWith(ps, p, p)
    BY DEF Linked, SettlesWith
  <2> QED BY <2>1, SettledIs
<1> HIDE DEF ns
<1>16. RecordLinked(x, d, ns)
  <2>1. Alike(ps[p], r) /\ t.left[p] = "no"
    BY <1>2, <1>11 DEF RecordLinked
  <2>2. Alike(ns[p], x)
    BY <1>6, <1>15, <2>1 DEF Alike
  <2> QED BY <1>6, <1>7, <1>15, <2>1, <2>2 DEF RecordLinked
<1>17. \A y \in Held(d) : (y \in Held(t) /\ y.owner # p) \/ RecordLinked(y, d, ns)
  <2>1. \A y \in Held(t) : y # r => y.owner # p
    BY <1>1, <1>2, <1>4 DEF Apart
  <2> QED BY <1>14, <1>16, <2>1
<1>18. \A q \in Posts \ {p} : d.left[q] = t.left[q] /\ (OwnRecord(q, t) => OwnRecord(q, d))
  BY <1>2, <1>7, <1>14 DEF OwnRecord
<1>19. OwnRecord(p, d) /\ d.left \in [Posts -> Leavings]
  BY <1>1, <1>6, <1>7, <1>14 DEF OwnRecord
<1>20. Linked(d, ns)
  BY <1>17, <1>18, <1>19, SettledKeeps DEF ns
<1> QED BY <1>14, <1>20 DEF d, ns

-----------------------------------------------------------------------------
(* The table and the posts, after each action.                              *)
LEMMA BecomesIs ==
  ASSUME NEW t \in Tables, Becomes(t)
  PROVE  Table' = t
<1>1. t = [shelf |-> t.shelf, total |-> t.total, left |-> t.left]
  BY DEF Tables
<1>2. shelf' = t.shelf /\ postBytes' = t.total /\ left' = t.left
  BY DEF Becomes
<1> HIDE DEF Tables
<1> QED BY <1>1, <1>2 DEF Table

LEMMA SweepKeeps ==
  ASSUME LocalSearchInv
  PROVE  TableOK(Unexpired) /\ Linked(Unexpired, post) /\ Unexpired \in Tables
<1> DEFINE owners == {r.owner : r \in {x \in Held(Table) : x.lapsed}}
<1>1. TableOK(Table) /\ Linked(Table, post) /\ "lapsed" \in Leavings /\ "lapsed" \in Leavings \ {"no"}
  BY DEF LocalSearchInv, Leavings
<1>2. Unexpired = Delete(Table, owners, "lapsed")
  BY DEF Unexpired
<1> HIDE DEF owners
<1>3. Shrinks(Table, Unexpired, "lapsed")
  BY <1>1, <1>2, Deleted
<1>4. Linked(Unexpired, post)
  BY <1>1, <1>3, ShrinkKeeps
<1> QED BY <1>3, <1>4 DEF Shrinks, TableOK

LEMMA EvictionKeeps ==
  ASSUME NEW t, TableOK(t), NEW ps, Linked(t, ps), NEW enough \in SUBSET Evictions(t)
  PROVE  /\ TableOK(Evicted(t, enough)) /\ Linked(Evicted(t, enough), ps)
         /\ Held(Evicted(t, enough)) \subseteq Held(t)
         /\ \A p \in Posts : ps[p].at = "executing" /\ OwnRecord(p, t) => OwnRecord(p, Evicted(t, enough))
<1> DEFINE d == Evicted(t, enough)
<1>1. Shrinks(t, d, "evicted") /\ \A r \in Held(t) \ Held(d) : r.state = "fulfilled"
  BY EvictionTakes
<1> HIDE DEF d
<1>2. "evicted" \in Leavings \ {"no"}
  BY DEF Leavings
<1>3. Linked(d, ps)
  BY <1>1, <1>2, ShrinkKeeps
<1>4. ASSUME NEW p \in Posts, ps[p].at = "executing", OwnRecord(p, t) PROVE OwnRecord(p, d)
  <2>1. PICK r \in Held(t) : r.owner = p
    BY <1>4 DEF OwnRecord
  <2>2. RecordLinked(r, t, ps)
    BY DEF Linked
  <2>3. r \in Held(d)
    BY <1>1, <1>4, <2>1, <2>2 DEF RecordLinked
  <2> QED BY <2>1, <2>3 DEF OwnRecord
<1> QED BY <1>1, <1>3, <1>4 DEF Shrinks, d

LEMMA ArrivesKeeps ==
  ASSUME LocalSearchInv, NEW p \in Posts, Arrives(p)
  PROVE  LocalSearchInv'
<1> DEFINE u == Unexpired
<1>1. TableOK(u) /\ Linked(u, post) /\ u \in Tables
  BY SweepKeeps
<1>2. PICK k \in PostKeys, f \in PostPayloads : Joins(p, k, f) \/ Opens(p, k, f)
  BY DEF Arrives
<1>3. post[p].at = "new" /\ lapses' = lapses /\ lapses \in Nat
  BY DEF Arrives, LocalSearchInv
<1>4. CASE Joins(p, k, f)
  <2>1. PICK r \in Held(u) : r.key = k /\ post' = [post EXCEPT ![p] = Joined(k, f, r)] /\ Becomes(u)
    BY <1>4 DEF Joins
  <2> HIDE DEF u
  <2>2. Linked(u, post')
    BY <1>1, <1>3, <2>1, JoinKeeps
  <2>3. Table' = u
    BY <1>1, <2>1, BecomesIs
  <2> QED BY <1>1, <1>3, <2>2, <2>3 DEF LocalSearchInv
<1>5. CASE Opens(p, k, f)
  <2> DEFINE enough == {n \in Evictions(u) : RoomForRecord(WithoutOldest(u, n))}
             t == Evicted(u, enough)
  <2>1. /\ \A r \in Held(u) : r.key # k
        /\ \/ RoomForRecord(t) /\ Becomes(Opened(t, Record(p, k, f)))
              /\ post' = To(post, p, k, f, "executing")
           \/ ~RoomForRecord(t) /\ Becomes(t) /\ post' = To(post, p, k, f, "done")
    BY <1>5 DEF Opens, Opened, To
  <2>2. enough \in SUBSET Evictions(u)
    OBVIOUS
  <2> HIDE DEF u, enough
  <2>3. TableOK(t) /\ Linked(t, post) /\ Held(t) \subseteq Held(u)
    BY <1>1, <2>2, EvictionKeeps
  <2> HIDE DEF t
  <2>4. CASE RoomForRecord(t) /\ Becomes(Opened(t, Record(p, k, f)))
             /\ post' = To(post, p, k, f, "executing")
    <3> DEFINE d == Opened(t, Record(p, k, f))
    <3>1. TableOK(d) /\ Linked(d, post')
      BY <1>3, <2>1, <2>3, <2>4, OpenKeeps
    <3>2. Becomes(d)
      BY <2>4
    <3> HIDE DEF d
    <3>3. Table' = d
      BY <3>1, <3>2, BecomesIs DEF TableOK
    <3> QED BY <1>3, <3>1, <3>3 DEF LocalSearchInv
  <2>5. CASE ~RoomForRecord(t) /\ Becomes(t) /\ post' = To(post, p, k, f, "done")
    <3>1. Linked(t, post')
      BY <1>3, <2>3, <2>5, RefuseKeeps
    <3>2. Table' = t
      BY <2>3, <2>5, BecomesIs DEF TableOK
    <3> QED BY <1>3, <2>3, <3>1, <3>2 DEF LocalSearchInv
  <2> QED BY <2>1, <2>4, <2>5
<1> QED BY <1>2, <1>4, <1>5

(* Without a record of its own, a post that ends leaves the table.          *)
LEMMA WithoutOwnKeeps ==
  ASSUME NEW t, TableOK(t), NEW ps, Linked(t, ps), NEW p \in Posts, ps[p].at = "executing",
         NEW answer \in {NoPost, p}
  PROVE  TableOK(WithoutOwn(t, p)) /\ Linked(WithoutOwn(t, p), Settled(ps, p, answer))
<1> DEFINE d == WithoutOwn(t, p)
<1>1. "ended" \in Leavings /\ d = Delete(t, {p}, "ended")
  BY DEF Leavings, WithoutOwn
<1> HIDE DEF d
<1>2. Shrinks(t, d, "ended") /\ Held(d) = {r \in Held(t) : r.owner \notin {p}}
  BY <1>1, Deleted
<1>3. Held(d) = {r \in Held(t) : r.owner # p}
  BY <1>2
<1>4. Linked(d, Settled(ps, p, answer))
  BY <1>2, <1>3, EndKeeps
<1> QED BY <1>2, <1>4 DEF Shrinks, d

LEMMA NoneOwnKeeps ==
  ASSUME NEW t, TableOK(t), NEW ps, Linked(t, ps), NEW p \in Posts, ps[p].at = "executing",
         ~OwnRecord(p, t)
  PROVE  Linked(t, Settled(ps, p, p))
<1>1. Held(t) = {r \in Held(t) : r.owner # p} /\ Held(t) \ Held(t) = {}
  BY DEF OwnRecord
<1>2. Len(t.shelf) <= Len(t.shelf) /\ t.total <= t.total
  <2>1. Len(t.shelf) \in Nat /\ t.total \in Nat
    BY DEF TableOK, Tables
  <2> QED BY <2>1
<1>3. Shrinks(t, t, "ended")
  BY <1>1, <1>2 DEF Shrinks
<1>4. p \in {NoPost, p}
  OBVIOUS
<1> QED BY <1>1, <1>3, <1>4, EndKeeps

LEMMA StoresKeeps ==
  ASSUME LocalSearchInv, NEW p \in Posts, post[p].at = "executing", NEW size \in Nat, Stores(p, size)
  PROVE  TableOK(Table') /\ Linked(Table', Settled(post, p, p))
<1> DEFINE enough == {n \in Evictions(Table) : RoomForBytes(WithoutOldest(Table, n), size)}
           t == Evicted(Table, enough)
<1>1. TableOK(Table) /\ Linked(Table, post) /\ (HasOwnRecord(p) <=> OwnRecord(p, Table)) /\ p \in {NoPost, p}
  BY DEF LocalSearchInv, HasOwnRecord, OwnRecord
<1>2. \/ ~HasOwnRecord(p) /\ Becomes(Table)
      \/ Becomes(WithoutOwn(Table, p))
      \/ HasOwnRecord(p) /\ RoomForBytes(t, size) /\ Becomes(Completes(t, p, size))
      \/ Becomes(WithoutOwn(t, p))
  BY DEF Stores
<1>3. enough \in SUBSET Evictions(Table)
  OBVIOUS
<1> HIDE DEF enough
<1>4. TableOK(t) /\ Linked(t, post) /\ (OwnRecord(p, Table) => OwnRecord(p, t))
  BY <1>1, <1>3, EvictionKeeps
<1> HIDE DEF t
<1>5. ASSUME NEW d, TableOK(d), Becomes(d), Linked(d, Settled(post, p, p))
      PROVE  TableOK(Table') /\ Linked(Table', Settled(post, p, p))
  BY <1>5, BecomesIs DEF TableOK
<1>6. CASE ~HasOwnRecord(p) /\ Becomes(Table)
  BY <1>1, <1>5, <1>6, NoneOwnKeeps
<1>7. CASE Becomes(WithoutOwn(Table, p))
  BY <1>1, <1>5, <1>7, WithoutOwnKeeps
<1>8. CASE HasOwnRecord(p) /\ RoomForBytes(t, size) /\ Becomes(Completes(t, p, size))
  BY <1>1, <1>4, <1>5, <1>8, StoreKeeps
<1>9. CASE Becomes(WithoutOwn(t, p))
  BY <1>1, <1>4, <1>5, <1>9, WithoutOwnKeeps
<1> QED BY <1>2, <1>6, <1>7, <1>8, <1>9

LEMMA EndsKeeps ==
  ASSUME LocalSearchInv, NEW p \in Posts, Ends(p)
  PROVE  LocalSearchInv'
<1>1. post[p].at = "executing" /\ lapses' = lapses /\ lapses \in Nat
  BY DEF Ends, LocalSearchInv
<1>2. TableOK(Table) /\ Linked(Table, post)
  BY DEF LocalSearchInv
<1>3. ASSUME NEW a, Settles(p, a) PROVE post' = Settled(post, p, a)
  BY <1>3 DEF Settles, Settled
<1>4. CASE Becomes(WithoutOwn(Table, p)) /\ (Settles(p, NoPost) \/ Settles(p, p))
  <2>1. PICK a \in {NoPost, p} : Settles(p, a)
    BY <1>4
  <2> DEFINE d == WithoutOwn(Table, p)
  <2>2. TableOK(d) /\ Linked(d, Settled(post, p, a))
    BY <1>1, <1>2, WithoutOwnKeeps
  <2>3. Becomes(d)
    BY <1>4
  <2> HIDE DEF d
  <2>4. Table' = d /\ post' = Settled(post, p, a)
    BY <1>3, <2>1, <2>2, <2>3, BecomesIs DEF TableOK
  <2> QED BY <1>1, <2>2, <2>4 DEF LocalSearchInv
<1>5. ASSUME NEW size \in PostSizes, Stores(p, size), Settles(p, p) PROVE LocalSearchInv'
  <2>1. size \in Nat
    BY PostAssumption
  <2>2. TableOK(Table') /\ Linked(Table', Settled(post, p, p))
    BY <1>1, <1>5, <2>1, StoresKeeps
  <2>3. post' = Settled(post, p, p)
    BY <1>3, <1>5
  <2> QED BY <1>1, <2>2, <2>3 DEF LocalSearchInv
<1> QED BY <1>4, <1>5 DEF Ends

LEMMA CountsKeeps ==
  ASSUME LocalSearchInv, CountsRecords
  PROVE  LocalSearchInv'
<1>1. TableOK(Unexpired) /\ Linked(Unexpired, post) /\ Unexpired \in Tables
  BY SweepKeeps
<1>2. Becomes(Unexpired) /\ post' = post /\ lapses' = lapses /\ lapses \in Nat
  BY DEF CountsRecords, LocalSearchInv
<1>3. Table' = Unexpired
  BY <1>1, <1>2, BecomesIs
<1> QED BY <1>1, <1>2, <1>3 DEF LocalSearchInv

LEMMA LapsesKeeps ==
  ASSUME LocalSearchInv, NEW i \in DOMAIN shelf, Lapses(i)
  PROVE  LocalSearchInv'
<1> DEFINE r == shelf[i]
           x == [r EXCEPT !.lapsed = TRUE]
           t == Table
           d == Table'
<1>1. TableOK(t) /\ Linked(t, post) /\ lapses \in Nat
  BY DEF LocalSearchInv
<1>2. shelf \in Seq(PostRecords) /\ postBytes \in Nat /\ left \in [Posts -> Leavings]
      /\ postBytes <= PostBudget /\ Distinct(shelf) /\ Apart(ToSet(shelf))
  BY <1>1 DEF TableOK, Table, Tables, Held
<1>3. /\ t.shelf = shelf /\ t.total = postBytes /\ t.left = left
      /\ d.shelf = shelf' /\ d.total = postBytes' /\ d.left = left'
  BY DEF Table
<1>4. /\ shelf' = [shelf EXCEPT ![i].lapsed = TRUE] /\ postBytes' = postBytes /\ left' = left /\ post' = post
      /\ lapses' = lapses + 1
  BY DEF Lapses
<1>5. r \in PostRecords
  BY <1>2
<1>6. /\ x \in PostRecords /\ x.owner = r.owner /\ x.key = r.key /\ x.payload = r.payload
      /\ x.state = r.state /\ x.size = r.size /\ r.size \in Nat
  BY <1>5 DEF PostRecords
<1>7. shelf' = Swapped(shelf, i, x)
  <2>1. shelf = [j \in DOMAIN shelf |-> shelf[j]]
    BY <1>2
  <2> QED BY <1>4, <2>1 DEF Swapped
<1> HIDE DEF x
<1>8. x \notin ToSet(shelf) \ {r}
  <2>1. r \in ToSet(shelf)
    BY DEF ToSet
  <2> QED BY <1>2, <1>6, <2>1 DEF Apart
<1>9. shelf' \in Seq(PostRecords)
  BY <1>2, <1>6, <1>7, <1>8, SwapOne
<1>10. d \in Tables
  BY <1>2, <1>4, <1>9 DEF Tables, Table
<1> HIDE DEF t, d
<1>11. /\ i \in DOMAIN t.shelf /\ x.owner = t.shelf[i].owner /\ x.key = t.shelf[i].key
       /\ d.shelf = Swapped(t.shelf, i, x) /\ d.left = t.left
       /\ d.total + t.shelf[i].size = t.total + x.size /\ d.total <= PostBudget
  BY <1>2, <1>3, <1>4, <1>6, <1>7
<1>12. TableOK(d) /\ Held(d) = (Held(t) \ {t.shelf[i]}) \cup {x} /\ t.shelf[i] \in Held(t)
  BY <1>1, <1>6, <1>10, <1>11, TableSwap
<1>13. r \in Held(t) /\ Held(d) = (Held(t) \ {r}) \cup {x}
  BY <1>3, <1>12
<1>14. ASSUME NEW y \in Held(d) PROVE RecordLinked(y, d, post)
  <2>1. CASE y \in Held(t)
    <3>1. RecordLinked(y, t, post)
      BY <1>1, <2>1 DEF Linked
    <3> QED BY <1>11, <3>1 DEF RecordLinked
  <2>2. CASE y = x
    <3>1. RecordLinked(r, t, post)
      BY <1>1, <1>13 DEF Linked
    <3> QED BY <1>6, <1>11, <2>2, <3>1 DEF RecordLinked, Alike
  <2> QED BY <1>13, <2>1, <2>2
<1>15. ASSUME NEW q \in Posts PROVE PostLinked(q, d, post)
  <2>1. PostLinked(q, t, post)
    BY <1>1 DEF Linked
  <2>2. OwnRecord(q, t) => OwnRecord(q, d)
    BY <1>6, <1>13 DEF OwnRecord
  <2> QED BY <1>11, <2>1, <2>2 DEF PostLinked
<1>16. Linked(d, post')
  BY <1>1, <1>4, <1>14, <1>15 DEF Linked
<1> QED BY <1>1, <1>4, <1>12, <1>16 DEF LocalSearchInv, d

-----------------------------------------------------------------------------
LEMMA SearchStarts == PostInit => LocalSearchInv
<1> SUFFICES ASSUME PostInit PROVE LocalSearchInv
  OBVIOUS
<1>1. Table.shelf = <<>> /\ Table.total = 0 /\ Table.left = [p \in Posts |-> "no"] /\ lapses = 0
  BY DEF PostInit, Table
<1>2. ToSet(<<>>) = {} /\ Distinct(<<>>) /\ <<>> \in Seq(PostRecords) /\ Len(<<>>) = 0
  BY DEF ToSet, Distinct
<1>3. Held(Table) = {}
  BY <1>1, <1>2 DEF Held
<1>4. Table \in Tables
  <2>1. <<>> \in Seq(PostRecords) /\ 0 \in Nat /\ [p \in Posts |-> "no"] \in [Posts -> Leavings]
    BY DEF Leavings
  <2> QED BY <2>1 DEF PostInit, Table, Tables
<1>5. TableOK(Table)
  <2>1. Apart({})
    BY DEF Apart
  <2>2. 0 <= PostBudget /\ 0 <= MaxPostRecords
    BY PostAssumption
  <2> QED BY <1>1, <1>2, <1>3, <1>4, <2>1, <2>2, NoBytes DEF TableOK
<1>6. \A p \in Posts : post[p].at = "new" /\ post[p].answer = NoPost /\ NoPost \notin Posts
  BY PostAssumption DEF PostInit
<1>7. post \in [Posts -> PostStates]
  BY DEF PostInit, PostStates
<1>8. \A p \in Posts : PostLinked(p, Table, post)
  BY <1>1, <1>6 DEF PostLinked
<1> QED BY <1>1, <1>3, <1>5, <1>7, <1>8 DEF LocalSearchInv, Linked

LEMMA SearchStays ==
  ASSUME LocalSearchInv, [PostNext]_postVars
  PROVE  LocalSearchInv'
<1>1. CASE PostNext
  BY <1>1, ArrivesKeeps, EndsKeeps, LapsesKeeps, CountsKeeps DEF PostNext
<1>2. CASE UNCHANGED postVars
  BY <1>2 DEF postVars, LocalSearchInv, Table, TableOK, Tables, Held, Linked,
              RecordLinked, PostLinked, OwnRecord
<1> QED BY <1>1, <1>2

(* The inductive invariant of the idempotency of a single process: the Map  *)
(* is in order by itself (a record of a key and of a post, the total its    *)
(* bytes, both caps), every record is that of a post that executes its      *)
(* search or was answered with it, and every post that waits does so for    *)
(* one that executes the same search.                                       *)
THEOREM LocalSearchAlways == PostSpec => []LocalSearchInv
<1>1. PostInit => LocalSearchInv
  BY SearchStarts
<1>2. LocalSearchInv /\ [PostNext]_postVars => LocalSearchInv'
  BY SearchStays
<1> QED BY <1>1, <1>2, PTL DEF PostSpec

LEMMA SearchShared == LocalSearchInv => LocalSearchesShared
<1> SUFFICES ASSUME LocalSearchInv PROVE LocalSearchesShared
  OBVIOUS
<1>1. TableOK(Table) /\ Linked(Table, post) /\ Table.left = left /\ Table.total = postBytes /\ Table.shelf = shelf
  BY DEF LocalSearchInv, Table
<1>2. Apart(Held(Table)) /\ Held(Table) \in SUBSET PostRecords
  BY <1>1, HeldFinite DEF TableOK, Tables, Held
<1>3. /\ \A r \in Held(Table) : RecordLinked(r, Table, post) /\ r.owner \in Posts /\ r.state \in {"pending", "fulfilled"}
      /\ \A p \in Posts : PostLinked(p, Table, post)
      /\ post \in [Posts -> PostStates]
  BY <1>1, <1>2 DEF Linked, PostRecords
<1>4. BytesCounted
  <2>1. postBytes = SizeOf(Held(Table)) /\ postBytes <= PostBudget /\ Len(shelf) <= MaxPostRecords
    BY <1>1 DEF TableOK
  <2>2. \A r \in Held(Table) : r.state = "pending" <=> post[r.owner].at = "executing"
    BY <1>3 DEF RecordLinked
  <2> QED BY <2>1, <2>2 DEF BytesCounted
<1>5. ASSUME NEW p \in Posts, NEW q \in Posts, NEW r \in Held(Table), NEW s \in Held(Table),
             r.owner = p, s.owner = q, post[p].key = post[q].key
      PROVE  p = q
  <2>1. r.key = post[p].key /\ s.key = post[q].key
    BY <1>3, <1>5 DEF RecordLinked, Alike
  <2> QED BY <1>2, <1>5, <2>1 DEF Apart
<1>6. ExecutedOnce
  <2> SUFFICES ASSUME NEW p \in Posts, NEW q \in Posts, p # q, post[p].at = "executing",
                      post[q].at = "executing", post[p].key = post[q].key,
                      left[p] # "lapsed", left[q] # "lapsed"
               PROVE  FALSE
    BY DEF ExecutedOnce
  <2>1. OwnRecord(p, Table) /\ OwnRecord(q, Table)
    BY <1>1, <1>3 DEF PostLinked
  <2> QED BY <1>5, <2>1 DEF OwnRecord
<1>7. RepliesAgree
  <2> SUFFICES ASSUME NEW p \in Replied
               PROVE  /\ post[post[p].answer].payload = post[p].payload
                      /\ post[post[p].answer].key = post[p].key
                      /\ \A q \in Replied :
                            /\ post[q].key = post[p].key
                            /\ \A o \in Posts : post[o].key = post[p].key => left[o] = "no"
                            => post[q].answer = post[p].answer
    BY DEF RepliesAgree
  <2>1. \A q \in Replied : /\ q \in Posts /\ post[q].answer \in Posts /\ Alike(post[q], post[post[q].answer])
                           /\ post[post[q].answer].answer = post[q].answer
    BY <1>3 DEF Replied, PostLinked, PostStates
  <2>2. ASSUME NEW q \in Replied, post[q].key = post[p].key,
               \A o \in Posts : post[o].key = post[p].key => left[o] = "no"
        PROVE  post[q].answer = post[p].answer
    <3> DEFINE a == post[p].answer
               b == post[q].answer
    <3>1. /\ a \in Posts /\ b \in Posts /\ post[a].key = post[p].key /\ post[b].key = post[p].key
          /\ post[a].answer = a /\ post[b].answer = b
      BY <2>1, <2>2 DEF Alike
    <3>2. left[a] = "no" /\ left[b] = "no"
      BY <2>2, <3>1
    <3>3. OwnRecord(a, Table) /\ OwnRecord(b, Table)
      BY <1>1, <1>3, <3>1, <3>2 DEF PostLinked
    <3> HIDE DEF a, b
    <3>4. a = b
      BY <1>5, <3>1, <3>3 DEF OwnRecord
    <3> QED BY <3>4 DEF a, b
  <2> QED BY <2>1, <2>2 DEF Alike
<1> QED BY <1>4, <1>6, <1>7 DEF LocalSearchesShared

(* Whatever is swept, evicted or stored late: the bytes counted are those   *)
(* stored and both caps hold, eviction takes no search that runs, a key has *)
(* two searches at once only when a record has lapsed, and nobody is        *)
(* answered with the search of another payload.                             *)
THEOREM LocalSearchesKept == PostSpec => []LocalSearchesShared
<1>1. PostSpec => []LocalSearchInv
  BY LocalSearchAlways
<1> QED BY <1>1, SearchShared, PTL
==============================================================================
