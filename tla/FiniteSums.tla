------------------------------ MODULE FiniteSums ------------------------------
(***************************************************************************)
(* The sums of sizes that the stores are bounded by: what MapThenSumSet    *)
(* yields for a finite set, whatever the order in which it takes the       *)
(* elements.  Induction is by the smallest counterexample.                 *)
(***************************************************************************)
EXTENDS Naturals, FiniteSets, FiniteSetsExt, FiniteSetTheorems, WellFoundedInduction, TLAPS

Total(f, S) == MapThenSumSet(LAMBDA x : f[x], S)

Sized(f, D) == \A x \in D : f[x] \in Nat

(* The element that the fold takes first, and the fold.                     *)
First(s) == CHOOSE x \in s : TRUE
Step(g, f, s) == IF s = {} THEN 0 ELSE f[First(s)] + g[s \ {First(s)}]
Folds(g, f, D) == g \in [SUBSET D -> Nat] /\ \A s \in SUBSET D : g[s] = Step(g, f, s)
Iter(f, S) == CHOOSE g : g = [s \in SUBSET S |-> Step(g, f, s)]

(* A set of natural numbers that is not empty has a least element.          *)
LEMMA LeastNumber ==
  ASSUME NEW T \in SUBSET Nat, T # {}
  PROVE  \E m \in T : \A k \in T : m <= k
<1> DEFINE R == OpToRel(<, Nat)
<1>1. IsWellFoundedOn(R, Nat)
  BY NatLessThanWellFounded
<1>2. R = {ss \in Nat \X Nat : ss[1] < ss[2]}
  BY Zenon DEF OpToRel
<1> HIDE DEF R
<1>3. PICK m \in T : \A y \in T : ~(<<y, m>> \in R)
  BY <1>1, WFMin, Zenon
<1>4. \A y \in T : ~(y < m)
  BY <1>2, <1>3
<1> QED BY <1>4

(* Among some subsets of a finite set there is a smallest.                  *)
LEMMA SmallestSet ==
  ASSUME NEW D, IsFiniteSet(D), NEW Bad \in SUBSET (SUBSET D), Bad # {}
  PROVE  \E S \in Bad : \A T \in Bad : Cardinality(S) <= Cardinality(T)
<1> DEFINE N == {Cardinality(S) : S \in Bad}
<1>1. \A S \in Bad : Cardinality(S) \in Nat
  BY FS_Subset, FS_CardinalityType
<1>2. N \in SUBSET Nat /\ N # {}
  BY <1>1
<1>3. PICK m \in N : \A k \in N : m <= k
  <2> HIDE DEF N
  <2> QED BY <1>2, LeastNumber
<1> QED BY <1>3

(* The first element of a finite set that is not empty; the rest is smaller. *)
LEMMA FirstOf ==
  ASSUME NEW D, IsFiniteSet(D), NEW s \in SUBSET D, s # {}
  PROVE  /\ First(s) \in s /\ s \ {First(s)} \in SUBSET D
         /\ Cardinality(s) \in Nat /\ Cardinality(s \ {First(s)}) \in Nat
         /\ Cardinality(s \ {First(s)}) = Cardinality(s) - 1
<1>1. First(s) \in s
  BY DEF First
<1>2. IsFiniteSet(s) /\ IsFiniteSet(s \ {First(s)})
  BY FS_Subset
<1>3. Cardinality(s) \in Nat /\ Cardinality(s \ {First(s)}) \in Nat
  BY <1>2, FS_CardinalityType
<1>4. Cardinality(s \ {First(s)}) = Cardinality(s) - 1
  BY <1>1, <1>2, FS_RemoveElement
<1> QED BY <1>1, <1>3, <1>4

(* There is a function that the fold's equation describes.                  *)
LEMMA FoldExists ==
  ASSUME NEW D, IsFiniteSet(D), NEW f, Sized(f, D)
  PROVE  \E g : Folds(g, f, D)
<1> USE DEF Sized
<1> DEFINE Upto(g, n) == \A s \in SUBSET D : Cardinality(s) <= n => g[s] = Step(g, f, s)
           Bad == {n \in Nat : ~\E g \in [SUBSET D -> Nat] : Upto(g, n)}
<1>1. \A s \in SUBSET D : Cardinality(s) \in Nat /\ Cardinality(s) <= Cardinality(D)
  BY FS_Subset, FS_CardinalityType
<1>2. 0 \notin Bad
  <2> DEFINE g == [s \in SUBSET D |-> 0]
  <2>1. \A s \in SUBSET D : Cardinality(s) <= 0 => s = {}
    BY <1>1, FS_EmptySet, FS_Subset
  <2>2. Upto(g, 0) /\ g \in [SUBSET D -> Nat]
    BY <2>1 DEF Step
  <2> QED BY <2>2
<1>3. ASSUME NEW m \in Nat, m # 0, m - 1 \notin Bad PROVE m \notin Bad
  <2>1. m - 1 \in Nat
    BY <1>3
  <2>2. PICK g \in [SUBSET D -> Nat] : Upto(g, m - 1)
    BY <1>3, <2>1
  <2> DEFINE h == [s \in SUBSET D |-> IF Cardinality(s) <= m - 1 THEN g[s] ELSE Step(g, f, s)]
  <2>3. ASSUME NEW s \in SUBSET D PROVE Step(g, f, s) \in Nat
    <3>1. CASE s = {}
      BY <3>1 DEF Step
    <3>2. CASE s # {}
      <4>1. First(s) \in D /\ s \ {First(s)} \in SUBSET D
        BY <3>2, FirstOf
      <4> QED BY <3>2, <4>1 DEF Step
    <3> QED BY <3>1, <3>2
  <2>4. h \in [SUBSET D -> Nat]
    BY <2>3
  <2>5. ASSUME NEW s \in SUBSET D, Cardinality(s) <= m PROVE h[s] = Step(h, f, s)
    <3>1. h[s] = Step(g, f, s)
      BY <2>2
    <3>2. CASE s = {}
      BY <3>1, <3>2 DEF Step
    <3>3. CASE s # {}
      <4>1. /\ s \ {First(s)} \in SUBSET D /\ Cardinality(s \ {First(s)}) <= m - 1
        BY <3>3, <2>5, <2>1, FirstOf
      <4>2. h[s \ {First(s)}] = g[s \ {First(s)}]
        BY <4>1
      <4> QED BY <3>1, <3>3, <4>2 DEF Step
    <3> QED BY <3>2, <3>3
  <2> HIDE DEF h
  <2>6. Upto(h, m)
    BY <2>5
  <2> QED BY <2>4, <2>6
<1>4. Bad = {}
  <2> SUFFICES ASSUME Bad # {} PROVE FALSE
    OBVIOUS
  <2>1. Bad \in SUBSET Nat
    OBVIOUS
  <2> HIDE DEF Bad
  <2>2. PICK m \in Bad : \A k \in Bad : m <= k
    BY <2>1, LeastNumber
  <2>3. m \in Nat /\ m # 0
    BY <2>1, <2>2, <1>2
  <2>4. m - 1 \notin Bad
    BY <2>2, <2>3
  <2> QED BY <2>2, <2>3, <2>4, <1>3
<1>5. Cardinality(D) \in Nat
  BY FS_CardinalityType
<1>6. PICK g \in [SUBSET D -> Nat] : Upto(g, Cardinality(D))
  BY <1>4, <1>5
<1>7. Folds(g, f, D)
  BY <1>6, <1>1 DEF Folds
<1> QED BY <1>7

(* The fold is that function, for every subset.                             *)
LEMMA FoldIs ==
  ASSUME NEW D, IsFiniteSet(D), NEW f, Sized(f, D),
         NEW g, Folds(g, f, D), NEW S \in SUBSET D
  PROVE  Total(f, S) = g[S]
<1> USE DEF Folds
<1> DEFINE k == [s \in SUBSET S |-> g[s]]
           I == Iter(f, S)
<1>1. Total(f, S) = I[S]
  BY DEF Total, MapThenSumSet, MapThenFoldSet, Iter, Step, First
<1>2. k = [s \in SUBSET S |-> Step(k, f, s)]
  <2>1. \A s \in SUBSET S : g[s] = Step(k, f, s)
    BY DEF Step
  <2> QED BY <2>1
<1>3. I = [s \in SUBSET S |-> Step(I, f, s)]
  <2> HIDE DEF k
  <2> QED BY <1>2 DEF Iter
<1> HIDE DEF I, k
<1> DEFINE Bad == {s \in SUBSET S : I[s] # g[s]}
<1>4. Bad = {}
  <2> SUFFICES ASSUME Bad # {} PROVE FALSE
    OBVIOUS
  <2>1. Bad \in SUBSET (SUBSET D)
    OBVIOUS
  <2>2. PICK s \in Bad : \A T \in Bad : Cardinality(s) <= Cardinality(T)
    <3> HIDE DEF Bad
    <3> QED BY <2>1, SmallestSet
  <2>3. I[s] = Step(I, f, s) /\ g[s] = Step(g, f, s) /\ s \in SUBSET S
    BY <1>3
  <2>4. CASE s = {}
    BY <2>3, <2>4, <2>2 DEF Step
  <2>5. CASE s # {}
    <3> DEFINE r == s \ {First(s)}
    <3>1. Cardinality(r) < Cardinality(s) /\ r \in SUBSET S
      BY <2>5, <2>3, FirstOf
    <3>2. r \notin Bad
      BY <3>1, <2>2, <2>1, FS_Subset, FS_CardinalityType
    <3>3. I[r] = g[r]
      BY <3>1, <3>2
    <3> QED BY <2>2, <2>3, <2>5, <3>3 DEF Step
  <2> QED BY <2>4, <2>5
<1> QED BY <1>1, <1>4

(* What the fold computes: nothing for no element, and otherwise the size   *)
(* of the first element and the sum of the rest.                            *)
LEMMA TotalStep ==
  ASSUME NEW D, IsFiniteSet(D), NEW f, Sized(f, D)
  PROVE  \A S \in SUBSET D :
            /\ Total(f, S) \in Nat
            /\ S = {} => Total(f, S) = 0
            /\ S # {} => Total(f, S) = f[First(S)] + Total(f, S \ {First(S)})
<1>1. PICK g : Folds(g, f, D)
  BY FoldExists
<1>2. \A S \in SUBSET D : Total(f, S) = g[S]
  BY <1>1, FoldIs
<1>3. \A S \in SUBSET D : S # {} => First(S) \in S
  BY DEF First
<1> QED BY <1>1, <1>2, <1>3 DEF Folds, Step

(* The order of the elements does not matter: any element can be the first. *)
LEMMA TotalAdd ==
  ASSUME NEW D, IsFiniteSet(D), NEW f, Sized(f, D),
         NEW S \in SUBSET D, NEW x \in S
  PROVE  Total(f, S) = f[x] + Total(f, S \ {x})
<1> DEFINE Bad == {s \in SUBSET D : \E y \in s : Total(f, s) # f[y] + Total(f, s \ {y})}
<1>1. Bad = {}
  <2> SUFFICES ASSUME Bad # {} PROVE FALSE
    OBVIOUS
  <2>1. Bad \in SUBSET (SUBSET D)
    OBVIOUS
  <2>2. PICK s \in Bad : \A T \in Bad : Cardinality(s) <= Cardinality(T)
    <3> HIDE DEF Bad
    <3> QED BY <2>1, SmallestSet
  <2>3. PICK y \in s : Total(f, s) # f[y] + Total(f, s \ {y})
    BY <2>2
  <2> DEFINE c == First(s)
             u == s \ {c}
             v == s \ {y}
             w == s \ {c, y}
  <2>4. s \in SUBSET D /\ s # {} /\ c \in s /\ Cardinality(u) < Cardinality(s)
    BY <2>2, <2>3, FirstOf
  <2>5. Total(f, s) = f[c] + Total(f, u)
    BY <2>4, TotalStep
  <2>6. c # y
    BY <2>3, <2>5
  <2>7. IsFiniteSet(s) /\ Cardinality(v) = Cardinality(s) - 1 /\ Cardinality(s) \in Nat
    BY <2>4, FS_Subset, FS_RemoveElement, FS_CardinalityType
  <2>8. u \in SUBSET D /\ v \in SUBSET D /\ w \in SUBSET D
    BY <2>4
  <2>9. Cardinality(u) \in Nat /\ Cardinality(v) \in Nat
    BY <2>8, FS_Subset, FS_CardinalityType
  <2>10. u \notin Bad /\ v \notin Bad
    <3> HIDE DEF Bad
    <3> QED BY <2>2, <2>4, <2>7, <2>9
  <2>11. Total(f, u) = f[y] + Total(f, w)
    <3>1. y \in u /\ u \ {y} = w
      BY <2>6, <2>3
    <3> QED BY <2>8, <2>10, <3>1
  <2>12. Total(f, v) = f[c] + Total(f, w)
    <3>1. c \in v /\ v \ {c} = w
      BY <2>6, <2>4
    <3> QED BY <2>8, <2>10, <3>1
  <2>13. f[c] \in Nat /\ f[y] \in Nat /\ Total(f, w) \in Nat
    BY <2>3, <2>4, <2>8, TotalStep DEF Sized
  <2> HIDE DEF c, u, v, w
  <2>14. Total(f, s) = f[y] + Total(f, v)
    BY <2>5, <2>11, <2>12, <2>13
  <2> QED BY <2>3, <2>14 DEF v
<1> QED BY <1>1

(* The sum over two sets that share nothing. *)
LEMMA TotalUnion ==
  ASSUME NEW D, IsFiniteSet(D), NEW f, Sized(f, D),
         NEW S \in SUBSET D, NEW T \in SUBSET S
  PROVE  Total(f, S) = Total(f, T) + Total(f, S \ T)
<1> DEFINE Bad == {t \in SUBSET S : Total(f, S) # Total(f, t) + Total(f, S \ t)}
<1>1. Bad = {}
  <2> SUFFICES ASSUME Bad # {} PROVE FALSE
    OBVIOUS
  <2>1. Bad \in SUBSET (SUBSET D)
    OBVIOUS
  <2>2. PICK t \in Bad : \A U \in Bad : Cardinality(t) <= Cardinality(U)
    <3> HIDE DEF Bad
    <3> QED BY <2>1, SmallestSet
  <2> DEFINE c == First(t)
             u == t \ {c}
             r == S \ t
             q == S \ u
  <2>3. t \in SUBSET D /\ t \in SUBSET S
    BY <2>1
  <2>4. t # {}
    <3>1. S \ {} = S /\ {} \in SUBSET D
      OBVIOUS
    <3>2. Total(f, {}) = 0 /\ Total(f, S) \in Nat
      BY <3>1, TotalStep
    <3>3. Total(f, S) = Total(f, {}) + Total(f, S \ {})
      BY <3>1, <3>2
    <3> QED BY <2>2, <3>3
  <2>5. c \in t /\ u \in SUBSET S /\ Cardinality(u) < Cardinality(t)
        /\ Cardinality(u) \in Nat /\ Cardinality(t) \in Nat
    <3>1. /\ c \in t /\ Cardinality(t) \in Nat /\ Cardinality(u) \in Nat
          /\ Cardinality(u) = Cardinality(t) - 1
      BY <2>3, <2>4, FirstOf
    <3> HIDE DEF c
    <3> QED BY <3>1, <2>3
  <2>6. u \notin Bad
    <3> HIDE DEF Bad, u
    <3> QED BY <2>2, <2>5
  <2>7. Total(f, S) = Total(f, u) + Total(f, q)
    BY <2>5, <2>6
  <2>8. Total(f, t) = f[c] + Total(f, u)
    BY <2>3, <2>4, TotalStep
  <2>9. Total(f, q) = f[c] + Total(f, r)
    <3>1. c \in q /\ q \ {c} = r /\ q \in SUBSET D
      BY <2>3, <2>5
    <3> HIDE DEF c, q, r
    <3> QED BY <3>1, TotalAdd
  <2>10. f[c] \in Nat /\ Total(f, u) \in Nat /\ Total(f, r) \in Nat
    BY <2>3, <2>5, TotalStep DEF Sized
  <2> HIDE DEF c, u, q, r
  <2>11. Total(f, S) = Total(f, t) + Total(f, r)
    BY <2>7, <2>8, <2>9, <2>10
  <2> QED BY <2>2, <2>11 DEF r
<1> QED BY <1>1

(* A part sums to no more than the whole. *)
LEMMA TotalMonotone ==
  ASSUME NEW D, IsFiniteSet(D), NEW f, Sized(f, D),
         NEW S \in SUBSET D, NEW T \in SUBSET S
  PROVE  Total(f, T) <= Total(f, S)
<1>1. Total(f, S) = Total(f, T) + Total(f, S \ T)
  BY TotalUnion
<1>2. T \in SUBSET D /\ S \ T \in SUBSET D
  OBVIOUS
<1>3. Total(f, T) \in Nat /\ Total(f, S \ T) \in Nat
  BY <1>2, TotalStep
<1> QED BY <1>1, <1>3

(* The sum depends on the sizes of the elements and on nothing else.        *)
LEMMA TotalSame ==
  ASSUME NEW D, IsFiniteSet(D), NEW f, Sized(f, D), NEW h, \A x \in D : h[x] = f[x]
  PROVE  Total(h, D) = Total(f, D)
<1>1. PICK g : Folds(g, f, D)
  BY FoldExists
<1>2. Folds(g, h, D)
  <2>1. ASSUME NEW s \in SUBSET D PROVE Step(g, f, s) = Step(g, h, s)
    <3>1. s # {} => First(s) \in D
      BY DEF First
    <3> QED BY <3>1 DEF Step
  <2> QED BY <1>1, <2>1 DEF Folds
<1>3. Sized(h, D) /\ D \in SUBSET D
  BY DEF Sized
<1> QED BY <1>1, <1>2, <1>3, FoldIs

(* The sum over a single element. *)
LEMMA TotalOne ==
  ASSUME NEW f, NEW x, f[x] \in Nat
  PROVE  Total(f, {x}) = f[x]
<1> DEFINE D == {x}
<1>1. IsFiniteSet(D) /\ Sized(f, D) /\ D \in SUBSET D /\ x \in D /\ D \ {x} = {} /\ {} \in SUBSET D
  BY FS_Singleton DEF Sized
<1> HIDE DEF D
<1>2. Total(f, D) = f[x] + Total(f, D \ {x})
  BY <1>1, TotalAdd
<1>3. Total(f, {}) = 0
  BY <1>1, TotalStep
<1> QED BY <1>1, <1>2, <1>3 DEF D
=============================================================================
