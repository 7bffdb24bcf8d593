------------------------ MODULE AdmissionStore_proof ------------------------
(***************************************************************************)
(* Proofs about the admission store, for any number of jobs, any cap, any  *)
(* lease and any readings of the callers' clocks.                          *)
(***************************************************************************)
EXTENDS AdmissionStore, FiniteSetTheorems, TLAPS

(* The inductive invariant: the types, the agreement of the three keys, and *)
(* that a stored token was drawn before (so that a fresh draw differs from  *)
(* every token the store holds).                                            *)
StoredTokensIssued == \A j \in Jobs : records[j] # None => records[j].token \in issued

IInv == StoreTypeOK /\ KeysAgree /\ StoredTokensIssued

(* A sweep keeps the invariant of the keys it sweeps and forgets no token.  *)
LEMMA SweptType ==
  ASSUME StoreTypeOK, NEW t \in Clock
  PROVE  /\ Swept(records, t, None) \in [Jobs -> Record \cup {None}]
         /\ Swept(expiry, t, None) \in [Jobs -> Nat \cup {None}]
         /\ Swept(fences, t, 0) \in [Jobs -> 0..MaxFence]
BY FenceAssumption DEF StoreTypeOK, Swept

(* The initial store satisfies the invariant: all three keys are empty.     *)
LEMMA InitIInv == StoreInit => IInv
BY FenceAssumption DEF StoreInit, IInv, StoreTypeOK, KeysAgree, StoredTokensIssued

(* RESERVE keeps the invariant, whatever it answers.                        *)
LEMMA ReserveIInv ==
  ASSUME IInv, NEW j \in Jobs, NEW s \in SearchIds, NEW token \in Tokens,
         NEW fp \in Fingerprints, NEW t \in Clock, Reserve(j, s, token, fp, t)
  PROVE  IInv'
<1> USE ClockAssumption, FenceAssumption, NoneAssumption
<1>0. t + Lease \in Nat
  OBVIOUS
<1>t. /\ Swept(records, t, None) \in [Jobs -> Record \cup {None}]
      /\ Swept(expiry, t, None) \in [Jobs -> Nat \cup {None}]
      /\ Swept(fences, t, 0) \in [Jobs -> 0..MaxFence]
  BY SweptType DEF IInv
<1>1. CASE ReserveRejected(j, token, fp, t)
  BY <1>1, <1>t DEF ReserveRejected, Draw, Swept, IInv, StoreTypeOK, KeysAgree, StoredTokensIssued
<1>2. CASE ReserveExisting(j, token, fp, t)
  <2>1. records[j] # None /\ j \notin Lapsed(t)
    BY <1>2 DEF ReserveExisting, ReserveReply
  <2>2. StoreTypeOK'
    BY <1>2, <1>0, <1>t DEF ReserveExisting, Draw, IInv, StoreTypeOK
  <2>3. KeysAgree' /\ StoredTokensIssued'
    BY <1>2, <1>0, <1>t, <2>1
    DEF ReserveExisting, Draw, Swept, IInv, StoreTypeOK, KeysAgree, StoredTokensIssued
  <2> QED BY <2>2, <2>3 DEF IInv
<1>3. CASE ReserveCreated(j, s, token, fp, t)
  <2>1. records[j] = None \/ j \in Lapsed(t)
    BY <1>3 DEF ReserveCreated, ReserveReply
  <2>2. [searchId |-> s, token |-> token, fp |-> fp] \in Record
    BY DEF Record
  <2>3. StoreTypeOK'
    BY <1>3, <1>0, <1>t, <2>2 DEF ReserveCreated, Draw, IInv, StoreTypeOK
  <2>4. [searchId |-> s, token |-> token, fp |-> fp] # None
    BY <2>2 DEF Record
  <2>5. KeysAgree' /\ StoredTokensIssued'
    BY <1>3, <1>0, <1>t, <2>1, <2>4
    DEF ReserveCreated, Draw, Swept, IInv, StoreTypeOK, KeysAgree, StoredTokensIssued
  <2> QED BY <2>3, <2>5 DEF IInv
<1> QED BY <1>1, <1>2, <1>3 DEF Reserve

(* Giving an admission up keeps the invariant: all three fields go.         *)
LEMMA RemoveIInv ==
  ASSUME IInv, NEW j \in Jobs, Remove(j)
  PROVE  IInv'
BY FenceAssumption DEF Remove, IInv, StoreTypeOK, KeysAgree, StoredTokensIssued

(* BEGIN, RENEW and ADOPT keep the invariant: they rewrite a record that is *)
(* there.                                                                   *)
LEMMA HolderIInv ==
  ASSUME IInv, NEW j \in Jobs, NEW token \in Tokens, NEW storedToken \in Tokens,
         NEW s \in SearchIds, NEW fp \in Fingerprints, NEW fence \in 0..MaxFence, NEW t \in Clock,
         \/ Begin(j, token, t)
         \/ Renew(j, token, fence, t)
         \/ Adopt(j, token, s, storedToken, fp, t)
  PROVE  IInv'
<1> USE ClockAssumption, FenceAssumption, NoneAssumption
<1>0. t + Lease \in Nat
  OBVIOUS
<1>1. CASE Begin(j, token, t)
  BY <1>0, <1>1 DEF Begin, Holds, IInv, StoreTypeOK, KeysAgree, StoredTokensIssued
<1>2. CASE Renew(j, token, fence, t)
  BY <1>0, <1>2 DEF Renew, HoldsFenced, Holds, IInv, StoreTypeOK, KeysAgree, StoredTokensIssued
<1>3. CASE Adopt(j, token, s, storedToken, fp, t)
  <2> DEFINE new == [searchId |-> s, token |-> storedToken, fp |-> fp]
  <2>2. new \in Record /\ new.token = storedToken /\ new # None
    BY DEF Record
  <2>3. records' = [records EXCEPT ![j] = new]
    BY <1>3 DEF Adopt
  <2> HIDE DEF new
  <2>4. StoreTypeOK'
    BY <1>0, <1>3, <2>2, <2>3 DEF Adopt, IInv, StoreTypeOK
  <2>5. KeysAgree' /\ StoredTokensIssued'
    BY <1>0, <1>3, <2>2, <2>3
    DEF Adopt, HoldsFenced, Holds, IInv, StoreTypeOK, KeysAgree, StoredTokensIssued
  <2> QED BY <2>4, <2>5 DEF IInv
<1> QED BY <1>1, <1>2, <1>3

(* Every step of the store, stuttering included, keeps the invariant.       *)
LEMMA StepIInv == IInv /\ [StoreNext]_storeVars => IInv'
<1> SUFFICES ASSUME IInv, [StoreNext]_storeVars PROVE IInv'
  OBVIOUS
<1>1. CASE UNCHANGED storeVars
  BY <1>1 DEF storeVars, IInv, StoreTypeOK, KeysAgree, StoredTokensIssued
<1>2. ASSUME NEW t \in Clock, Snapshot(t) PROVE IInv'
  BY <1>2, SweptType DEF Snapshot, SweepOnly, Swept, IInv, StoreTypeOK, KeysAgree, StoredTokensIssued
<1>3. ASSUME NEW t \in Clock, NEW j \in Jobs, StoreStep(j, t) PROVE IInv'
  <2>1. ASSUME NEW s \in SearchIds, NEW token \in Tokens, NEW fp \in Fingerprints,
               Reserve(j, s, token, fp, t)
        PROVE  IInv'
    BY <2>1, ReserveIInv
  <2>2. ASSUME NEW token \in Tokens, Begin(j, token, t) PROVE IInv'
    <3>1. /\ token \in Tokens /\ 0 \in 0..MaxFence
          /\ records[j] \in Record
      BY <2>2, FenceAssumption DEF Begin, Holds, IInv, StoreTypeOK
    <3>2. records[j].searchId \in SearchIds /\ records[j].fp \in Fingerprints
      BY <3>1 DEF Record
    <3> QED BY <2>2, <3>1, <3>2, HolderIInv
  <2>3. ASSUME NEW token \in Tokens, NEW fence \in 0..MaxFence, Renew(j, token, fence, t)
        PROVE  IInv'
    <3>1. records[j] \in Record
      BY <2>3 DEF Renew, HoldsFenced, Holds, IInv, StoreTypeOK
    <3>2. records[j].searchId \in SearchIds /\ records[j].fp \in Fingerprints
      BY <3>1 DEF Record
    <3> QED BY <2>3, <3>2, HolderIInv
  <2>4. ASSUME NEW token \in Tokens, NEW storedToken \in Tokens, NEW s \in SearchIds,
               NEW fp \in Fingerprints, Adopt(j, token, s, storedToken, fp, t)
        PROVE  IInv'
    BY <2>4, HolderIInv, FenceAssumption
  <2>5. ASSUME NEW token \in Tokens, NEW fence \in 0..MaxFence,
               Release(j, token, fence) \/ ReleaseTerminal(j, token)
        PROVE  IInv'
    BY <2>5, RemoveIInv DEF Release, ReleaseTerminal
  <2> QED BY <1>3, <2>1, <2>2, <2>3, <2>4, <2>5, FenceAssumption DEF StoreStep
<1> QED BY <1>1, <1>2, <1>3 DEF StoreNext

(* The store's keys always hold records, lease ends and fencing numbers of  *)
(* their types.                                                             *)
THEOREM StoreTyped == StoreSpec => []StoreTypeOK
<1>1. IInv => StoreTypeOK
  BY DEF IInv
<1> QED BY <1>1, InitIInv, StepIInv, PTL DEF StoreSpec

(* The sorted set, the records and the fences always describe the same      *)
(* admissions.                                                              *)
THEOREM StoreKeysAgree == StoreSpec => []KeysAgree
<1>1. IInv => KeysAgree
  BY DEF IInv
<1> QED BY <1>1, InitIInv, StepIInv, PTL DEF StoreSpec

-----------------------------------------------------------------------------
(* The jobs counted by ZCARD are finitely many, and what a sweep leaves is  *)
(* no more than what there was.                                             *)
LEMMA AdmittedFinite ==
  ASSUME NEW S, S \subseteq Admitted
  PROVE  /\ IsFiniteSet(Admitted) /\ IsFiniteSet(S)
         /\ Cardinality(S) \in Nat /\ Cardinality(Admitted) \in Nat
         /\ Cardinality(S) <= Cardinality(Admitted)
<1>1. IsFiniteSet(Admitted)
  BY JobsAssumption, FS_Subset DEF Admitted
<1>2. IsFiniteSet(S) /\ Cardinality(S) <= Cardinality(Admitted)
  BY <1>1, FS_Subset
<1> QED BY <1>1, <1>2, FS_CardinalityType

(* No step admits beyond the cap: only a creating RESERVE adds a member,    *)
(* and it compared the count left by its own sweep with the cap.            *)
LEMMA StepCap == IInv /\ AdmissionCap /\ [StoreNext]_storeVars => AdmissionCap'
<1> SUFFICES ASSUME IInv, AdmissionCap, [StoreNext]_storeVars PROVE AdmissionCap'
  OBVIOUS
<1> USE CapAssumption, NoneAssumption, ClockAssumption
<1>a. ASSUME Admitted' \subseteq Admitted PROVE AdmissionCap'
  <2> DEFINE S == Admitted'
  <2>1. S \subseteq Admitted
    BY <1>a
  <2>2. /\ Cardinality(S) \in Nat /\ Cardinality(Admitted) \in Nat
        /\ Cardinality(S) <= Cardinality(Admitted)
    <3> HIDE DEF S
    <3> QED BY <2>1, AdmittedFinite
  <2> QED BY <2>2 DEF AdmissionCap
<1>1. CASE UNCHANGED storeVars
  BY <1>1, <1>a DEF storeVars, Admitted
<1>2. ASSUME NEW t \in Clock, Snapshot(t) PROVE AdmissionCap'
  BY <1>2, <1>a DEF Snapshot, SweepOnly, Swept, Admitted
<1>3. ASSUME NEW t \in Clock, NEW j \in Jobs, StoreStep(j, t) PROVE AdmissionCap'
  <2>1. ASSUME NEW token \in Tokens, NEW fp \in Fingerprints,
               ReserveRejected(j, token, fp, t) \/ ReserveExisting(j, token, fp, t)
        PROVE  AdmissionCap'
    <3>1. CASE ReserveRejected(j, token, fp, t)
      BY <3>1, <1>a DEF ReserveRejected, Swept, Admitted
    <3>2. CASE ReserveExisting(j, token, fp, t)
      BY <3>2, <1>a DEF ReserveExisting, ReserveReply, Swept, Admitted, IInv, StoreTypeOK, KeysAgree
    <3> QED BY <2>1, <3>1, <3>2
  <2>2. ASSUME NEW s \in SearchIds, NEW token \in Tokens, NEW fp \in Fingerprints,
               ReserveCreated(j, s, token, fp, t)
        PROVE  AdmissionCap'
    <3> DEFINE left == Admitted \ Lapsed(t)
    <3>1. ~(Cardinality(left) >= MaxAdmitted)
      BY <2>2 DEF ReserveCreated, ReserveReply
    <3>2. Admitted' = left \cup {j}
      BY <2>2 DEF ReserveCreated, Swept, Admitted, IInv, StoreTypeOK
    <3>3. IsFiniteSet(left) /\ Cardinality(left) \in Nat
      BY AdmittedFinite
    <3>4. Cardinality(left \cup {j}) <= Cardinality(left) + 1 /\ Cardinality(left \cup {j}) \in Nat
      <4> HIDE DEF left
      <4>1. Cardinality(left \cup {j}) = IF j \in left THEN Cardinality(left) ELSE Cardinality(left) + 1
        BY <3>3, FS_AddElement
      <4> QED BY <3>3, <4>1
    <3> HIDE DEF left
    <3> QED BY <3>1, <3>2, <3>3, <3>4 DEF AdmissionCap
  <2>3. ASSUME NEW token \in Tokens, Begin(j, token, t) PROVE AdmissionCap'
    BY <2>3, <1>a DEF Begin, Holds, Admitted, IInv, StoreTypeOK, KeysAgree
  <2>4. ASSUME NEW token \in Tokens, NEW fence \in 0..MaxFence, Renew(j, token, fence, t)
        PROVE  AdmissionCap'
    BY <2>4, <1>a DEF Renew, HoldsFenced, Holds, Admitted, IInv, StoreTypeOK, KeysAgree
  <2>5. ASSUME NEW token \in Tokens, NEW storedToken \in Tokens, NEW s \in SearchIds,
               NEW fp \in Fingerprints, Adopt(j, token, s, storedToken, fp, t)
        PROVE  AdmissionCap'
    BY <2>5, <1>a DEF Adopt, HoldsFenced, Holds, Admitted, IInv, StoreTypeOK, KeysAgree
  <2>6. ASSUME Remove(j) PROVE AdmissionCap'
    BY <2>6, <1>a DEF Remove, Admitted, IInv, StoreTypeOK
  <2> QED BY <1>3, <2>1, <2>2, <2>3, <2>4, <2>5, <2>6
          DEF StoreStep, Reserve, Release, ReleaseTerminal
<1> QED BY <1>1, <1>2, <1>3 DEF StoreNext

(* At no time are more than maxAdmittedJobs searches admitted.              *)
THEOREM AdmissionCapHolds == StoreSpec => []AdmissionCap
<1>1. StoreInit => AdmissionCap
  <2> SUFFICES ASSUME StoreInit PROVE AdmissionCap
    OBVIOUS
  <2>1. Admitted = {}
    BY DEF StoreInit, Admitted
  <2> QED BY <2>1, FS_EmptySet, CapAssumption DEF AdmissionCap
<1> QED BY <1>1, InitIInv, StepIInv, StepCap, PTL DEF StoreSpec

-----------------------------------------------------------------------------
(* A sweep that leaves a record leaves its fence.                           *)
LEMMA SweptFence ==
  ASSUME IInv, NEW t \in Clock, NEW k \in Jobs, Swept(records, t, None)[k] # None
  PROVE  /\ Swept(records, t, None)[k] = records[k]
         /\ Swept(fences, t, 0)[k] = fences[k]
BY DEF Swept

(* A step changes the fence of a surviving record only as FenceStep allows. *)
LEMMA StepFence == IInv /\ StoreNext => FenceStep
<1> SUFFICES ASSUME IInv, StoreNext, NEW k \in Jobs,
                    records[k] # None, records'[k] # None
             PROVE  \/ records'[k].token = records[k].token /\ fences'[k] >= fences[k]
                    \/ records'[k].token # records[k].token /\ fences'[k] = 0
  BY DEF FenceStep
<1> USE FenceAssumption
<1>f. fences[k] \in Nat /\ fences[k] >= fences[k]
  BY DEF IInv, StoreTypeOK
<1>1. ASSUME NEW t \in Clock,
             records'[k] = Swept(records, t, None)[k], fences'[k] = Swept(fences, t, 0)[k]
      PROVE  records'[k].token = records[k].token /\ fences'[k] >= fences[k]
  BY <1>1, <1>f, SweptFence
<1>2. ASSUME NEW t \in Clock, Snapshot(t)
      PROVE  records'[k].token = records[k].token /\ fences'[k] >= fences[k]
  BY <1>1, <1>2 DEF Snapshot, SweepOnly
<1>3. ASSUME NEW t \in Clock, NEW j \in Jobs, StoreStep(j, t)
      PROVE  \/ records'[k].token = records[k].token /\ fences'[k] >= fences[k]
             \/ records'[k].token # records[k].token /\ fences'[k] = 0
  <2>1. ASSUME NEW token \in Tokens, NEW fp \in Fingerprints,
               ReserveRejected(j, token, fp, t) \/ ReserveExisting(j, token, fp, t)
        PROVE  records'[k].token = records[k].token /\ fences'[k] >= fences[k]
    BY <2>1, <1>1 DEF ReserveRejected, ReserveExisting
  <2>2. ASSUME NEW s \in SearchIds, NEW token \in Tokens, NEW fp \in Fingerprints,
               ReserveCreated(j, s, token, fp, t)
        PROVE  \/ records'[k].token = records[k].token /\ fences'[k] >= fences[k]
               \/ records'[k].token # records[k].token /\ fences'[k] = 0
    <3>1. CASE k # j
      <4>1. records'[k] = Swept(records, t, None)[k] /\ fences'[k] = Swept(fences, t, 0)[k]
        BY <2>2, <3>1 DEF ReserveCreated, Swept
      <4> QED BY <4>1, <1>1
    <3>2. CASE k = j
      <4>1. records'[k].token = token
        BY <2>2, <3>2 DEF ReserveCreated, Swept
      <4>2. records[k].token # token
        BY <2>2 DEF ReserveCreated, Draw, IInv, StoredTokensIssued
      <4>3. k \in Lapsed(t)
        BY <2>2, <3>2 DEF ReserveCreated, ReserveReply, IInv, KeysAgree
      <4>4. fences'[k] = 0
        BY <2>2, <4>3 DEF ReserveCreated, Swept
      <4> QED BY <4>1, <4>2, <4>4
    <3> QED BY <3>1, <3>2
  <2>3. ASSUME NEW token \in Tokens, Begin(j, token, t)
        PROVE  records'[k].token = records[k].token /\ fences'[k] >= fences[k]
    BY <2>3, <1>f DEF Begin, IInv, StoreTypeOK
  <2>4. ASSUME NEW token \in Tokens, NEW fence \in 0..MaxFence, Renew(j, token, fence, t)
        PROVE  records'[k].token = records[k].token /\ fences'[k] >= fences[k]
    BY <2>4, <1>f DEF Renew
  <2>5. ASSUME NEW token \in Tokens, NEW storedToken \in Tokens, NEW s \in SearchIds,
               NEW fp \in Fingerprints, Adopt(j, token, s, storedToken, fp, t)
        PROVE  \/ records'[k].token = records[k].token /\ fences'[k] >= fences[k]
               \/ records'[k].token # records[k].token /\ fences'[k] = 0
    BY <2>5, <1>f DEF Adopt, HoldsFenced, IInv, StoreTypeOK
  <2>6. ASSUME Remove(j)
        PROVE  records'[k].token = records[k].token /\ fences'[k] >= fences[k]
    BY <2>6, <1>f DEF Remove, IInv, StoreTypeOK
  <2> QED BY <1>3, <2>1, <2>2, <2>3, <2>4, <2>5, <2>6
          DEF StoreStep, Reserve, Release, ReleaseTerminal
<1> QED BY <1>2, <1>3 DEF StoreNext

(* The fencing numbers granted under one token only grow, and a replaced    *)
(* record starts again at 0 under another token.                            *)
THEOREM FencesGrow == StoreSpec => FenceGrowsWithToken
<1>1. IInv /\ [StoreNext]_storeVars => [FenceStep]_storeVars
  BY StepFence
<1> QED BY <1>1, InitIInv, StepIInv, PTL DEF StoreSpec, FenceGrowsWithToken
=============================================================================
