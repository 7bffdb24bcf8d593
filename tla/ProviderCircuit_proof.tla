------------------------ MODULE ProviderCircuit_proof ------------------------
(***************************************************************************)
(* Type correctness of ProviderCircuit, that probes stay apart, and that   *)
(* an open circuit keeps its delay, for any number of callers and any      *)
(* delays, leases, clock skews and faults.                                 *)
(*                                                                         *)
(* ProbesApart is not inductive: a probe is alone because the hash still   *)
(* holds its token, with a lease at least as long, and the hash outlives   *)
(* the lease.  OneHolder says so, and that no two callers share a token.   *)
(***************************************************************************)
EXTENDS ProviderCircuit, TLAPS

(* The hash lives longer than the lease and the delay that it stores. *)
RecordOutlives ==
    /\ recordLeft <= RecordTtl
    /\ probeLeft > MaxSkew => probeLeft < recordLeft + MaxSkew
    /\ wait > MaxSkew => wait < recordLeft + MaxSkew

(* A live probe is the one the hash names, and only the token's owner      *)
(* holds it.                                                               *)
OneHolder ==
    /\ \A c \in Callers :
          LiveProbe(c) => circuit = "half_open" /\ probe = held[c] /\ probeLeft >= lease[c]
    /\ \A c, d \in Callers : held[c] # NoToken /\ held[c] = held[d] => c = d

(* Only a half-open circuit names a probe. *)
HalfOpenOnly == probe # NoToken => circuit = "half_open"

Inv == CircuitTypeOK /\ RecordOutlives /\ HalfOpenOnly /\ OneHolder

USE TokenAssumption, TimeAssumption, ThresholdAssumption, LifetimeAssumption

-----------------------------------------------------------------------------
(* The fields are typed initially and every step of every action keeps     *)
(* them typed.                                                             *)
LEMMA TypeInit == CircuitInit => CircuitTypeOK
  BY SMT DEF CircuitInit, CircuitTypeOK

(* What the three scripts do to the hash keeps its fields typed. *)
RecordTyped ==
    /\ circuit \in {"closed", "open", "half_open"}
    /\ failures \in 0..Threshold
    /\ wait \in Nat /\ probeLeft \in Nat /\ recordLeft \in Nat
    /\ probe \in Tokens \cup {NoToken}

CallersTyped ==
    /\ phase \in [Callers -> {"idle", "calling", "healthy", "failed", "caught"}]
    /\ held \in [Callers -> Tokens \cup {NoToken}]
    /\ retry \in [Callers -> RetryAfters \cup {NoRetry}]
    /\ lease \in [Callers -> Nat]

LEMMA TypeSplit ==
    CircuitTypeOK <=> RecordTyped /\ CallersTyped /\ provider \in {"up", "down"} /\ faults \in 0..MaxFaults
  BY DEF CircuitTypeOK, RecordTyped, CallersTyped

LEMMA CountTyped ==
    ASSUME RecordTyped, NEW r \in RetryAfters \cup {NoRetry}, NEW s \in Skews, CountFailure(r, s)
    PROVE  RecordTyped'
  <1>1. wait' \in Nat
    BY SMT DEF CountFailure, RecordTyped, Skews
  <1>2. failures' \in 0..Threshold
    BY SMT DEF CountFailure, RecordTyped, Skews
  <1>3. recordLeft' \in Nat /\ probe' = NoToken /\ probeLeft' = 0 /\ circuit' \in {"closed", "open"}
    BY SMT DEF CountFailure, Touch
  <1>. QED
    BY <1>1, <1>2, <1>3 DEF RecordTyped

LEMMA FailureTyped ==
    ASSUME RecordTyped, NEW token, NEW r \in RetryAfters \cup {NoRetry}, NEW s \in Skews,
           RecordFailure(token, r, s)
    PROVE  RecordTyped'
  BY CountTyped, SMT DEF RecordFailure, RecordTyped, recordVars

LEMMA SuccessTyped ==
    ASSUME RecordTyped, NEW token, RecordSuccess(token)
    PROVE  RecordTyped'
  BY SMT DEF RecordSuccess, RecordTyped, recordVars, Touch

LEMMA GrantTyped ==
    ASSUME RecordTyped, NEW t \in Tokens, NEW s \in Skews, GrantProbe(t, s)
    PROVE  RecordTyped'
  BY SMT DEF GrantProbe, RecordTyped, Touch, Skews

LEMMA KeepTyped ==
    ASSUME RecordTyped, PassClosed \/ (\E s \in Skews : Refuse(s)) \/ UNCHANGED recordVars
    PROVE  RecordTyped'
  BY SMT DEF PassClosed, Refuse, RecordTyped, Touch, recordVars

(* What a caller does to its own fields keeps them typed. *)
LEMMA CallerTyped ==
    ASSUME CallersTyped, NEW c \in Callers,
           \/ Ends(c)
           \/ \E t \in Tokens \cup {NoToken}, n \in Nat : Starts(c, t, n)
           \/ Goes(c, "healthy") /\ UNCHANGED <<held, retry, lease>>
           \/ \E r \in RetryAfters \cup {NoRetry}, next \in {"failed", "caught"} :
                 Goes(c, next) /\ retry' = [retry EXCEPT ![c] = r] /\ UNCHANGED <<held, lease>>
           \/ UNCHANGED callerVars
    PROVE  CallersTyped'
  <1>1. CASE Ends(c)
    BY <1>1, SMT DEF Ends, Goes, CallersTyped
  <1>2. CASE \E t \in Tokens \cup {NoToken}, n \in Nat : Starts(c, t, n)
    BY <1>2, SMT DEF Starts, Goes, CallersTyped
  <1>3. CASE Goes(c, "healthy") /\ UNCHANGED <<held, retry, lease>>
    BY <1>3, SMT DEF Goes, CallersTyped
  <1>4. CASE \E r \in RetryAfters \cup {NoRetry}, next \in {"failed", "caught"} :
                Goes(c, next) /\ retry' = [retry EXCEPT ![c] = r] /\ UNCHANGED <<held, lease>>
    BY <1>4, SMT DEF Goes, CallersTyped
  <1>5. CASE UNCHANGED callerVars
    BY <1>5, SMT DEF callerVars, CallersTyped
  <1>. QED
    BY <1>1, <1>2, <1>3, <1>4, <1>5

LEMMA TypeStep == CircuitTypeOK /\ [CircuitNext]_vars => CircuitTypeOK'
<1>. SUFFICES ASSUME CircuitTypeOK, [CircuitNext]_vars PROVE CircuitTypeOK'
  OBVIOUS
<1>0. RecordTyped /\ CallersTyped /\ provider \in {"up", "down"} /\ faults \in 0..MaxFaults
  BY TypeSplit
<1>f. Fault \/ UNCHANGED faults => faults' \in 0..MaxFaults
  BY <1>0, SMT DEF Fault
<1>1. ASSUME NEW c \in Callers, BeginAttempt(c) PROVE CircuitTypeOK'
  <2>0. PICK s \in Skews :
          \/ Refuse(s) /\ UNCHANGED <<callerVars, faults>>
          \/ \E t \in Fresh : GrantProbe(t, s) /\ Permitted(c, t, ProbeLease + s)
          \/ PassClosed /\ Permitted(c, NoToken, 0)
    BY <1>1 DEF BeginAttempt
  <2>1. CASE Refuse(s) /\ UNCHANGED <<callerVars, faults>>
    <3>1. RecordTyped' /\ CallersTyped'
      BY <1>0, <2>1, KeepTyped, CallerTyped
    <3>. QED
      BY <3>1, <2>1, <1>0, <1>1, <1>f DEF BeginAttempt, CircuitTypeOK, RecordTyped, CallersTyped
  <2>2. ASSUME NEW t \in Fresh, GrantProbe(t, s), Permitted(c, t, ProbeLease + s) PROVE CircuitTypeOK'
    <3>1. t \in Tokens /\ ProbeLease + s \in Nat
      BY SMT DEF Fresh, Skews
    <3>2. RecordTyped'
      BY <1>0, <2>2, <3>1, GrantTyped
    <3>3. CallersTyped' /\ faults' \in 0..MaxFaults
      BY <1>0, <1>f, <2>2, <3>1, CallerTyped DEF Permitted
    <3>. QED
      BY <3>2, <3>3, <1>0, <1>1 DEF BeginAttempt, CircuitTypeOK, RecordTyped, CallersTyped
  <2>3. CASE PassClosed /\ Permitted(c, NoToken, 0)
    <3>1. RecordTyped'
      BY <1>0, <2>3, KeepTyped
    <3>2. CallersTyped' /\ faults' \in 0..MaxFaults
      BY <1>0, <1>f, <2>3, CallerTyped DEF Permitted
    <3>. QED
      BY <3>1, <3>2, <1>0, <1>1 DEF BeginAttempt, CircuitTypeOK, RecordTyped, CallersTyped
  <2>. QED
    BY <2>0, <2>1, <2>2, <2>3
<1>2. ASSUME NEW c \in Callers, CallReturns(c) PROVE CircuitTypeOK'
  <2>1. RecordTyped'
    BY <1>0, <1>2, KeepTyped DEF CallReturns
  <2>2. CallersTyped'
    BY <1>0, <1>2, CallerTyped DEF CallReturns
  <2>. QED
    BY <2>1, <2>2, <1>0, <1>2 DEF CallReturns, CircuitTypeOK, RecordTyped, CallersTyped
<1>3. ASSUME NEW c \in Callers, Report(c) PROVE CircuitTypeOK'
  <2>1. retry[c] \in RetryAfters \cup {NoRetry} /\ StateRetry \in RetryAfters
    BY <1>0 DEF CallersTyped
  <2>2. RecordTyped'
    BY <1>0, <1>3, <2>1, SuccessTyped, FailureTyped, KeepTyped
       DEF Report, ReportHealthy, ReportFailed, ReportCaught
  <2>3. CallersTyped'
    BY <1>0, <1>3, <2>1, CallerTyped DEF Report, ReportHealthy, ReportFailed, ReportCaught, Caught
  <2>4. provider' = provider /\ faults' \in 0..MaxFaults
    BY <1>3, <1>f DEF Report, ReportHealthy, ReportFailed, ReportCaught, Caught
  <2>. QED
    BY <2>2, <2>3, <2>4, <1>0 DEF CircuitTypeOK, RecordTyped, CallersTyped
<1>4. ASSUME NEW c \in Callers, Crash(c) PROVE CircuitTypeOK'
  <2>1. RecordTyped' /\ CallersTyped'
    BY <1>0, <1>4, KeepTyped, CallerTyped DEF Crash
  <2>. QED
    BY <2>1, <1>0, <1>4, <1>f DEF Crash, CircuitTypeOK, RecordTyped, CallersTyped
<1>5. CASE Tick
  <2>1. RecordTyped'
    BY <1>0, <1>5, SMT DEF Tick, RecordExpires, RecordAges, RecordTyped, Sooner
  <2>2. CallersTyped'
    BY <1>0, <1>5, SMT DEF Tick, CallersTyped, Sooner
  <2>. QED
    BY <2>1, <2>2, <1>0, <1>5 DEF Tick, CircuitTypeOK, RecordTyped, CallersTyped
<1>6. CASE ProviderChanges
  BY <1>6 DEF ProviderChanges, CircuitTypeOK, recordVars, callerVars
<1>7. CASE UNCHANGED vars
  BY <1>7 DEF vars, CircuitTypeOK, recordVars, callerVars
<1>. QED
  BY <1>1, <1>2, <1>3, <1>4, <1>5, <1>6, <1>7 DEF CircuitNext

(* The hash of the circuit and the callers hold only what the scripts and  *)
(* the orchestrator put there.                                             *)
THEOREM CircuitTyped == CircuitSpec => []CircuitTypeOK
  BY TypeInit, TypeStep, PTL DEF CircuitSpec

-----------------------------------------------------------------------------
(* The hash outlives what it stores: every script that stores a lease or a *)
(* delay renews the TTL, and all three run down together.                  *)
LEMMA OutlivesInit == CircuitInit => RecordOutlives
  BY SMT DEF CircuitInit, RecordOutlives

LEMMA CountOutlives ==
    ASSUME RecordTyped, NEW r \in RetryAfters \cup {NoRetry}, NEW s \in Skews, CountFailure(r, s)
    PROVE  RecordOutlives'
  BY SMT DEF CountFailure, RecordTyped, RecordOutlives, Skews, Touch

LEMMA ReportOutlives ==
    ASSUME RecordTyped, RecordOutlives, NEW token, NEW r \in RetryAfters \cup {NoRetry}, NEW s \in Skews,
           RecordSuccess(token) \/ RecordFailure(token, r, s) \/ UNCHANGED recordVars
    PROVE  RecordOutlives'
  <1>1. CASE RecordSuccess(token)
    BY <1>1, SMT DEF RecordSuccess, RecordTyped, RecordOutlives, Touch, recordVars
  <1>2. CASE RecordFailure(token, r, s)
    BY <1>2, CountOutlives, SMT DEF RecordFailure, RecordTyped, RecordOutlives, recordVars
  <1>3. CASE UNCHANGED recordVars
    BY <1>3 DEF RecordOutlives, recordVars
  <1>. QED
    BY <1>1, <1>2, <1>3

LEMMA OutlivesStep ==
    CircuitTypeOK /\ RecordOutlives /\ [CircuitNext]_vars => RecordOutlives'
<1>. SUFFICES ASSUME CircuitTypeOK, RecordOutlives, [CircuitNext]_vars PROVE RecordOutlives'
  OBVIOUS
<1>0. RecordTyped /\ CallersTyped
  BY TypeSplit
<1>k. UNCHANGED recordVars => RecordOutlives'
  BY DEF RecordOutlives, recordVars
<1>1. ASSUME NEW c \in Callers, BeginAttempt(c) PROVE RecordOutlives'
  <2>1. PICK s \in Skews : Refuse(s) \/ (\E t \in Fresh : GrantProbe(t, s)) \/ PassClosed
    BY <1>1 DEF BeginAttempt
  <2>2. probeLeft' = ProbeLease + s \/ probeLeft' = probeLeft
    BY <2>1 DEF Refuse, GrantProbe, PassClosed
  <2>3. wait' = wait /\ recordLeft' = RecordTtl
    BY <2>1 DEF Refuse, GrantProbe, PassClosed, Touch
  <2>. QED
    BY <2>2, <2>3, <1>0, SMT DEF RecordOutlives, RecordTyped, Skews
<1>2. ASSUME NEW c \in Callers, Report(c) PROVE RecordOutlives'
  <2>1. retry[c] \in RetryAfters \cup {NoRetry} /\ 0 \in Skews
    BY <1>0, SMT DEF CallersTyped, Skews
  <2>2. \E s \in Skews :
           RecordSuccess(held[c]) \/ RecordFailure(held[c], retry[c], s) \/ UNCHANGED recordVars
    BY <1>2, <2>1 DEF Report, ReportHealthy, ReportFailed, ReportCaught
  <2>. QED
    BY <2>1, <2>2, <1>0, ReportOutlives
<1>3. CASE Tick
  <2>1. CASE RecordExpires
    BY <2>1, SMT DEF RecordExpires, RecordOutlives
  <2>2. CASE RecordAges /\ recordLeft # 1
    BY <2>2, <1>0, SMT DEF RecordAges, RecordOutlives, RecordTyped, Sooner
  <2>. QED
    BY <1>3, <2>1, <2>2 DEF Tick
<1>. QED
  BY <1>1, <1>2, <1>3, <1>k DEF CircuitNext, CallReturns, Crash, ProviderChanges, vars

(* Every script that leaves the half-open state drops the token. *)
LEMMA HalfOpenStep ==
    CircuitTypeOK /\ HalfOpenOnly /\ [CircuitNext]_vars => HalfOpenOnly'
<1>. SUFFICES ASSUME HalfOpenOnly, [CircuitNext]_vars PROVE HalfOpenOnly'
  OBVIOUS
<1>k. circuit' = circuit /\ probe' = probe => HalfOpenOnly'
  BY DEF HalfOpenOnly
<1>1. ASSUME NEW c \in Callers, BeginAttempt(c) PROVE HalfOpenOnly'
  BY <1>1, <1>k DEF BeginAttempt, Refuse, GrantProbe, PassClosed, HalfOpenOnly
<1>2. ASSUME NEW c \in Callers, Report(c) PROVE HalfOpenOnly'
  <2>1. UNCHANGED recordVars \/ RecordSuccess(held[c]) \/ (\E s \in Skews : RecordFailure(held[c], retry[c], s))
    BY <1>2 DEF Report, ReportHealthy, ReportFailed, ReportCaught
  <2>2. UNCHANGED recordVars \/ probe' = NoToken
    BY <2>1 DEF RecordSuccess, RecordFailure, CountFailure
  <2>. QED
    BY <2>2, <1>k DEF recordVars, HalfOpenOnly
<1>3. CASE Tick
  BY <1>3, <1>k DEF Tick, RecordExpires, RecordAges, HalfOpenOnly
<1>. QED
  BY <1>1, <1>2, <1>3, <1>k DEF CircuitNext, CallReturns, Crash, ProviderChanges, vars, recordVars

-----------------------------------------------------------------------------
(* A probe's lease and its token. *)
LEMMA HolderInit == CircuitInit => OneHolder
  BY DEF CircuitInit, OneHolder, LiveProbe

(* When the hash takes an outcome from c, which is not calling any more,   *)
(* nobody is a live probe: in the half-open state c holds the hash's token.*)
LEMMA NobodyLive ==
    ASSUME OneHolder, NEW c \in Callers, phase[c] # "calling",
           circuit = "half_open" => ~Mismatch(held[c])
    PROVE  \A d \in Callers : ~LiveProbe(d)
  BY DEF OneHolder, LiveProbe, Mismatch

(* The two parts of OneHolder after a step of c that grants it no lease:   *)
(* the other callers are what they were.                                   *)
Others(c) ==
    \A d \in Callers \ {c} :
       phase'[d] = phase[d] /\ held'[d] = held[d] /\ lease'[d] = lease[d]

LEMMA EndsOthers ==
    ASSUME CallersTyped, NEW c \in Callers, Ends(c)
    PROVE  Others(c) /\ phase'[c] = "idle" /\ held'[c] = NoToken
  BY SMT DEF Ends, Goes, CallersTyped, Others

LEMMA GoesOthers ==
    ASSUME CallersTyped, NEW c \in Callers, NEW next, Goes(c, next), UNCHANGED <<held, lease>>
    PROVE  Others(c) /\ phase'[c] = next /\ held'[c] = held[c]
  BY SMT DEF Goes, CallersTyped, Others

LEMMA StartsOthers ==
    ASSUME CallersTyped, NEW c \in Callers, NEW t, NEW n, Starts(c, t, n)
    PROVE  Others(c) /\ phase'[c] = "calling" /\ held'[c] = t /\ lease'[c] = n
  BY SMT DEF Starts, Goes, CallersTyped, Others

(* c ends up as no probe, and the hash is as before or nobody was live. *)
LEMMA HolderKept ==
    ASSUME OneHolder, NEW c \in Callers, Others(c), held'[c] \in {held[c], NoToken},
           phase'[c] # "calling" \/ held'[c] = NoToken,
           UNCHANGED <<circuit, probe, probeLeft>> \/ (\A d \in Callers : ~LiveProbe(d))
    PROVE  OneHolder'
  <1>1. \A d \in Callers : LiveProbe(d)' => d # c /\ LiveProbe(d)
    BY DEF LiveProbe, Others
  <1>2. \A d \in Callers : LiveProbe(d)' =>
           circuit' = "half_open" /\ probe' = held'[d] /\ probeLeft' >= lease'[d]
    BY <1>1 DEF OneHolder, Others
  <1>3. \A d, e \in Callers : held'[d] # NoToken /\ held'[d] = held'[e] => d = e
    BY DEF OneHolder, Others
  <1>. QED
    BY <1>2, <1>3 DEF OneHolder

(* A probe is granted only when no lease runs on any clock any more. *)
LEMMA GrantNobodyLive ==
    ASSUME CircuitTypeOK, OneHolder, NEW t, NEW s \in Skews, GrantProbe(t, s)
    PROVE  \A d \in Callers : ~LiveProbe(d)
<1>. SUFFICES ASSUME NEW d \in Callers, LiveProbe(d) PROVE FALSE
  OBVIOUS
<1>1. circuit = "half_open" /\ probe = held[d] /\ held[d] # NoToken
  BY DEF OneHolder, LiveProbe
<1>2. ~(probeLeft > s)
  BY <1>1 DEF GrantProbe, Refused
<1>3. probeLeft >= lease[d] /\ lease[d] > MaxSkew
  BY DEF OneHolder, LiveProbe
<1>. QED
  BY <1>2, <1>3, SMT DEF CircuitTypeOK, Skews

LEMMA HolderStep ==
    Inv /\ [CircuitNext]_vars => OneHolder'
<1>. SUFFICES ASSUME CircuitTypeOK, RecordOutlives, OneHolder, [CircuitNext]_vars PROVE OneHolder'
  BY DEF Inv
<1>0. RecordTyped /\ CallersTyped
  BY TypeSplit
<1>k. UNCHANGED <<circuit, probe, probeLeft, callerVars>> => OneHolder'
  BY DEF OneHolder, LiveProbe, callerVars
<1>1. ASSUME NEW c \in Callers, BeginAttempt(c) PROVE OneHolder'
  <2>0. PICK s \in Skews :
          \/ Refuse(s) /\ UNCHANGED <<callerVars, faults>>
          \/ \E t \in Fresh : GrantProbe(t, s) /\ Permitted(c, t, ProbeLease + s)
          \/ PassClosed /\ Permitted(c, NoToken, 0)
    BY <1>1 DEF BeginAttempt
  <2>1. CASE Refuse(s) /\ UNCHANGED <<callerVars, faults>>
    BY <2>1, <1>k DEF Refuse
  <2>2. ASSUME NEW t \in Fresh, GrantProbe(t, s), Permitted(c, t, ProbeLease + s) PROVE OneHolder'
    <3>1. \A d \in Callers : ~LiveProbe(d)
      BY <2>2, GrantNobodyLive
    <3>2. CASE UNCHANGED callerVars
      BY <3>1, <3>2 DEF OneHolder, LiveProbe, callerVars
    <3>3. CASE Starts(c, t, ProbeLease + s)
      <4>1. Others(c) /\ held'[c] = t /\ lease'[c] = ProbeLease + s
        BY <3>3, <1>0, StartsOthers
      <4>2. circuit' = "half_open" /\ probe' = t /\ probeLeft' = ProbeLease + s
        BY <2>2 DEF GrantProbe
      <4>3. \A d \in Callers : LiveProbe(d)' => d = c
        BY <3>1, <4>1 DEF LiveProbe, Others
      <4>4. ProbeLease + s >= ProbeLease + s
        BY SMT DEF Skews
      <4>5. \A d \in Callers : LiveProbe(d)' =>
               circuit' = "half_open" /\ probe' = held'[d] /\ probeLeft' >= lease'[d]
        BY <4>1, <4>2, <4>3, <4>4
      <4>6. \A d \in Callers : held[d] # t
        BY DEF Fresh
      <4>7. \A d, e \in Callers : held'[d] # NoToken /\ held'[d] = held'[e] => d = e
        BY <4>1, <4>6 DEF Others, OneHolder
      <4>. QED
        BY <4>5, <4>7 DEF OneHolder
    <3>. QED
      BY <2>2, <3>2, <3>3 DEF Permitted
  <2>3. CASE PassClosed /\ Permitted(c, NoToken, 0)
    <3>1. UNCHANGED <<circuit, probe, probeLeft>>
      BY <2>3 DEF PassClosed
    <3>2. CASE Starts(c, NoToken, 0)
      BY <3>1, <3>2, <1>0, StartsOthers, HolderKept
    <3>. QED
      BY <2>3, <3>1, <3>2, <1>k DEF Permitted
  <2>. QED
    BY <2>0, <2>1, <2>2, <2>3
<1>2. ASSUME NEW c \in Callers, CallReturns(c) PROVE OneHolder'
  <2>1. UNCHANGED <<circuit, probe, probeLeft>>
    BY <1>2 DEF CallReturns, recordVars
  <2>2. CASE Ends(c)
    BY <2>1, <2>2, <1>0, EndsOthers, HolderKept
  <2>3. ASSUME NEW next \in {"healthy", "failed", "caught"}, Goes(c, next), UNCHANGED <<held, lease>>
        PROVE  OneHolder'
    BY <2>1, <2>3, <1>0, GoesOthers, HolderKept
  <2>. QED
    BY <1>2, <2>2, <2>3 DEF CallReturns
<1>3. ASSUME NEW c \in Callers, Report(c) PROVE OneHolder'
  <2>1. phase[c] # "calling"
    BY <1>3 DEF Report, ReportHealthy, ReportFailed, ReportCaught
  <2>2. Ends(c) \/ (Goes(c, "caught") /\ UNCHANGED <<held, lease>>)
    BY <1>3 DEF Report, ReportHealthy, ReportFailed, ReportCaught, Caught
  <2>3. Others(c) /\ phase'[c] # "calling" /\ held'[c] \in {held[c], NoToken}
    BY <2>2, <1>0, EndsOthers, GoesOthers
  <2>4. UNCHANGED recordVars \/ RecordSuccess(held[c]) \/ (\E s \in Skews : RecordFailure(held[c], retry[c], s))
    BY <1>3 DEF Report, ReportHealthy, ReportFailed, ReportCaught
  <2>5. UNCHANGED recordVars \/ (circuit = "half_open" => ~Mismatch(held[c]))
    BY <2>4 DEF RecordSuccess, RecordFailure
  <2>6. UNCHANGED <<circuit, probe, probeLeft>> \/ (\A d \in Callers : ~LiveProbe(d))
    BY <2>1, <2>5, NobodyLive DEF recordVars
  <2>. QED
    BY <2>3, <2>6, HolderKept
<1>4. ASSUME NEW c \in Callers, Crash(c) PROVE OneHolder'
  BY <1>4, <1>0, EndsOthers, HolderKept DEF Crash, recordVars
<1>5. CASE Tick
  <2>1. held' = held /\ phase' = phase /\ lease' = [c \in Callers |-> Sooner(lease[c])]
    BY <1>5 DEF Tick
  <2>2. ASSUME NEW c \in Callers, LiveProbe(c)'
        PROVE  circuit' = "half_open" /\ probe' = held'[c] /\ probeLeft' >= lease'[c]
    <3>1. lease[c] \in Nat /\ lease[c] > MaxSkew + 1 /\ lease'[c] = lease[c] - 1
      BY <2>1, <2>2, <1>0, SMT DEF LiveProbe, Sooner, CallersTyped
    <3>2. LiveProbe(c)
      BY <2>1, <2>2, <3>1, SMT DEF LiveProbe
    <3>3. circuit = "half_open" /\ probe = held[c] /\ probeLeft >= lease[c]
      BY <3>2 DEF OneHolder
    <3>4. recordLeft # 1
      BY <3>1, <3>3, <1>0, SMT DEF RecordOutlives, RecordTyped
    <3>5. RecordAges
      BY <3>4, <1>5 DEF Tick
    <3>. QED
      BY <3>1, <3>3, <3>5, <2>1, <1>0, SMT DEF RecordAges, Sooner, RecordTyped
  <2>. QED
    BY <2>1, <2>2 DEF OneHolder
<1>. QED
  BY <1>1, <1>2, <1>3, <1>4, <1>5, <1>k DEF CircuitNext, ProviderChanges, vars, recordVars

-----------------------------------------------------------------------------
LEMMA Inductive == CircuitSpec => []Inv
<1>1. CircuitInit => Inv
  <2>1. CircuitInit => HalfOpenOnly
    BY DEF CircuitInit, HalfOpenOnly
  <2>. QED
    BY <2>1, TypeInit, OutlivesInit, HolderInit DEF Inv
<1>2. Inv /\ [CircuitNext]_vars => Inv'
  BY TypeStep, OutlivesStep, HalfOpenStep, HolderStep DEF Inv
<1>. QED
  BY <1>1, <1>2, PTL DEF CircuitSpec

(* While the lease of a probe runs on some clock, every other permission   *)
(* to try the provider again is refused, however many callers there are.   *)
THEOREM ProbesStayApart == CircuitSpec => []ProbesApart
<1>1. Inv => ProbesApart
  <2>. SUFFICES ASSUME OneHolder, NEW c \in Callers, NEW d \in Callers, LiveProbe(c), LiveProbe(d)
                PROVE  c = d
    BY DEF Inv, ProbesApart
  <2>1. probe = held[c] /\ probe = held[d] /\ held[c] # NoToken
    BY DEF OneHolder, LiveProbe
  <2>. QED
    BY <2>1 DEF OneHolder
<1>. QED
  BY <1>1, Inductive, PTL

(* The delay of an open circuit is kept: no permission and no late outcome *)
(* ends it early, and the hash does not expire before it is over.          *)
THEOREM CooldownIsKept == CircuitSpec => CooldownHolds
<1>1. Inv /\ [CircuitNext]_vars => CooldownStep
  <2>. SUFFICES ASSUME Inv, [CircuitNext]_vars, circuit = "open", wait > MaxSkew
                PROVE  /\ circuit' = "open"
                       /\ \A c \in Callers : phase'[c] = "calling" => phase[c] = "calling"
    BY DEF CooldownStep
  <2>0. RecordTyped /\ CallersTyped
    BY TypeSplit DEF Inv
  <2>c. ASSUME NEW c \in Callers, Ends(c) \/ (\E next : next # "calling" /\ Goes(c, next) /\ UNCHANGED <<held, lease>>)
        PROVE  \A d \in Callers : phase'[d] = "calling" => phase[d] = "calling"
    BY <2>c, <2>0, EndsOthers, GoesOthers DEF Others
  <2>1. ASSUME NEW c \in Callers, BeginAttempt(c) PROVE circuit' = circuit /\ phase' = phase
    <3>1. \A s \in Skews : Refused(s)
      BY <2>0, SMT DEF Refused, Skews, RecordTyped
    <3>. QED
      BY <2>1, <3>1 DEF BeginAttempt, GrantProbe, PassClosed, Refuse, callerVars
  <2>2. ASSUME NEW c \in Callers, CallReturns(c)
        PROVE  circuit' = circuit /\ \A d \in Callers : phase'[d] = "calling" => phase[d] = "calling"
    <3>1. Ends(c) \/ (\E next \in {"healthy", "failed", "caught"} : Goes(c, next) /\ UNCHANGED <<held, lease>>)
      BY <2>2 DEF CallReturns
    <3>. QED
      BY <3>1, <2>2, <2>c DEF CallReturns, recordVars
  <2>3. ASSUME NEW c \in Callers, Report(c)
        PROVE  circuit' = circuit /\ \A d \in Callers : phase'[d] = "calling" => phase[d] = "calling"
    <3>1. Mismatch(held[c])
      BY DEF Inv, HalfOpenOnly, Mismatch
    <3>2. UNCHANGED recordVars
      BY <2>3, <3>1 DEF Report, ReportHealthy, ReportFailed, ReportCaught, RecordSuccess, RecordFailure
    <3>3. Ends(c) \/ (Goes(c, "caught") /\ UNCHANGED <<held, lease>>)
      BY <2>3 DEF Report, ReportHealthy, ReportFailed, ReportCaught, Caught
    <3>. QED
      BY <3>2, <3>3, <2>c DEF recordVars
  <2>4. ASSUME NEW c \in Callers, Crash(c)
        PROVE  circuit' = circuit /\ \A d \in Callers : phase'[d] = "calling" => phase[d] = "calling"
    BY <2>4, <2>c DEF Crash, recordVars
  <2>5. CASE Tick
    <3>1. recordLeft # 1
      BY <2>0, SMT DEF Inv, RecordOutlives, RecordTyped
    <3>. QED
      BY <2>5, <3>1 DEF Tick, RecordAges
  <2>. QED
    BY <2>1, <2>2, <2>3, <2>4, <2>5 DEF CircuitNext, ProviderChanges, vars, recordVars, callerVars
<1>. QED
  BY <1>1, Inductive, PTL DEF CircuitSpec, CooldownHolds
=============================================================================
