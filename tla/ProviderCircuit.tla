--------------------------- MODULE ProviderCircuit ---------------------------
(***************************************************************************)
(* The circuit breaker of one provider: the hash that                      *)
(* server/state/valkey/valkeyProviderHealthStore.js keeps for it, the Lua  *)
(* scripts on that hash (one script, one action), and the callers of       *)
(* server/providers/accommodationProviderOrchestrator.js: ask permission,  *)
(* call the provider, report the outcome, report again from the catch.     *)
(*                                                                         *)
(* Times are kept relative to the server's clock: wait is nextAttemptAt    *)
(* minus now.  A caller reads its own clock (Date.now()), which is up to   *)
(* MaxSkew ticks ahead: what it stores lies s further away, and it takes   *)
(* for past what is at most s ahead.  The TTL of the hash is the server's. *)
(*                                                                         *)
(* SuccessClosesOpen, AnyFailureCounts and ProbeNeverLapses are faulty     *)
(* forms of the definition that follows each of them; no action uses them. *)
(***************************************************************************)
EXTENDS Naturals, FiniteSets

CONSTANTS
    Callers,       \* concurrent provider operations, of any process
    Tokens,        \* attempt tokens, crypto.randomUUID() each
    NoToken,       \* the absent token
    Threshold,     \* policy.failureThreshold
    Cooldown,      \* policy.cooldownMs, in ticks
    RetryAfters,   \* explicit retry delays a failure can carry
    StateRetry,    \* the delay that every error of Valkey itself carries
    NoRetry,       \* a failure without an explicit delay
    ProbeLease,    \* halfOpenProbeLeaseMs
    RecordTtl,     \* recordTtlMs
    MaxSkew,       \* bound: how far a caller's clock is ahead
    MaxFaults      \* bound: lost commands, lost replies and crashes

ASSUME TokenAssumption == NoToken \notin Tokens
ASSUME TimeAssumption  ==
    /\ {Cooldown, ProbeLease, RecordTtl, MaxSkew, MaxFaults, StateRetry} \subseteq Nat
    /\ RetryAfters \subseteq Nat /\ StateRetry \in RetryAfters /\ NoRetry \notin Nat
ASSUME ThresholdAssumption == Threshold \in Nat \ {0}
(* The defaults: cooldown 2 minutes, explicit delays at most 30 minutes,   *)
(* probe lease 30 seconds, record lifetime 24 hours.                       *)
ASSUME LifetimeAssumption ==
    /\ Cooldown < RecordTtl /\ ProbeLease < RecordTtl
    /\ \A r \in RetryAfters : r < RecordTtl

VARIABLES
    circuit,     \* circuitState; "closed" when there is no record
    failures,    \* consecutiveFailures, counted up to Threshold
    wait,        \* nextAttemptAt, ahead of now; 0 when absent or past
    probe,       \* halfOpenProbeToken
    probeLeft,   \* halfOpenProbeExpiresAt, ahead of now
    recordLeft,  \* the hash's TTL; 0 when there is no hash
    phase,       \* caller -> what it does next
    held,        \* caller -> permission.attemptToken
    retry,       \* caller -> the explicit delay of the failure it reports
    lease,       \* history: caller -> what is left of the lease it was granted
    provider,    \* the provider and its account: "up" or "down"
    faults       \* lost commands, lost replies and crashes so far

recordVars == <<circuit, failures, wait, probe, probeLeft, recordLeft>>
callerVars == <<phase, held, retry, lease>>
vars == <<recordVars, callerVars, provider, faults>>

Skews == 0..MaxSkew

Sooner(n) == IF n > 0 THEN n - 1 ELSE 0

Touch == recordLeft' = RecordTtl   \* PEXPIRE

-----------------------------------------------------------------------------
(* BEGIN_ATTEMPT_SCRIPT, sent by a caller whose clock is s ahead. *)

ProbeNeverLapses(s) ==
    \/ circuit = "open" /\ wait > s
    \/ circuit = "half_open" /\ probe # NoToken

Refused(s) ==
    \/ circuit = "open" /\ wait > s
    \/ circuit = "half_open" /\ probe # NoToken /\ probeLeft > s

Refuse(s) ==
    /\ Refused(s)
    /\ Touch
    /\ UNCHANGED <<circuit, failures, wait, probe, probeLeft>>

GrantProbe(t, s) ==
    /\ circuit # "closed" /\ ~Refused(s)
    /\ circuit' = "half_open" /\ probe' = t /\ probeLeft' = ProbeLease + s
    /\ Touch
    /\ UNCHANGED <<failures, wait>>

PassClosed ==
    /\ circuit = "closed"
    /\ Touch
    /\ UNCHANGED <<circuit, failures, wait, probe, probeLeft>>

-----------------------------------------------------------------------------
(* RECORD_SUCCESS_SCRIPT and RECORD_FAILURE_SCRIPT, with the token that    *)
(* the attempt was permitted with ('' when it was no probe).               *)

Mismatch(token) == token = NoToken \/ token # probe

SuccessClosesOpen(token) ==
    IF circuit = "half_open" /\ Mismatch(token) THEN UNCHANGED recordVars
    ELSE /\ circuit' = "closed" /\ failures' = 0 /\ wait' = 0
         /\ probe' = NoToken /\ probeLeft' = 0
         /\ Touch

RecordSuccess(token) ==
    IF circuit \in {"half_open", "open"} /\ Mismatch(token) THEN UNCHANGED recordVars
    ELSE /\ circuit' = "closed" /\ failures' = 0 /\ wait' = 0
         /\ probe' = NoToken /\ probeLeft' = 0
         /\ Touch

CountFailure(r, s) ==
    LET count == IF failures < Threshold THEN failures + 1 ELSE Threshold
        opens == circuit = "half_open" \/ r # NoRetry \/ count >= Threshold
        delay == IF r # NoRetry THEN r ELSE Cooldown
    IN  /\ failures' = count
        /\ probe' = NoToken /\ probeLeft' = 0
        /\ circuit' = IF opens THEN "open" ELSE "closed"
        /\ wait' = IF opens THEN delay + s ELSE 0
        /\ Touch

AnyFailureCounts(token, r, s) ==
    IF circuit = "open" THEN UNCHANGED recordVars ELSE CountFailure(r, s)

RecordFailure(token, r, s) ==
    IF circuit = "open" \/ (circuit = "half_open" /\ Mismatch(token))
    THEN UNCHANGED recordVars
    ELSE CountFailure(r, s)

-----------------------------------------------------------------------------
(* One provider operation of a caller. *)

Goes(c, next) == phase' = [phase EXCEPT ![c] = next]

Ends(c) ==
    /\ Goes(c, "idle")
    /\ held'  = [held EXCEPT ![c] = NoToken]
    /\ retry' = [retry EXCEPT ![c] = NoRetry]
    /\ lease' = [lease EXCEPT ![c] = 0]

Starts(c, t, granted) ==
    /\ Goes(c, "calling")
    /\ held'  = [held EXCEPT ![c] = t]
    /\ lease' = [lease EXCEPT ![c] = granted]
    /\ UNCHANGED retry

Fault == faults < MaxFaults /\ faults' = faults + 1

(* beginProviderAttempt runs before the try: when its reply is lost the    *)
(* operation fails and nothing is reported, whatever the script granted.   *)
Permitted(c, t, granted) ==
    \/ Starts(c, t, granted) /\ UNCHANGED faults
    \/ Fault /\ UNCHANGED callerVars

Fresh == Tokens \ ({probe} \cup {held[d] : d \in Callers})

BeginAttempt(c) ==
    /\ phase[c] = "idle"
    /\ \E s \in Skews :
          \/ Refuse(s) /\ UNCHANGED <<callerVars, faults>>
          \/ \E t \in Fresh : GrantProbe(t, s) /\ Permitted(c, t, ProbeLease + s)
          \/ PassClosed /\ Permitted(c, NoToken, 0)
    /\ UNCHANGED provider

(* The operation ends: a healthy result; a result whose outcome counts as  *)
(* a failure; an exception (a timeout, no capacity, a broken adapter); or  *)
(* the outcome circuit_open, which is reported neither way.                *)
CallReturns(c) ==
    /\ phase[c] = "calling"
    /\ \/ provider = "up" /\ Goes(c, "healthy") /\ UNCHANGED <<held, retry, lease>>
       \/ /\ provider = "down"
          /\ \E r \in RetryAfters \cup {NoRetry}, next \in {"failed", "caught"} :
                Goes(c, next) /\ retry' = [retry EXCEPT ![c] = r]
          /\ UNCHANGED <<held, lease>>
       \/ provider = "down" /\ Ends(c)
    /\ UNCHANGED <<recordVars, provider, faults>>

(* The command fails in the try: the catch reports a failure with the      *)
(* delay that an error of Valkey carries.                                  *)
Caught(c) ==
    /\ Fault
    /\ Goes(c, "caught")
    /\ retry' = [retry EXCEPT ![c] = StateRetry]
    /\ UNCHANGED <<held, lease>>

ReportHealthy(c) ==
    /\ phase[c] = "healthy"
    /\ \/ RecordSuccess(held[c]) /\ Ends(c) /\ UNCHANGED faults
       \/ RecordSuccess(held[c]) /\ Caught(c)
       \/ UNCHANGED recordVars /\ Caught(c)
    /\ UNCHANGED provider

ReportFailed(c) ==
    /\ phase[c] = "failed"
    /\ \/ \E s \in Skews : RecordFailure(held[c], retry[c], s) /\ Ends(c) /\ UNCHANGED faults
       \/ \E s \in Skews : RecordFailure(held[c], retry[c], s) /\ Caught(c)
       \/ UNCHANGED recordVars /\ Caught(c)
    /\ UNCHANGED provider

(* The report of the catch: when it fails too, the error leaves the        *)
(* operation; its reply makes no difference.                               *)
ReportCaught(c) ==
    /\ phase[c] = "caught"
    /\ \/ \E s \in Skews : RecordFailure(held[c], retry[c], s) /\ UNCHANGED faults
       \/ UNCHANGED recordVars /\ Fault
    /\ Ends(c)
    /\ UNCHANGED provider

(* The process ends in the middle of an operation. *)
Crash(c) ==
    /\ phase[c] # "idle"
    /\ Fault
    /\ Ends(c)
    /\ UNCHANGED <<recordVars, provider>>

-----------------------------------------------------------------------------
(* A tick of the server's clock.  The hash expires as a whole. *)
RecordExpires ==
    /\ circuit' = "closed" /\ failures' = 0 /\ wait' = 0
    /\ probe' = NoToken /\ probeLeft' = 0 /\ recordLeft' = 0

RecordAges ==
    /\ wait' = Sooner(wait) /\ probeLeft' = Sooner(probeLeft) /\ recordLeft' = Sooner(recordLeft)
    /\ UNCHANGED <<circuit, failures, probe>>

Tick ==
    /\ IF recordLeft = 1 THEN RecordExpires ELSE RecordAges
    /\ lease' = [c \in Callers |-> Sooner(lease[c])]
    /\ UNCHANGED <<phase, held, retry, provider, faults>>

ProviderChanges ==
    /\ provider' = IF provider = "up" THEN "down" ELSE "up"
    /\ UNCHANGED <<recordVars, callerVars, faults>>

CircuitInit ==
    /\ circuit = "closed" /\ failures = 0 /\ wait = 0
    /\ probe = NoToken /\ probeLeft = 0 /\ recordLeft = 0
    /\ phase = [c \in Callers |-> "idle"]
    /\ held  = [c \in Callers |-> NoToken]
    /\ retry = [c \in Callers |-> NoRetry]
    /\ lease = [c \in Callers |-> 0]
    /\ provider = "up"
    /\ faults = 0

Report(c) == ReportHealthy(c) \/ ReportFailed(c) \/ ReportCaught(c)

CircuitNext ==
    \/ \E c \in Callers : BeginAttempt(c) \/ CallReturns(c) \/ Report(c) \/ Crash(c)
    \/ Tick
    \/ ProviderChanges

CircuitSpec == CircuitInit /\ [][CircuitNext]_vars

(* Operations keep coming, every call ends (by its timeout at the latest), *)
(* the orchestrator reports every outcome, and time passes.                *)
FairCircuitSpec ==
    /\ CircuitSpec
    /\ WF_vars(Tick)
    /\ \A c \in Callers : /\ WF_vars(BeginAttempt(c))
                          /\ WF_vars(CallReturns(c))
                          /\ WF_vars(Report(c))

-----------------------------------------------------------------------------
(* The fields of the hash and of the callers hold what the code puts there. *)
CircuitTypeOK ==
    /\ circuit \in {"closed", "open", "half_open"}
    /\ failures \in 0..Threshold
    /\ wait \in Nat /\ probeLeft \in Nat /\ recordLeft \in Nat
    /\ probe \in Tokens \cup {NoToken}
    /\ phase \in [Callers -> {"idle", "calling", "healthy", "failed", "caught"}]
    /\ held \in [Callers -> Tokens \cup {NoToken}]
    /\ retry \in [Callers -> RetryAfters \cup {NoRetry}]
    /\ lease \in [Callers -> Nat]
    /\ provider \in {"up", "down"}
    /\ faults \in 0..MaxFaults

(* c calls the provider as a probe, and no clock has its lease ended yet. *)
LiveProbe(c) == phase[c] = "calling" /\ held[c] # NoToken /\ lease[c] > MaxSkew

(* A provider that is being tried again is tried by one call at a time:    *)
(* as long as a probe's lease runs no other call is let through as a       *)
(* probe, whatever late outcomes, lost commands and crashes happen.        *)
ProbesApart == \A c, d \in Callers : LiveProbe(c) /\ LiveProbe(d) => c = d

(* From the moment the circuit opens until its delay is over on every      *)
(* clock, no call is let through and nothing closes the circuit: not the   *)
(* late success of a call that began before, not the loss of the record.   *)
CooldownStep ==
    circuit = "open" /\ wait > MaxSkew =>
        /\ circuit' = "open"
        /\ \A c \in Callers : phase'[c] = "calling" => phase[c] = "calling"

CooldownHolds == [][CooldownStep]_vars

(* Every probe that is under way is within its lease. *)
ProbesInTime == \A c \in Callers : held[c] # NoToken => lease[c] > MaxSkew

(* A provider that stays healthy and answers its probes within their lease  *)
(* gets its traffic back for good, though callers crashed, replies were     *)
(* lost and probes never reported or reported late before.                  *)
Recovers == <>[](provider = "up" /\ ProbesInTime) => <>[](circuit = "closed")
=============================================================================
