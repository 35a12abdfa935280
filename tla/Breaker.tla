------------------------------ MODULE Breaker -------------------------------
(***************************************************************************)
(* One CircuitBreaker object of src/shared/utils/circuitBreaker.ts as a    *)
(* record, and its methods as operators from record to record.             *)
(*                                                                         *)
(* lastFailureTime is modelled by age, the time since it in ticks; ages    *)
(* stop at AgeBound, which is no less than any cooldown, and null (no      *)
(* failure remembered) is AgeBound too: the code treats null as a cooldown *)
(* that is over.  successCount and the transition history decide nothing.  *)
(* kindThresholds is left out: nothing in the program sets it.             *)
(***************************************************************************)
EXTENDS Integers

CONSTANTS
    FailureThreshold,       \* the provider profile's failureThreshold
    DegradationThreshold,   \* the provider profile's degradationThreshold
    ResetTimeout,           \* the provider profile's resetTimeout, in ticks
    DefaultDegradation,     \* the constructor's degradationThreshold
    DefaultReset,           \* the constructor's resetTimeout, in ticks
    HalfOpenRequests,       \* probes per half-open period
    EscalationCount,        \* backoffEscalationCount
    MaxMultiplier,          \* maxBackoffMultiplier
    Kinds,                  \* failure kinds classifyError may return
    NoKind,                 \* no kind
    KindCooldown,           \* cooldownByKind of the profile
    AgeBound,               \* bound: ages of failures
    FailureBound,           \* bound: failureCount
    CycleBound              \* bound: openCycleCount

ASSUME ThresholdsOrdered ==
    /\ FailureThreshold \in Nat /\ DegradationThreshold \in Nat
    /\ 0 < DegradationThreshold /\ DegradationThreshold <= FailureThreshold
    /\ DefaultDegradation \in Nat
ASSUME TimeoutsNat ==
    /\ ResetTimeout \in Nat \ {0} /\ DefaultReset \in Nat \ {0}
    /\ EscalationCount \in Nat /\ MaxMultiplier \in Nat \ {0}
(* A fact of arithmetic, for the proofs.                                   *)
ASSUME PowersPositive == \A n \in 0..CycleBound : 2 ^ n \in Nat \ {0}
ASSUME ProbesPositive == HalfOpenRequests \in Nat \ {0}
ASSUME KindsNamed == NoKind \notin Kinds /\ KindCooldown \in [Kinds -> Nat]
ASSUME BoundsLarge ==
    /\ AgeBound \in Nat /\ FailureBound \in Nat /\ CycleBound \in Nat
    /\ FailureThreshold <= FailureBound
ASSUME AgesCoverCooldowns ==
    /\ ResetTimeout * MaxMultiplier <= AgeBound
    /\ DefaultReset * MaxMultiplier <= AgeBound
    /\ \A k \in Kinds : KindCooldown[k] <= AgeBound

States == {"CLOSED", "DEGRADED", "OPEN", "HALF_OPEN"}

Breakers == [state : States, failures : 0..FailureBound, age : 0..AgeBound,
             kind : Kinds \cup {NoKind}, cycles : 0..CycleBound,
             allowed : 0..HalfOpenRequests, profiled : BOOLEAN]

(* What the database keeps of a breaker.                                   *)
Rows == [state : States, failures : 0..FailureBound, age : 0..AgeBound,
         kind : Kinds \cup {NoKind}, cycles : 0..CycleBound]

AtMost(n, bound) == IF n <= bound THEN n ELSE bound

-----------------------------------------------------------------------------
(* Creation, persistence and configuration.                                *)

(* A new CircuitBreaker without a row in the database.                     *)
Fresh == [state |-> "CLOSED", failures |-> 0, age |-> AgeBound, kind |-> NoKind,
          cycles |-> 0, allowed |-> 0, profiled |-> FALSE]

RowOf(b) == [state |-> b.state, failures |-> b.failures, age |-> b.age,
             kind |-> b.kind, cycles |-> b.cycles]

(***************************************************************************)
(* _restoreFromDb: the counters come back, the configuration saved beside  *)
(* them does not, and a half-open breaker gets all its probes again.       *)
(***************************************************************************)
Restored(row) ==
    [state |-> row.state, failures |-> row.failures, age |-> row.age,
     kind |-> row.kind, cycles |-> row.cycles,
     allowed |-> IF row.state = "HALF_OPEN" THEN HalfOpenRequests ELSE 0,
     profiled |-> FALSE]

(* getCircuitBreaker with the provider profile as options.                 *)
Configured(b) == [b EXCEPT !.profiled = TRUE]

-----------------------------------------------------------------------------
(* Cooldown and lazy recovery.                                             *)

(* Mutant: the escalation is not capped by maxBackoffMultiplier.           *)
EffectiveResetTimeoutUncapped(b) ==
    LET base == IF b.profiled THEN ResetTimeout ELSE DefaultReset
    IN  IF b.cycles <= EscalationCount THEN base
        ELSE base * 2 ^ (b.cycles - EscalationCount)

EffectiveResetTimeout(b) ==
    LET base == IF b.profiled THEN ResetTimeout ELSE DefaultReset
    IN  IF b.cycles <= EscalationCount THEN base
        ELSE base * AtMost(2 ^ (b.cycles - EscalationCount), MaxMultiplier)

(* A kind's own cooldown replaces the escalated timeout.                   *)
EffectiveCooldown(b) ==
    IF b.profiled /\ b.kind \in Kinds THEN KindCooldown[b.kind]
    ELSE EffectiveResetTimeout(b)

ShouldAttemptReset(b) == b.age >= EffectiveCooldown(b)

(* _refreshOpenState: an open breaker whose cooldown is over offers probes. *)
Refresh(b) ==
    IF b.state = "OPEN" /\ ShouldAttemptReset(b)
    THEN [b EXCEPT !.state = "HALF_OPEN", !.allowed = HalfOpenRequests]
    ELSE b

(* Mutant: a half-open breaker admits without looking at its probes.       *)
AdmitsAny(b) == b.state # "OPEN"

(* canExecute, once refreshed; execute lets the same calls in.             *)
Admits(b) ==
    \/ b.state \in {"CLOSED", "DEGRADED"}
    \/ b.state = "HALF_OPEN" /\ b.allowed > 0

(* Mutant: a probe is admitted without being counted.                      *)
AdmittedUncounted(b) == b

(* execute's bookkeeping for an admitted call.                             *)
Admitted(b) ==
    IF b.state = "HALF_OPEN" THEN [b EXCEPT !.allowed = @ - 1] ELSE b

-----------------------------------------------------------------------------
(* Outcomes.                                                               *)

(* Mutant: the counters are left alone when an open breaker recovers.      *)
OnSuccessKeeping(b) ==
    IF b.state \in {"OPEN", "HALF_OPEN"} THEN [b EXCEPT !.state = "CLOSED"]
    ELSE b

OnSuccess(b) ==
    CASE b.state = "OPEN" ->
           [b EXCEPT !.state = "CLOSED", !.failures = 0, !.age = AgeBound,
                     !.kind = NoKind, !.cycles = 0]
      [] b.state = "HALF_OPEN" ->
           [b EXCEPT !.state = "CLOSED", !.failures = 0, !.kind = NoKind,
                     !.cycles = 0]
      [] OTHER ->
           LET left == IF b.failures = 0 THEN 0 ELSE b.failures - 1
               deg == IF b.profiled THEN DegradationThreshold
                      ELSE DefaultDegradation
           IN  [b EXCEPT !.failures = left,
                         !.state = IF left <= deg THEN "CLOSED" ELSE @]

(* The state a failure leads to, when it is the count-th one.              *)
AfterFailure(b, count) ==
    IF b.state \in {"OPEN", "HALF_OPEN"} \/ count >= FailureThreshold THEN "OPEN"
    ELSE IF count >= DegradationThreshold THEN "DEGRADED"
    ELSE b.state

OnFailure(b, kind) ==
    LET count == AtMost(b.failures + 1, FailureBound)
    IN  [b EXCEPT !.state = AfterFailure(b, count),
                  !.failures = count,
                  !.age = 0,
                  !.kind = kind,
                  !.cycles = IF b.state = "HALF_OPEN"
                             THEN AtMost(@ + 1, CycleBound) ELSE @]

Reset(b) ==
    [b EXCEPT !.state = "CLOSED", !.failures = 0, !.age = AgeBound,
              !.kind = NoKind, !.cycles = 0]

(* A tick of time for something that carries an age.                       *)
Older(b) == [b EXCEPT !.age = AtMost(@ + 1, AgeBound)]
=============================================================================
