-------------------------- MODULE ProviderBreaker ---------------------------
(***************************************************************************)
(* The circuit breaker of one provider, and everybody who uses it: the     *)
(* registry and the database row behind it (src/shared/utils/              *)
(* circuitBreaker.ts), the gate, the execution and the reports of a chat   *)
(* request (src/sse/handlers), and the reports of a combo                  *)
(* (open-sse/services/accountFallback.ts).                                 *)
(*                                                                         *)
(* A request looks the breaker up twice, keeps a reference, and then works *)
(* with awaits in between: every action is one stretch of code without an  *)
(* await.  handleChatCore reports an upstream error as a returned result,  *)
(* seldom as an exception, so both endings are modelled.                   *)
(***************************************************************************)
EXTENDS Breaker, FiniteSets

CONSTANTS
    Requests,       \* chat requests to the provider
    Combos,         \* those that are a target of a combo
    Forced,         \* those with a forced connection, which skip the breaker
    Accounts,       \* bound: connections a request tries after another
    Slots, NoSlot,  \* breaker objects in memory, and none
    NoRow,          \* the database has no row
    Evictable       \* other providers fill the registry, or it is swept

ASSUME RequestsKinds == Combos \subseteq Requests /\ Forced \subseteq Requests
ASSUME AccountsNat == Accounts \in Nat
ASSUME SlotsNamed == NoSlot \notin Slots /\ NoRow \notin Rows
ASSUME EvictableBoolean == Evictable \in BOOLEAN

VARIABLES
    registered,     \* the object the registry holds, or NoSlot
    inst,           \* the breaker objects
    row,            \* the provider's row in domain_circuit_breakers
    phase,          \* where each request stands
    held,           \* the object each request keeps a reference to
    tries           \* connections each request has tried

vars == <<registered, inst, row, phase, held, tries>>

Running == {"running", "probing"}       \* inside execute
Resolved == {"won", "failed", "rejected", "declined"}
Phases == {"idle", "gated", "ready", "bypassing", "relayed", "lost"}
              \cup Running \cup Resolved

(* The types; probes left and failures counted stay in their ranges, and a *)
(* request reports to an object that exists (execute, _onFailure).         *)
TypeOK ==
    /\ registered \in Slots \cup {NoSlot}
    /\ inst \in [Slots -> Breakers]
    /\ row \in Rows \cup {NoRow}
    /\ phase \in [Requests -> Phases]
    /\ held \in [Requests -> Slots \cup {NoSlot}]
    /\ tries \in [Requests -> 0..Accounts]

Init ==
    /\ registered = NoSlot
    /\ inst = [s \in Slots |-> Fresh]
    /\ row = NoRow
    /\ phase = [r \in Requests |-> "idle"]
    /\ held = [r \in Requests |-> NoSlot]
    /\ tries = [r \in Requests |-> 0]

-----------------------------------------------------------------------------
(* The registry.                                                           *)

Load == IF row = NoRow THEN Fresh ELSE Restored(row)

(***************************************************************************)
(* getCircuitBreaker: the registered object, or else a new one restored    *)
(* from the database, in a place no request still refers to.               *)
(***************************************************************************)
LookupSlots ==
    IF registered # NoSlot THEN {registered}
    ELSE {s \in Slots : \A r \in Requests : held[r] # s}
Lookup == IF registered # NoSlot THEN inst[registered] ELSE Load

(* The looked-up object is now b, and what the last write put in the row.  *)
Register(s, b) ==
    /\ registered' = s
    /\ inst' = [inst EXCEPT ![s] = b]

(* Object s changed to b and was persisted.                                *)
Persist(s, b) ==
    /\ inst' = [inst EXCEPT ![s] = b]
    /\ row' = RowOf(b)

(* Mutant: lazy recovery is not persisted.                                 *)
RefreshedRowStale(b) == row

(* _refreshOpenState persists only what it changed.                        *)
RefreshedRow(b) == IF Refresh(b) # b THEN RowOf(Refresh(b)) ELSE row

(* canExecute, getStatus or getRetryAfterMs on a bare lookup: routing and  *)
(* dashboards.                                                             *)
Look ==
    \E s \in LookupSlots :
       /\ Register(s, Refresh(Lookup))
       /\ row' = RefreshedRow(Lookup)
       /\ UNCHANGED <<phase, held, tries>>

(* The management API resets the breaker.                                  *)
ManualReset ==
    \E s \in LookupSlots :
       /\ registered' = s
       /\ Persist(s, Reset(Lookup))
       /\ UNCHANGED <<phase, held, tries>>

(***************************************************************************)
(* The sweep, or a crowded registry, drops a closed breaker without        *)
(* failures, and its row.  Requests that refer to it keep it.              *)
(***************************************************************************)
Evict ==
    /\ Evictable
    /\ registered # NoSlot
    /\ inst[registered].state = "CLOSED" /\ inst[registered].failures = 0
    /\ registered' = NoSlot
    /\ row' = NoRow
    /\ UNCHANGED <<inst, phase, held, tries>>

(* The process dies; the database stays.                                   *)
Restart ==
    /\ registered' = NoSlot
    /\ inst' = [s \in Slots |-> Fresh]
    /\ phase' = [r \in Requests |-> "idle"]
    /\ held' = [r \in Requests |-> NoSlot]
    /\ tries' = [r \in Requests |-> 0]
    /\ UNCHANGED row

Tick ==
    /\ inst' = [s \in Slots |-> Older(inst[s])]
    /\ row' = IF row = NoRow THEN row ELSE Older(row)
    /\ UNCHANGED <<registered, phase, held, tries>>

-----------------------------------------------------------------------------
(* A chat request.                                                         *)

Goto(r, ph) == phase' = [phase EXCEPT ![r] = ph]

(* The request is over, and drops its reference.                           *)
End(r) ==
    /\ Goto(r, "idle")
    /\ held' = [held EXCEPT ![r] = NoSlot]
    /\ tries' = [tries EXCEPT ![r] = 0]

(* chat.ts hands a result that is no success to the combo, or to the user. *)
GiveUp(r) ==
    IF r \in Combos THEN Goto(r, "lost") /\ UNCHANGED <<held, tries>> ELSE End(r)

(* checkPipelineGates.                                                     *)
Gate(r) ==
    /\ phase[r] = "idle"
    /\ LET b == Refresh(Configured(Lookup)) IN
         /\ \E s \in LookupSlots : registered' = s /\ Persist(s, b)
         /\ IF r \in Forced \/ Admits(b) THEN Goto(r, "gated")
            ELSE IF r \in Combos THEN Goto(r, "lost") ELSE UNCHANGED phase
    /\ UNCHANGED <<held, tries>>

(* handleSingleModelChat looks the breaker up again and keeps it.          *)
Hold(r) ==
    /\ phase[r] = "gated"
    /\ \E s \in LookupSlots :
          /\ registered' = s
          /\ Persist(s, Configured(Lookup))
          /\ held' = [held EXCEPT ![r] = s]
    /\ Goto(r, "ready")
    /\ UNCHANGED tries

Mine(r) == inst[held[r]]

(* execute, up to the call: it lets the request in.                        *)
Enter(r) ==
    /\ phase[r] = "ready" /\ r \notin Forced
    /\ LET b == Refresh(Mine(r)) IN
         /\ Admits(b)
         /\ inst' = [inst EXCEPT ![held[r]] = Admitted(b)]
         /\ Goto(r, IF b.state = "HALF_OPEN" THEN "probing" ELSE "running")
    /\ row' = RefreshedRow(Mine(r))
    /\ UNCHANGED <<registered, held, tries>>

(* execute throws CircuitBreakerOpenError, which becomes a 503 result.     *)
Rejected(r) ==
    /\ phase[r] = "ready" /\ r \notin Forced
    /\ ~Admits(Refresh(Mine(r)))
    /\ Goto(r, "rejected")
    /\ UNCHANGED <<registered, inst, row, held, tries>>

(* A forced connection calls the provider outside the breaker.             *)
Bypass(r) ==
    /\ phase[r] = "ready" /\ r \in Forced
    /\ Goto(r, "bypassing")
    /\ UNCHANGED <<registered, inst, row, held, tries>>

(* The call returned a result, good or bad: execute counts a success.      *)
Returned(r, result) ==
    /\ phase[r] \in Running
    /\ Persist(held[r], OnSuccess(Mine(r)))
    /\ Goto(r, result)
    /\ UNCHANGED <<registered, held, tries>>

ReturnedBypassed(r, result) ==
    /\ phase[r] = "bypassing"
    /\ Goto(r, result)
    /\ UNCHANGED <<registered, inst, row, held, tries>>

(* The call threw: execute counts a failure, and the exception ends the    *)
(* request or, for an unreachable proxy, becomes a 503 result.             *)
Threw(r, kind) ==
    /\ phase[r] \in Running
    /\ Persist(held[r], OnFailure(Mine(r), kind))
    /\ \/ End(r)
       \/ Goto(r, "failed") /\ UNCHANGED <<held, tries>>
    /\ UNCHANGED registered

(* The call threw an error isFailure does not count: the client is gone.   *)
ThrewLocal(r) ==
    /\ phase[r] \in Running \cup {"bypassing"}
    /\ End(r)
    /\ UNCHANGED <<registered, inst, row>>

(* chat.ts reports a good result to the breaker.                           *)
ReportSuccess(r) ==
    /\ phase[r] = "won"
    /\ Persist(held[r], OnSuccess(Mine(r)))
    /\ IF r \in Combos THEN Goto(r, "relayed") /\ UNCHANGED <<held, tries>> ELSE End(r)
    /\ UNCHANGED registered

(* The result marks the connection unavailable, and another one is tried.  *)
TryNext(r) ==
    /\ phase[r] \in {"failed", "rejected", "declined"}
    /\ tries[r] < Accounts
    /\ tries' = [tries EXCEPT ![r] = @ + 1]
    /\ Goto(r, "ready")
    /\ UNCHANGED <<registered, inst, row, held>>

(***************************************************************************)
(* The result cannot be retried, or no connection is left, perhaps none to *)
(* begin with because all of them are cooling down: chat.ts reports a      *)
(* result, or a connection's last error, with one of the statuses 408,     *)
(* 500, 502, 503 and 504.                                                  *)
(***************************************************************************)
ReportFailure(r) ==
    /\ phase[r] \in {"failed", "rejected", "ready"}
    /\ Persist(held[r], OnFailure(Mine(r), NoKind))
    /\ GiveUp(r)
    /\ UNCHANGED registered

(* The same, when chat.ts does not report: another status, a stream that   *)
(* ended early, a combo target.                                            *)
EndUnreported(r) ==
    /\ phase[r] \in {"failed", "rejected", "declined", "ready"}
    /\ GiveUp(r)
    /\ UNCHANGED <<registered, inst, row>>

-----------------------------------------------------------------------------
(* The combo's own reports.                                                *)

(* recordProviderSuccess: a bare lookup, and nothing while it is open.     *)
ComboSuccess(r) ==
    /\ phase[r] = "relayed"
    /\ LET b == Refresh(Lookup) IN
         \E s \in LookupSlots :
            IF b.state = "OPEN"
            THEN Register(s, b) /\ UNCHANGED row
            ELSE registered' = s /\ Persist(s, OnSuccess(b))
    /\ End(r)

(* recordProviderFailure: nothing while the provider is not admitted.      *)
ComboFailure(r) ==
    /\ phase[r] = "lost"
    /\ LET b == Refresh(Configured(Lookup)) IN
         \E s \in LookupSlots :
            /\ registered' = s
            /\ Persist(s, IF Admits(b) THEN Refresh(OnFailure(b, NoKind)) ELSE b)
    /\ End(r)

(* The failure is not the provider's, or repeats one within five seconds.  *)
ComboSilent(r) ==
    /\ phase[r] = "lost"
    /\ End(r)
    /\ UNCHANGED <<registered, inst, row>>

Step(r) ==
    \/ Gate(r)
    \/ Hold(r)
    \/ Enter(r)
    \/ Rejected(r)
    \/ Bypass(r)
    \/ \E result \in {"won", "failed", "declined"} :
          Returned(r, result) \/ ReturnedBypassed(r, result)
    \/ \E kind \in Kinds \cup {NoKind} : Threw(r, kind)
    \/ ThrewLocal(r)
    \/ ReportSuccess(r)
    \/ TryNext(r)
    \/ ReportFailure(r)
    \/ EndUnreported(r)
    \/ ComboSuccess(r)
    \/ ComboFailure(r)
    \/ ComboSilent(r)

Next ==
    \/ \E r \in Requests : Step(r)
    \/ Look
    \/ ManualReset
    \/ Evict
    \/ Restart
    \/ Tick

Spec == Init /\ [][Next]_vars

(* Time passes and somebody keeps asking for the breaker's state; nothing  *)
(* is assumed of the requests.                                             *)
FairSpec == Spec /\ WF_vars(Tick) /\ WF_vars(Look)

-----------------------------------------------------------------------------
(* Properties.                                                             *)

(***************************************************************************)
(* The breaker in force: the registered one, or the one that the next      *)
(* lookup will load.                                                       *)
(***************************************************************************)
Current == Lookup

(***************************************************************************)
(* The state follows from the failure count (_onSuccess, _onFailure,       *)
(* reset, restore): a closed breaker is not past the degradation           *)
(* threshold, a degraded one is between the two thresholds, and one that   *)
(* opened counted up to the failure threshold or got there by an           *)
(* exception.  All ways to count agree on this across restarts.            *)
(***************************************************************************)
StateMatchesCount ==
    /\ Current.state = "CLOSED" => Current.failures <= DegradationThreshold
    /\ Current.state = "DEGRADED" =>
          Current.failures \in DegradationThreshold..(FailureThreshold - 1)
    /\ Current.state \in {"OPEN", "HALF_OPEN"} => Current.failures >= FailureThreshold

(***************************************************************************)
(* What a restart would restore is what the breaker is now: every path     *)
(* that changes the breaker persists it (_persistToDb), lazy recovery      *)
(* included.                                                               *)
(***************************************************************************)
Durable ==
    registered # NoSlot =>
       IF row = NoRow THEN RowOf(inst[registered]) = RowOf(Fresh)
       ELSE row = RowOf(inst[registered])

(***************************************************************************)
(* The breaker is a probe gate: nobody enters while it is open, and in     *)
(* each half-open period execute lets in no more than HalfOpenRequests     *)
(* calls, whatever late results, reports, restarts and retries do.         *)
(***************************************************************************)
Mode ==
    CASE Current.state = "OPEN" -> "blocked"
      [] Current.state = "HALF_OPEN" -> "probing"
      [] OTHER -> "passing"
Budget == IF Current.state = "HALF_OPEN" THEN Current.allowed ELSE 0
Inside == {r \in Requests : phase[r] \in Running}

Gatekeeper == INSTANCE ProbeGate WITH
    Callers <- Requests, Probes <- HalfOpenRequests,
    mode <- Mode, budget <- Budget, inside <- Inside
GateSpec == Gatekeeper!Spec

(***************************************************************************)
(* An open breaker does not stay open: however late results, retries and   *)
(* restarts fall, its cooldown elapses and a lookup finds it recovered     *)
(* (_refreshOpenState, the cap in _effectiveResetTimeout).                 *)
(***************************************************************************)
OpenEnds == (Current.state = "OPEN") ~> (Current.state # "OPEN")

(***************************************************************************)
(* What the documents say of HALF_OPEN, that a probe is allowed: there is  *)
(* a probe to offer or one under way (halfOpenAllowed).                    *)
(***************************************************************************)
HalfOpenHasProbe ==
    Current.state = "HALF_OPEN" =>
       Current.allowed > 0 \/ \E r \in Requests : phase[r] = "probing"
=============================================================================
