----------------------- MODULE ProviderBreakerProofs ------------------------
(***************************************************************************)
(* Proofs about ProviderBreaker, for every set of requests and every       *)
(* configuration of thresholds, timeouts and probes.  While the registry   *)
(* does not evict, there is one breaker object, and it is configured       *)
(* before anybody reports to it; this is what the invariant says.          *)
(***************************************************************************)
EXTENDS ProviderBreaker, TLAPS

-----------------------------------------------------------------------------
(* The methods of one breaker                                              *)

(* The state follows from the failure count.                               *)
Matches(b) ==
    /\ b.state = "CLOSED" => b.failures <= DegradationThreshold
    /\ b.state = "DEGRADED" =>
          b.failures \in DegradationThreshold..(FailureThreshold - 1)
    /\ b.state \in {"OPEN", "HALF_OPEN"} => b.failures >= FailureThreshold

LEMMA Extremes ==
    /\ 0 \in 0..FailureBound
    /\ 0 \in 0..AgeBound /\ AgeBound \in 0..AgeBound
    /\ 0 \in 0..CycleBound
    /\ 0 \in 0..HalfOpenRequests /\ HalfOpenRequests \in 0..HalfOpenRequests
BY ProbesPositive, BoundsLarge

LEMMA FreshBreaker == Fresh \in Breakers /\ Matches(Fresh) /\ RowOf(Fresh) \in Rows
BY ThresholdsOrdered, ProbesPositive, BoundsLarge
   DEF Fresh, Breakers, Rows, RowOf, Matches, States

LEMMA RestoredBreaker ==
    ASSUME NEW d \in Rows
    PROVE  /\ Restored(d) \in Breakers
           /\ RowOf(Restored(d)) = d
           /\ Restored(d).state = d.state
           /\ Restored(d).failures = d.failures
           /\ d.state = "HALF_OPEN" => Restored(d).allowed = HalfOpenRequests
BY ProbesPositive DEF Restored, Breakers, Rows, RowOf

LEMMA RowOfBreaker ==
    ASSUME NEW b \in Breakers
    PROVE  /\ RowOf(b) \in Rows
           /\ RowOf(b).state = b.state
           /\ RowOf(b).failures = b.failures
BY DEF Breakers, Rows, RowOf

LEMMA ConfiguredBreaker ==
    ASSUME NEW b \in Breakers
    PROVE  /\ Configured(b) \in Breakers
           /\ Configured(b).profiled
           /\ Configured(b).state = b.state
           /\ Configured(b).allowed = b.allowed
           /\ Matches(b) => Matches(Configured(b))
BY DEF Breakers, Configured, Matches

(* Lazy recovery either changes nothing or offers every probe.             *)
LEMMA RefreshBreaker ==
    ASSUME NEW b \in Breakers
    PROVE  /\ Refresh(b) \in Breakers
           /\ Refresh(b).profiled = b.profiled
           /\ Matches(b) => Matches(Refresh(b))
           /\ \/ Refresh(b) = b
              \/ /\ b.state = "OPEN"
                 /\ Refresh(b).state = "HALF_OPEN"
                 /\ Refresh(b).allowed = HalfOpenRequests
<1>1. CASE b.state = "OPEN" /\ ShouldAttemptReset(b)
  <2>1. Refresh(b) = [b EXCEPT !.state = "HALF_OPEN", !.allowed = HalfOpenRequests]
    BY <1>1 DEF Refresh
  <2>2. Refresh(b) \in Breakers
    BY <2>1, Extremes DEF Breakers, States
  <2>3. /\ Refresh(b).state = "HALF_OPEN"
        /\ Refresh(b).allowed = HalfOpenRequests
        /\ Refresh(b).failures = b.failures
        /\ Refresh(b).profiled = b.profiled
    BY <2>1 DEF Breakers
  <2> QED
    BY <1>1, <2>2, <2>3 DEF Matches
<1>2. CASE ~(b.state = "OPEN" /\ ShouldAttemptReset(b))
  BY <1>2 DEF Refresh
<1> QED
  BY <1>1, <1>2

LEMMA AdmittedBreaker ==
    ASSUME NEW b \in Breakers, Admits(b)
    PROVE  /\ Admitted(b) \in Breakers
           /\ RowOf(Admitted(b)) = RowOf(b)
           /\ Admitted(b).profiled = b.profiled
           /\ Admitted(b).state = b.state
           /\ Matches(b) => Matches(Admitted(b))
           /\ IF b.state = "HALF_OPEN"
              THEN b.allowed > 0 /\ Admitted(b).allowed = b.allowed - 1
              ELSE Admitted(b) = b
<1>1. CASE b.state = "HALF_OPEN"
  BY <1>1, ProbesPositive DEF Admits, Admitted, Breakers, RowOf, Matches
<1>2. CASE b.state # "HALF_OPEN"
  BY <1>2 DEF Admitted
<1> QED
  BY <1>1, <1>2

(* A success never blocks, and heals an open or half-open breaker.         *)
LEMMA SuccessBreaker ==
    ASSUME NEW b \in Breakers
    PROVE  /\ OnSuccess(b) \in Breakers
           /\ OnSuccess(b).profiled = b.profiled
           /\ OnSuccess(b).state \in {"CLOSED", "DEGRADED"}
           /\ b.profiled /\ Matches(b) => Matches(OnSuccess(b))
<1>1. CASE b.state = "OPEN"
  <2>1. OnSuccess(b) = [b EXCEPT !.state = "CLOSED", !.failures = 0, !.age = AgeBound,
                                 !.kind = NoKind, !.cycles = 0]
    BY <1>1 DEF OnSuccess
  <2>2. OnSuccess(b) \in Breakers
    BY <2>1, Extremes DEF Breakers, States
  <2>3. /\ OnSuccess(b).state = "CLOSED"
        /\ OnSuccess(b).failures = 0
        /\ OnSuccess(b).profiled = b.profiled
    BY <2>1 DEF Breakers
  <2> QED
    BY <2>2, <2>3, ThresholdsOrdered DEF Matches
<1>2. CASE b.state = "HALF_OPEN"
  <2>1. OnSuccess(b) = [b EXCEPT !.state = "CLOSED", !.failures = 0, !.kind = NoKind,
                                 !.cycles = 0]
    BY <1>2 DEF OnSuccess
  <2>2. OnSuccess(b) \in Breakers
    BY <2>1, Extremes DEF Breakers, States
  <2>3. /\ OnSuccess(b).state = "CLOSED"
        /\ OnSuccess(b).failures = 0
        /\ OnSuccess(b).profiled = b.profiled
    BY <2>1 DEF Breakers
  <2> QED
    BY <2>2, <2>3, ThresholdsOrdered DEF Matches
<1>3. CASE b.state \in {"CLOSED", "DEGRADED"}
  <2> DEFINE left == IF b.failures = 0 THEN 0 ELSE b.failures - 1
             deg == IF b.profiled THEN DegradationThreshold ELSE DefaultDegradation
             next == IF left <= deg THEN "CLOSED" ELSE b.state
  <2>1. OnSuccess(b) = [b EXCEPT !.failures = left, !.state = next]
    BY <1>3 DEF OnSuccess, Breakers
  <2>2. /\ left \in 0..FailureBound
        /\ left = 0 \/ left = b.failures - 1
        /\ next \in {"CLOSED", "DEGRADED"}
    BY <1>3, BoundsLarge DEF Breakers
  <2>3. b.profiled => deg = DegradationThreshold
    OBVIOUS
  <2>4. /\ OnSuccess(b) \in Breakers
        /\ OnSuccess(b).profiled = b.profiled
        /\ OnSuccess(b).state = next
        /\ OnSuccess(b).failures = left
    <3> HIDE DEF left, next
    <3> QED
      BY <2>1, <2>2 DEF Breakers, States
  <2>5. ASSUME b.profiled, Matches(b) PROVE Matches(OnSuccess(b))
    <3>1. CASE left <= deg
      BY <3>1, <2>3, <2>4, <2>5, ThresholdsOrdered DEF Matches
    <3>2. CASE ~(left <= deg)
      <4>1. next = b.state /\ left > DegradationThreshold /\ left = b.failures - 1
        BY <3>2, <2>2, <2>3, <2>5, ThresholdsOrdered
      <4>2. b.failures \in Nat
        BY BoundsLarge DEF Breakers
      <4>3. b.state = "DEGRADED" /\ b.failures <= FailureThreshold - 1
        BY <4>1, <4>2, <2>5, <1>3, ThresholdsOrdered DEF Matches
      <4> HIDE DEF left, next
      <4> QED
        BY <4>1, <4>2, <4>3, <2>4, ThresholdsOrdered DEF Matches
    <3> QED
      BY <3>1, <3>2
  <2> QED
    BY <2>2, <2>4, <2>5
<1> QED
  BY <1>1, <1>2, <1>3 DEF Breakers, States

(* A failure never offers a probe.                                         *)
LEMMA FailureBreaker ==
    ASSUME NEW b \in Breakers, NEW k \in Kinds \cup {NoKind}
    PROVE  /\ OnFailure(b, k) \in Breakers
           /\ OnFailure(b, k).profiled = b.profiled
           /\ OnFailure(b, k).state # "HALF_OPEN"
           /\ OnFailure(b, k).age = 0
           /\ OnFailure(b, k).kind = k
           /\ Matches(b) => Matches(OnFailure(b, k))
<1> DEFINE count == AtMost(b.failures + 1, FailureBound)
           next == AfterFailure(b, count)
           cyc == IF b.state = "HALF_OPEN" THEN AtMost(b.cycles + 1, CycleBound)
                  ELSE b.cycles
<1>1. OnFailure(b, k) = [b EXCEPT !.state = next, !.failures = count, !.age = 0,
                                  !.kind = k, !.cycles = cyc]
  BY DEF OnFailure, Breakers
<1>2. count \in 0..FailureBound /\ cyc \in 0..CycleBound
  BY BoundsLarge DEF Breakers, AtMost
<1>3. next \in States /\ next # "HALF_OPEN"
  BY DEF AfterFailure, Breakers, States
<1>4. ASSUME Matches(b)
      PROVE  /\ next = "CLOSED" => count <= DegradationThreshold
             /\ next = "DEGRADED" => count \in DegradationThreshold..(FailureThreshold - 1)
             /\ next = "OPEN" => count >= FailureThreshold
  <2>1. /\ b.failures \in Nat
        /\ count = IF b.failures + 1 <= FailureBound THEN b.failures + 1 ELSE FailureBound
    BY BoundsLarge DEF Breakers, AtMost
  <2>2. b.state \in States
    BY DEF Breakers
  <2>3. CASE b.state \in {"OPEN", "HALF_OPEN"}
    BY <2>1, <2>3, <1>4, ThresholdsOrdered, BoundsLarge DEF AfterFailure, Matches
  <2>4. CASE b.state \in {"CLOSED", "DEGRADED"}
    BY <2>1, <2>4, <1>4, ThresholdsOrdered, BoundsLarge DEF AfterFailure, Matches
  <2> QED
    BY <2>2, <2>3, <2>4 DEF States
<1> HIDE DEF count, next, cyc
<1>5. OnFailure(b, k) \in Breakers
  BY <1>1, <1>2, <1>3, Extremes DEF Breakers
<1>6. OnFailure(b, k).state = next /\ OnFailure(b, k).failures = count
  BY <1>1 DEF Breakers
<1>7. OnFailure(b, k).profiled = b.profiled /\ OnFailure(b, k).age = 0
      /\ OnFailure(b, k).kind = k
  BY <1>1 DEF Breakers
<1> QED
  BY <1>3, <1>4, <1>5, <1>6, <1>7 DEF Matches

LEMMA ResetBreaker ==
    ASSUME NEW b \in Breakers
    PROVE  /\ Reset(b) \in Breakers /\ Matches(Reset(b))
           /\ Reset(b).profiled = b.profiled
           /\ Reset(b).state = "CLOSED"
<1>1. Reset(b) \in Breakers
  BY Extremes DEF Reset, Breakers, States
<1>2. /\ Reset(b).state = "CLOSED"
      /\ Reset(b).failures = 0
      /\ Reset(b).profiled = b.profiled
  BY DEF Reset, Breakers
<1> QED
  BY <1>1, <1>2, ThresholdsOrdered DEF Matches

LEMMA OlderBreaker ==
    ASSUME NEW b \in Breakers
    PROVE  /\ Older(b) \in Breakers
           /\ Older(b).state = b.state
           /\ Older(b).failures = b.failures
           /\ Older(b).profiled = b.profiled
           /\ Older(b).allowed = b.allowed
           /\ RowOf(Older(b)) = Older(RowOf(b))
<1>1. AtMost(b.age + 1, AgeBound) \in 0..AgeBound
  BY BoundsLarge DEF Breakers, AtMost
<1> QED
  BY <1>1 DEF Older, Breakers, RowOf

LEMMA OlderRow ==
    ASSUME NEW d \in Rows
    PROVE  /\ Older(d) \in Rows
           /\ Older(d).state = d.state
           /\ Older(d).failures = d.failures
<1>1. AtMost(d.age + 1, AgeBound) \in 0..AgeBound
  BY BoundsLarge DEF Rows, AtMost
<1> QED
  BY <1>1 DEF Older, Rows

-----------------------------------------------------------------------------
(* Type correctness, with or without eviction                              *)

(* Phases in which a request has a reference to a breaker.                 *)
Holding == {"ready", "bypassing", "relayed"} \cup Running \cup Resolved

HoldingHeld == \A r \in Requests : phase[r] \in Holding => held[r] \in Slots

TInv == TypeOK /\ HoldingHeld

LEMMA LookupType ==
    ASSUME TypeOK
    PROVE  /\ Lookup \in Breakers
           /\ LookupSlots \subseteq Slots
BY FreshBreaker, RestoredBreaker, SlotsNamed DEF TypeOK, Lookup, LookupSlots, Load

LEMMA MineType ==
    ASSUME TInv, NEW r \in Requests, phase[r] \in Holding
    PROVE  held[r] \in Slots /\ Mine(r) \in Breakers
BY DEF TInv, TypeOK, HoldingHeld, Mine

LEMMA RefreshedRowType ==
    ASSUME TypeOK, NEW b \in Breakers
    PROVE  RefreshedRow(b) \in Rows \cup {NoRow}
BY RefreshBreaker, RowOfBreaker DEF TypeOK, RefreshedRow

LEMMA InstType ==
    ASSUME TypeOK, NEW s \in Slots, NEW b \in Breakers
    PROVE  [inst EXCEPT ![s] = b] \in [Slots -> Breakers]
BY DEF TypeOK

LEMMA PersistType ==
    ASSUME TypeOK, NEW s \in Slots, NEW b \in Breakers, Persist(s, b)
    PROVE  inst' \in [Slots -> Breakers] /\ row' \in Rows \cup {NoRow}
BY InstType, RowOfBreaker DEF Persist

LEMMA GotoType ==
    ASSUME TInv, NEW r \in Requests, NEW ph \in Phases, Goto(r, ph),
           ph \in Holding => held[r] \in Slots, UNCHANGED <<held, tries>>
    PROVE  /\ phase' \in [Requests -> Phases]
           /\ held' \in [Requests -> Slots \cup {NoSlot}]
           /\ tries' \in [Requests -> 0..Accounts]
           /\ HoldingHeld'
BY DEF TInv, TypeOK, HoldingHeld, Goto

LEMMA EndType ==
    ASSUME TInv, NEW r \in Requests, End(r)
    PROVE  /\ phase' \in [Requests -> Phases]
           /\ held' \in [Requests -> Slots \cup {NoSlot}]
           /\ tries' \in [Requests -> 0..Accounts]
           /\ HoldingHeld'
<1>1. /\ phase' = [phase EXCEPT ![r] = "idle"]
      /\ held' = [held EXCEPT ![r] = NoSlot]
      /\ tries' = [tries EXCEPT ![r] = 0]
  BY DEF End, Goto
<1>2. "idle" \in Phases /\ "idle" \notin Holding
  BY DEF Phases, Holding, Running, Resolved
<1>3. tries' \in [Requests -> 0..Accounts]
  BY <1>1, AccountsNat DEF TInv, TypeOK
<1>4. phase' \in [Requests -> Phases] /\ held' \in [Requests -> Slots \cup {NoSlot}]
  BY <1>1, <1>2 DEF TInv, TypeOK
<1>5. HoldingHeld'
  BY <1>1, <1>2 DEF TInv, TypeOK, HoldingHeld
<1> QED
  BY <1>3, <1>4, <1>5

LEMMA GiveUpType ==
    ASSUME TInv, NEW r \in Requests, GiveUp(r)
    PROVE  /\ phase' \in [Requests -> Phases]
           /\ held' \in [Requests -> Slots \cup {NoSlot}]
           /\ tries' \in [Requests -> 0..Accounts]
           /\ HoldingHeld'
<1>1. "lost" \in Phases /\ "lost" \notin Holding
  BY DEF Phases, Holding, Running, Resolved
<1> QED
  BY <1>1, EndType, GotoType DEF GiveUp

LEMMA PhaseNames ==
    /\ {"idle", "gated", "lost"} \subseteq Phases
    /\ {"idle", "gated", "lost"} \cap Holding = {}
    /\ Holding \subseteq Phases
    /\ {"ready", "bypassing", "relayed", "running", "probing", "won", "failed",
        "rejected", "declined"} \subseteq Holding
    /\ Running \subseteq Holding /\ Resolved \subseteq Holding
BY DEF Phases, Holding, Running, Resolved

(* What a step of one request does to the types.                           *)
LEMMA StepType ==
    ASSUME TInv, NEW r \in Requests, Step(r)
    PROVE  TInv'
<1> USE DEF TInv
<1> DEFINE Rest == /\ phase' \in [Requests -> Phases]
                   /\ held' \in [Requests -> Slots \cup {NoSlot}]
                   /\ tries' \in [Requests -> 0..Accounts]
                   /\ HoldingHeld'
           Memory == /\ registered' \in Slots \cup {NoSlot}
                     /\ inst' \in [Slots -> Breakers]
                     /\ row' \in Rows \cup {NoRow}
<1> SUFFICES Rest /\ Memory
  BY DEF TypeOK
<1>1. /\ Lookup \in Breakers /\ LookupSlots \subseteq Slots
      /\ Configured(Lookup) \in Breakers
      /\ Refresh(Lookup) \in Breakers
      /\ Refresh(Configured(Lookup)) \in Breakers
  BY LookupType, ConfiguredBreaker, RefreshBreaker
<1>2. UNCHANGED <<registered, inst, row>> => Memory
  BY DEF TypeOK
<1>3. ASSUME NEW s \in Slots, NEW b \in Breakers, Persist(s, b),
             registered' = s \/ UNCHANGED registered
      PROVE  Memory
  BY <1>3, PersistType DEF TypeOK
<1>4. CASE Gate(r)
  <2>1. PICK s \in LookupSlots :
           registered' = s /\ Persist(s, Refresh(Configured(Lookup)))
    BY <1>4 DEF Gate
  <2>2. Memory
    BY <2>1, <1>1, <1>3
  <2>3. \/ Goto(r, "gated")
        \/ Goto(r, "lost")
        \/ UNCHANGED phase
    BY <1>4 DEF Gate
  <2>4. UNCHANGED <<held, tries>>
    BY <1>4 DEF Gate
  <2>5. UNCHANGED phase => Rest
    BY <2>4 DEF TypeOK, HoldingHeld
  <2>6. Rest
    BY <2>3, <2>4, <2>5, GotoType, PhaseNames
  <2> QED
    BY <2>2, <2>6
<1>5. CASE Hold(r)
  <2>1. PICK s \in LookupSlots :
           /\ registered' = s
           /\ Persist(s, Configured(Lookup))
           /\ held' = [held EXCEPT ![r] = s]
    BY <1>5 DEF Hold
  <2>2. Memory
    BY <2>1, <1>1, <1>3
  <2>3. s \in Slots /\ phase' = [phase EXCEPT ![r] = "ready"] /\ tries' = tries
    BY <1>1, <1>5 DEF Hold, Goto
  <2>4. Rest
    BY <2>1, <2>3, PhaseNames DEF TypeOK, HoldingHeld
  <2> QED
    BY <2>2, <2>4
<1>6. CASE Enter(r)
  <2>1. held[r] \in Slots /\ Mine(r) \in Breakers /\ Refresh(Mine(r)) \in Breakers
    BY <1>6, MineType, PhaseNames, RefreshBreaker DEF Enter
  <2>2. Admitted(Refresh(Mine(r))) \in Breakers
    BY <1>6, <2>1, AdmittedBreaker DEF Enter
  <2>3. Memory
    BY <1>6, <2>1, <2>2, InstType, RefreshedRowType DEF Enter, TypeOK
  <2>4. /\ Goto(r, "probing") \/ Goto(r, "running")
        /\ UNCHANGED <<held, tries>>
    BY <1>6 DEF Enter
  <2>5. Rest
    BY <2>1, <2>4, GotoType, PhaseNames
  <2> QED
    BY <2>3, <2>5
<1>7. CASE Rejected(r)
  <2>1. held[r] \in Slots
    BY <1>7, MineType, PhaseNames DEF Rejected
  <2>2. Rest
    BY <1>7, <2>1, GotoType, PhaseNames DEF Rejected
  <2> QED
    BY <1>7, <1>2, <2>2 DEF Rejected
<1>8. CASE Bypass(r)
  <2>1. held[r] \in Slots
    BY <1>8, MineType, PhaseNames DEF Bypass
  <2>2. Rest
    BY <1>8, <2>1, GotoType, PhaseNames DEF Bypass
  <2> QED
    BY <1>8, <1>2, <2>2 DEF Bypass
<1>9. ASSUME NEW result \in {"won", "failed", "declined"}, Returned(r, result)
      PROVE  Rest /\ Memory
  <2>1. held[r] \in Slots /\ OnSuccess(Mine(r)) \in Breakers
    BY <1>9, MineType, PhaseNames, SuccessBreaker DEF Returned
  <2>2. Memory
    BY <1>9, <2>1, <1>3 DEF Returned
  <2>3. Rest
    BY <1>9, <2>1, GotoType, PhaseNames DEF Returned
  <2> QED
    BY <2>2, <2>3
<1>10. ASSUME NEW result \in {"won", "failed", "declined"}, ReturnedBypassed(r, result)
       PROVE  Rest /\ Memory
  <2>1. held[r] \in Slots
    BY <1>10, MineType, PhaseNames DEF ReturnedBypassed
  <2>2. Rest
    BY <1>10, <2>1, GotoType, PhaseNames DEF ReturnedBypassed
  <2> QED
    BY <1>10, <1>2, <2>2 DEF ReturnedBypassed
<1>11. ASSUME NEW kind \in Kinds \cup {NoKind}, Threw(r, kind)
       PROVE  Rest /\ Memory
  <2>1. held[r] \in Slots /\ OnFailure(Mine(r), kind) \in Breakers
    BY <1>11, MineType, PhaseNames, FailureBreaker DEF Threw
  <2>2. Memory
    BY <1>11, <2>1, <1>3 DEF Threw
  <2>3. Rest
    BY <1>11, <2>1, EndType, GotoType, PhaseNames DEF Threw
  <2> QED
    BY <2>2, <2>3
<1>12. CASE ThrewLocal(r)
  BY <1>12, <1>2, EndType DEF ThrewLocal
<1>13. CASE ReportSuccess(r)
  <2>1. held[r] \in Slots /\ OnSuccess(Mine(r)) \in Breakers
    BY <1>13, MineType, PhaseNames, SuccessBreaker DEF ReportSuccess
  <2>2. Memory
    BY <1>13, <2>1, <1>3 DEF ReportSuccess
  <2>3. Rest
    BY <1>13, <2>1, EndType, GotoType, PhaseNames DEF ReportSuccess
  <2> QED
    BY <2>2, <2>3
<1>14. CASE TryNext(r)
  <2>1. held[r] \in Slots
    BY <1>14, MineType, PhaseNames DEF TryNext
  <2>2. /\ phase' = [phase EXCEPT ![r] = "ready"]
        /\ tries' = [tries EXCEPT ![r] = tries[r] + 1]
        /\ tries[r] < Accounts
        /\ held' = held
    BY <1>14 DEF TryNext, Goto
  <2>3. tries' \in [Requests -> 0..Accounts]
    BY <2>2, AccountsNat DEF TypeOK
  <2>4. phase' \in [Requests -> Phases] /\ HoldingHeld'
    BY <2>1, <2>2, PhaseNames DEF TypeOK, HoldingHeld
  <2> QED
    BY <1>14, <1>2, <2>2, <2>3, <2>4 DEF TryNext, TypeOK
<1>15. CASE ReportFailure(r)
  <2>1. held[r] \in Slots /\ OnFailure(Mine(r), NoKind) \in Breakers
    BY <1>15, MineType, PhaseNames, FailureBreaker DEF ReportFailure
  <2>2. Memory
    BY <1>15, <2>1, <1>3 DEF ReportFailure
  <2> QED
    BY <1>15, <2>2, GiveUpType DEF ReportFailure
<1>16. CASE EndUnreported(r)
  BY <1>16, <1>2, GiveUpType DEF EndUnreported
<1>17. CASE ComboSuccess(r)
  <2>1. PICK s \in LookupSlots :
           IF Refresh(Lookup).state = "OPEN"
           THEN Register(s, Refresh(Lookup)) /\ UNCHANGED row
           ELSE registered' = s /\ Persist(s, OnSuccess(Refresh(Lookup)))
    BY <1>17 DEF ComboSuccess
  <2>2. ASSUME Refresh(Lookup).state = "OPEN" PROVE Memory
    <3>1. registered' = s /\ s \in Slots /\ UNCHANGED row
      BY <2>1, <2>2, <1>1 DEF Register
    <3>2. inst' \in [Slots -> Breakers]
      BY <2>1, <2>2, <3>1, <1>1, InstType DEF Register
    <3> QED
      BY <3>1, <3>2 DEF TypeOK
  <2>3. ASSUME Refresh(Lookup).state # "OPEN" PROVE Memory
    BY <2>1, <2>3, <1>1, <1>3, SuccessBreaker
  <2> QED
    BY <1>17, <2>2, <2>3, EndType DEF ComboSuccess
<1>18. CASE ComboFailure(r)
  <2> DEFINE b == Refresh(Configured(Lookup))
             next == IF Admits(b) THEN Refresh(OnFailure(b, NoKind)) ELSE b
  <2>1. PICK s \in LookupSlots : registered' = s /\ Persist(s, next)
    BY <1>18 DEF ComboFailure
  <2>2. next \in Breakers
    BY <1>1, FailureBreaker, RefreshBreaker
  <2>3. Memory
    <3> HIDE DEF next
    <3> QED
      BY <2>1, <2>2, <1>1, <1>3
  <2> QED
    BY <1>18, <2>3, EndType DEF ComboFailure
<1>19. CASE ComboSilent(r)
  BY <1>19, <1>2, EndType DEF ComboSilent
<1> QED
  BY <1>4, <1>5, <1>6, <1>7, <1>8, <1>9, <1>10, <1>11, <1>12, <1>13, <1>14, <1>15,
     <1>16, <1>17, <1>18, <1>19 DEF Step

LEMMA NextType ==
    ASSUME TInv, [Next]_vars
    PROVE  TInv'
<1> USE DEF TInv
<1>1. ASSUME NEW r \in Requests, Step(r)
      PROVE  TInv'
  BY <1>1, StepType
<1>2. CASE Look
  <2>1. PICK s \in LookupSlots :
           /\ Register(s, Refresh(Lookup))
           /\ row' = RefreshedRow(Lookup)
    BY <1>2 DEF Look
  <2>2. s \in Slots /\ Refresh(Lookup) \in Breakers /\ row' \in Rows \cup {NoRow}
    BY <2>1, LookupType, RefreshBreaker, RefreshedRowType
  <2>3. registered' = s /\ inst' \in [Slots -> Breakers]
    BY <2>1, <2>2, InstType DEF Register
  <2> QED
    BY <1>2, <2>2, <2>3 DEF Look, TypeOK, HoldingHeld
<1>3. CASE ManualReset
  <2>1. PICK s \in LookupSlots : registered' = s /\ Persist(s, Reset(Lookup))
    BY <1>3 DEF ManualReset
  <2>2. s \in Slots /\ Reset(Lookup) \in Breakers
    BY LookupType, ResetBreaker
  <2>3. inst' \in [Slots -> Breakers] /\ row' \in Rows \cup {NoRow}
    BY <2>1, <2>2, PersistType
  <2> QED
    BY <1>3, <2>1, <2>2, <2>3 DEF ManualReset, TypeOK, HoldingHeld
<1>4. CASE Evict
  BY <1>4 DEF Evict, TypeOK, HoldingHeld
<1>5. CASE Restart
  BY <1>5, FreshBreaker, PhaseNames, AccountsNat DEF Restart, TypeOK, HoldingHeld
<1>6. CASE Tick
  <2>1. inst' \in [Slots -> Breakers]
    BY <1>6, OlderBreaker DEF Tick, TypeOK
  <2>2. row' \in Rows \cup {NoRow}
    BY <1>6, OlderRow DEF Tick, TypeOK
  <2> QED
    BY <1>6, <2>1, <2>2 DEF Tick, TypeOK, HoldingHeld
<1>7. CASE UNCHANGED vars
  BY <1>7 DEF vars, TypeOK, HoldingHeld
<1> QED
  BY <1>1, <1>2, <1>3, <1>4, <1>5, <1>6, <1>7 DEF Next

(***************************************************************************)
(* Every variable keeps its type, evictions or not: probes left never go   *)
(* below zero, and a request always reports to an object that exists.      *)
(***************************************************************************)
THEOREM TypeCorrect == Spec => []TypeOK
<1>1. Init => TInv
  BY FreshBreaker, PhaseNames, AccountsNat DEF Init, TInv, TypeOK, HoldingHeld
<1>2. TInv /\ [Next]_vars => TInv'
  BY NextType
<1>3. TInv => TypeOK
  BY DEF TInv
<1> QED
  BY <1>1, <1>2, <1>3, PTL DEF Spec

-----------------------------------------------------------------------------
(* One breaker object: counts, persistence and the probe gate              *)

(* The row and the breaker in force agree; no row means a fresh breaker.   *)
Follows == IF row = NoRow THEN RowOf(Lookup) = RowOf(Fresh) ELSE row = RowOf(Lookup)

(* Who has a reference has it to the registered breaker, configured.       *)
Single ==
    \A r \in Requests :
       /\ held[r] \in {NoSlot, registered}
       /\ phase[r] \in Holding =>
             held[r] = registered /\ registered # NoSlot /\ Lookup.profiled

CInv == Follows /\ Matches(Lookup) /\ Single

ModeOf(b) ==
    CASE b.state = "OPEN" -> "blocked"
      [] b.state = "HALF_OPEN" -> "probing"
      [] OTHER -> "passing"
BudgetOf(b) == IF b.state = "HALF_OPEN" THEN b.allowed ELSE 0

(* The changes of the breaker in force that the gate allows at any time.   *)
Settles(b, c) ==
    \/ ModeOf(c) = ModeOf(b) /\ BudgetOf(c) = BudgetOf(b)
    \/ c.state # "HALF_OPEN"
Offers(b, c) ==
    /\ b.state = "OPEN"
    /\ c.state = "HALF_OPEN"
    /\ c.allowed = HalfOpenRequests

(* A failure is never followed at once by lazy recovery.                   *)
LEMMA NoInstantRecovery ==
    ASSUME NEW b \in Breakers
    PROVE  Refresh(OnFailure(b, NoKind)) = OnFailure(b, NoKind)
<1> DEFINE f == OnFailure(b, NoKind)
<1>1. f \in Breakers /\ f.age = 0 /\ f.kind = NoKind
  BY FailureBreaker
<1> HIDE DEF f
<1>2. EffectiveCooldown(f) = EffectiveResetTimeout(f)
  BY <1>1, KindsNamed DEF EffectiveCooldown
<1>3. EffectiveResetTimeout(f) \in Nat /\ EffectiveResetTimeout(f) > 0
  <2> DEFINE base == IF f.profiled THEN ResetTimeout ELSE DefaultReset
             power == 2 ^ (f.cycles - EscalationCount)
             factor == AtMost(power, MaxMultiplier)
  <2>1. base \in Nat /\ base > 0
    BY TimeoutsNat
  <2>2. CASE f.cycles <= EscalationCount
    BY <2>1, <2>2 DEF EffectiveResetTimeout
  <2>3. CASE ~(f.cycles <= EscalationCount)
    <3>1. f.cycles - EscalationCount \in 0..CycleBound
      BY <1>1, <2>3, TimeoutsNat, BoundsLarge DEF Breakers
    <3>2. power \in Nat /\ power > 0
      BY <3>1, PowersPositive
    <3>3. factor \in Nat /\ factor > 0
      <4> HIDE DEF power
      <4> QED
        BY <3>2, TimeoutsNat DEF AtMost
    <3>4. EffectiveResetTimeout(f) = base * factor
      BY <2>3 DEF EffectiveResetTimeout
    <3> HIDE DEF base, factor
    <3>5. base * factor \in Nat /\ base * factor > 0
      BY <2>1, <3>3
    <3> QED
      BY <3>4, <3>5
  <2> QED
    BY <2>2, <2>3
<1>4. ~ShouldAttemptReset(f)
  <2>1. EffectiveCooldown(f) \in Nat /\ EffectiveCooldown(f) > 0
    BY <1>2, <1>3
  <2>2. ~(0 >= EffectiveCooldown(f))
    BY <2>1
  <2> QED
    BY <1>1, <2>2 DEF ShouldAttemptReset
<1>5. Refresh(f) = f
  BY <1>4 DEF Refresh
<1> QED
  BY <1>5 DEF f

(* The breaker in force becomes b, and is persisted if that matters.       *)
LEMMA Moved ==
    ASSUME TInv, CInv, NEW s \in LookupSlots, NEW b \in Breakers,
           registered' = s, inst' = [inst EXCEPT ![s] = b],
           row' = RowOf(b) \/ (UNCHANGED row /\ RowOf(b) = RowOf(Lookup)),
           Matches(b)
    PROVE  /\ Lookup' = b
           /\ Follows'
           /\ Matches(Lookup)'
           /\ registered' # NoSlot
           /\ registered \in {NoSlot, registered'}
<1>1. s \in Slots /\ s # NoSlot /\ registered \in {NoSlot, s}
  BY LookupType, SlotsNamed DEF TInv, LookupSlots
<1>2. inst'[s] = b
  BY <1>1 DEF TInv, TypeOK
<1>3. Lookup' = b
  BY <1>1, <1>2 DEF Lookup
<1>4. RowOf(b) # NoRow
  BY RowOfBreaker, SlotsNamed
<1>5. Follows'
  BY <1>3, <1>4 DEF Follows, CInv
<1>6. Matches(Lookup')
  BY <1>3
<1> QED
  BY <1>1, <1>3, <1>5, <1>6 DEF Matches

(* The object a request reports to is the breaker in force.                *)
LEMMA MineIsCurrent ==
    ASSUME TInv, CInv, NEW r \in Requests, phase[r] \in Holding
    PROVE  /\ held[r] \in LookupSlots
           /\ held[r] = registered
           /\ Mine(r) = Lookup
           /\ Lookup \in Breakers
           /\ Lookup.profiled
           /\ Matches(Lookup)
BY LookupType DEF TInv, CInv, Single, Mine, Lookup, LookupSlots

(* References survive a step that keeps the configuration.                 *)
LEMMA SingleStays ==
    ASSUME TInv, CInv, registered \in {NoSlot, registered'},
           (\E r \in Requests : phase[r] \in Holding) =>
              registered' = registered /\ (Lookup.profiled => Lookup'.profiled),
           NEW q \in Requests,
           \A r \in Requests \ {q} : phase'[r] = phase[r] /\ held'[r] = held[r],
           \/ phase'[q] \notin Holding /\ held'[q] \in {NoSlot, held[q]}
           \/ phase[q] \in Holding /\ held'[q] = held[q]
    PROVE  Single'
BY DEF TInv, TypeOK, CInv, Single

LEMMA InsideGoto ==
    ASSUME TInv, NEW r \in Requests, NEW ph, Goto(r, ph)
    PROVE  /\ ph \in Running => Inside' = Inside \cup {r}
           /\ ph \notin Running => Inside' = Inside \ {r}
           /\ phase'[r] = ph
           /\ \A q \in Requests \ {r} : phase'[q] = phase[q]
BY DEF TInv, TypeOK, Goto, Inside

(* The request r leaves execute, or was not inside.                        *)
Leaves(r) == Inside' = Inside \/ (r \in Inside /\ Inside' = Inside \ {r})

(* What a step of r looks like to the probe gate.                          *)
GateMove(r) ==
    \/ Settles(Lookup, Lookup') /\ Leaves(r)
    \/ Offers(Lookup, Lookup') /\ Inside' = Inside
    \/ /\ r \notin Inside /\ Inside' = Inside \cup {r}
       /\ \/ ModeOf(Lookup) = "passing" /\ Lookup' = Lookup
          \/ /\ Lookup.state = "HALF_OPEN" /\ Lookup.allowed > 0
             /\ Lookup'.state = "HALF_OPEN" /\ Lookup'.allowed = Lookup.allowed - 1
          \/ /\ Lookup.state = "OPEN"
             /\ Lookup'.state = "HALF_OPEN" /\ Lookup'.allowed = HalfOpenRequests - 1

LEMMA RefreshMoves ==
    ASSUME NEW b \in Breakers, NEW c \in Breakers,
           c.state = b.state, c.allowed = b.allowed
    PROVE  Settles(b, Refresh(c)) \/ Offers(b, Refresh(c))
<1>1. CASE Refresh(c) = c
  BY <1>1 DEF Settles, ModeOf, BudgetOf
<1>2. CASE Refresh(c) # c
  BY <1>2, RefreshBreaker DEF Offers
<1> QED
  BY <1>1, <1>2

(* A report of r: the breaker changes, r stays or ends.                    *)
LEMMA Reported ==
    ASSUME TInv, CInv, NEW r \in Requests, phase[r] \in Holding,
           NEW b \in Breakers, b.profiled, Matches(b), b.state # "HALF_OPEN",
           Persist(held[r], b), UNCHANGED registered,
           NEW ph \in Phases \ Running, Goto(r, ph),
           \/ ph \in Holding /\ UNCHANGED held
           \/ ph \notin Holding /\ held'[r] \in {NoSlot, held[r]}
              /\ \A q \in Requests \ {r} : held'[q] = held[q]
    PROVE  CInv' /\ GateMove(r)
<1>1. /\ held[r] \in LookupSlots /\ held[r] = registered
      /\ registered' = held[r]
  BY MineIsCurrent
<1>2. Lookup' = b /\ Follows' /\ Matches(Lookup)'
  BY <1>1, Moved DEF Persist
<1>3. /\ Inside' = Inside \ {r}
      /\ phase'[r] = ph
      /\ \A q \in Requests \ {r} : phase'[q] = phase[q]
  BY InsideGoto
<1>4. Single'
  BY <1>1, <1>2, <1>3, SingleStays
<1>5. Leaves(r)
  BY <1>3 DEF Leaves
<1>6. Settles(Lookup, Lookup')
  BY <1>2 DEF Settles
<1> QED
  BY <1>2, <1>4, <1>5, <1>6 DEF CInv, GateMove

(* r moves and the breaker does not.                                       *)
LEMMA Unreported ==
    ASSUME TInv, CInv, NEW r \in Requests, UNCHANGED <<registered, inst, row>>,
           NEW ph \in Phases \ Running, Goto(r, ph),
           \/ phase[r] \in Holding /\ UNCHANGED held
           \/ ph \notin Holding /\ held'[r] \in {NoSlot, held[r]}
              /\ \A q \in Requests \ {r} : held'[q] = held[q]
    PROVE  CInv' /\ GateMove(r)
<1>1. Lookup' = Lookup
  BY DEF Lookup, Load
<1>2. Follows' /\ Matches(Lookup)'
  BY <1>1 DEF CInv, Follows, Matches
<1>3. /\ Inside' = Inside \ {r}
      /\ phase'[r] = ph
      /\ \A q \in Requests \ {r} : phase'[q] = phase[q]
  BY InsideGoto
<1>4. Single'
  BY <1>1, <1>3, SingleStays
<1>5. Leaves(r)
  BY <1>3 DEF Leaves
<1>6. Settles(Lookup, Lookup')
  BY <1>1 DEF Settles
<1> QED
  BY <1>2, <1>4, <1>5, <1>6 DEF CInv, GateMove

(* A lookup by r, which is not inside: the breaker in force becomes b.     *)
LEMMA LookedUp ==
    ASSUME TInv, CInv, NEW r \in Requests, phase[r] \notin Running,
           NEW s \in LookupSlots, NEW b \in Breakers, registered' = s,
           inst' = [inst EXCEPT ![s] = b],
           row' = RowOf(b) \/ (UNCHANGED row /\ RowOf(b) = RowOf(Lookup)),
           Matches(b), Lookup.profiled => b.profiled,
           Settles(Lookup, b) \/ Offers(Lookup, b),
           NEW ph \in Phases \ Running,
           phase' = [phase EXCEPT ![r] = ph],
           \A q \in Requests \ {r} : held'[q] = held[q],
           \/ ph \notin Holding /\ held'[r] \in {NoSlot, held[r]}
           \/ held'[r] = s /\ b.profiled
    PROVE  CInv' /\ GateMove(r)
<1>1. /\ Lookup' = b /\ Follows' /\ Matches(Lookup)'
      /\ registered' # NoSlot /\ registered \in {NoSlot, registered'}
  BY Moved
<1>2. /\ Inside' = Inside \ {r}
      /\ phase'[r] = ph
      /\ \A q \in Requests \ {r} : phase'[q] = phase[q]
  BY InsideGoto DEF Goto
<1>3. Single'
  <2> SUFFICES ASSUME NEW q \in Requests
               PROVE  /\ held'[q] \in {NoSlot, registered'}
                      /\ phase'[q] \in Holding =>
                            held'[q] = registered' /\ registered' # NoSlot
                            /\ Lookup'.profiled
    BY DEF Single
  <2>1. CASE q = r
    BY <2>1, <1>1, <1>2 DEF CInv, Single
  <2>2. CASE q # r
    BY <2>2, <1>1, <1>2 DEF CInv, Single
  <2> QED
    BY <2>1, <2>2
<1>4. Inside' = Inside
  BY <1>2 DEF Inside
<1>5. Leaves(r)
  BY <1>4 DEF Leaves
<1> QED
  BY <1>1, <1>3, <1>4, <1>5 DEF CInv, GateMove

LEMMA PhasesOutside ==
    /\ {"idle", "gated", "lost", "ready", "bypassing", "relayed", "won", "failed",
        "rejected", "declined"} \subseteq Phases \ Running
    /\ Holding \cap {"idle", "gated", "lost"} = {}
BY DEF Phases, Holding, Running, Resolved

(* The ways for a request to end, or to be handed back to its combo.       *)
LEMMA Ends ==
    ASSUME TInv, NEW r \in Requests, End(r) \/ GiveUp(r)
    PROVE  \E ph \in {"idle", "lost"} :
              /\ Goto(r, ph)
              /\ held'[r] \in {NoSlot, held[r]}
              /\ \A q \in Requests \ {r} : held'[q] = held[q]
BY DEF End, GiveUp, TInv, TypeOK

(* execute lets r in.                                                      *)
LEMMA EnterCore ==
    ASSUME TInv, CInv, NEW r \in Requests, Enter(r)
    PROVE  CInv' /\ GateMove(r)
<1> DEFINE b == Refresh(Lookup)
           c == Admitted(b)
<1>1. /\ held[r] \in LookupSlots /\ held[r] = registered
      /\ Mine(r) = Lookup /\ Lookup \in Breakers /\ Lookup.profiled
      /\ Matches(Lookup)
  BY MineIsCurrent, PhaseNames DEF Enter
<1>2. b \in Breakers /\ Matches(b) /\ b.profiled /\ Admits(b)
  BY <1>1, RefreshBreaker DEF Enter
<1>3. /\ c \in Breakers /\ RowOf(c) = RowOf(b) /\ c.profiled
      /\ c.state = b.state /\ Matches(c)
      /\ IF b.state = "HALF_OPEN" THEN b.allowed > 0 /\ c.allowed = b.allowed - 1
         ELSE c = b
  BY <1>2, AdmittedBreaker
<1>4. \/ b = Lookup
      \/ Lookup.state = "OPEN" /\ b.state = "HALF_OPEN" /\ b.allowed = HalfOpenRequests
  BY <1>1, RefreshBreaker
<1>5. /\ registered' = registered
      /\ inst' = [inst EXCEPT ![held[r]] = c]
      /\ row' = IF b # Lookup THEN RowOf(b) ELSE row
      /\ held' = held
      /\ \E ph \in Running : Goto(r, ph)
  BY <1>1 DEF Enter, RefreshedRow, Running
<1>6. r \notin Inside /\ phase[r] \in Holding
  BY PhaseNames DEF Enter, Inside, Running
<1> HIDE DEF c
<1>7. /\ Lookup' = c /\ Follows' /\ Matches(Lookup)'
      /\ registered \in {NoSlot, registered'}
  <2>1. row' = RowOf(c) \/ (UNCHANGED row /\ RowOf(c) = RowOf(Lookup))
    BY <1>3, <1>5
  <2> QED
    BY <2>1, <1>1, <1>3, <1>5, Moved
<1>8. PICK ph \in Running : Goto(r, ph)
  BY <1>5
<1>9. /\ Inside' = Inside \cup {r}
      /\ \A q \in Requests \ {r} : phase'[q] = phase[q]
  BY <1>8, InsideGoto
<1>10. Single'
  BY <1>1, <1>3, <1>5, <1>6, <1>7, <1>9, SingleStays
<1>11. GateMove(r)
  <2>1. CASE b.state = "HALF_OPEN"
    BY <2>1, <1>3, <1>4, <1>6, <1>7, <1>9 DEF GateMove
  <2>2. CASE b.state # "HALF_OPEN"
    <3>1. c = Lookup /\ b = Lookup
      BY <2>2, <1>3, <1>4
    <3>2. ModeOf(Lookup) = "passing"
      BY <2>2, <3>1, <1>2 DEF ModeOf, Admits
    <3> QED
      BY <3>1, <3>2, <1>6, <1>7, <1>9 DEF GateMove
  <2> QED
    BY <2>1, <2>2
<1> QED
  BY <1>7, <1>10, <1>11 DEF CInv

LEMMA StepCore ==
    ASSUME TInv, CInv, NEW r \in Requests, Step(r)
    PROVE  CInv' /\ GateMove(r)
<1>1. /\ Lookup \in Breakers /\ LookupSlots \subseteq Slots /\ Matches(Lookup)
      /\ held \in [Requests -> Slots \cup {NoSlot}]
      /\ phase \in [Requests -> Phases]
  BY LookupType DEF TInv, CInv, TypeOK
<1>2. /\ Configured(Lookup) \in Breakers /\ Matches(Configured(Lookup))
      /\ Configured(Lookup).profiled
      /\ Configured(Lookup).state = Lookup.state
      /\ Configured(Lookup).allowed = Lookup.allowed
  BY <1>1, ConfiguredBreaker
<1>3. CASE Gate(r)
  <2> DEFINE b == Refresh(Configured(Lookup))
  <2>1. PICK s \in LookupSlots : registered' = s /\ Persist(s, b)
    BY <1>3 DEF Gate
  <2>2. b \in Breakers /\ Matches(b) /\ b.profiled
    BY <1>2, RefreshBreaker
  <2>3. Settles(Lookup, b) \/ Offers(Lookup, b)
    BY <1>1, <1>2, RefreshMoves
  <2>4. PICK ph \in {"idle", "gated", "lost"} : phase' = [phase EXCEPT ![r] = ph]
    <3>1. UNCHANGED phase => phase' = [phase EXCEPT ![r] = "idle"]
      BY <1>1, <1>3 DEF Gate
    <3> QED
      BY <1>3, <3>1 DEF Gate, Goto
  <2>5. ph \in Phases \ Running /\ ph \notin Holding /\ held' = held
        /\ phase[r] \notin Running
    BY <1>3, PhasesOutside DEF Gate, Running
  <2> HIDE DEF b
  <2> QED
    BY <2>1, <2>2, <2>3, <2>4, <2>5, LookedUp DEF Persist
<1>4. CASE Hold(r)
  <2> DEFINE b == Configured(Lookup)
  <2>1. PICK s \in LookupSlots :
           registered' = s /\ Persist(s, b) /\ held' = [held EXCEPT ![r] = s]
    BY <1>4 DEF Hold
  <2>2. Settles(Lookup, b)
    BY <1>2 DEF Settles, ModeOf, BudgetOf
  <2>3. /\ phase' = [phase EXCEPT ![r] = "ready"] /\ "ready" \in Phases \ Running
        /\ phase[r] \notin Running
    BY <1>4, PhasesOutside DEF Hold, Goto, Running
  <2>4. held'[r] = s /\ \A q \in Requests \ {r} : held'[q] = held[q]
    BY <2>1, <1>1
  <2>5. b \in Breakers /\ Matches(b) /\ b.profiled
    BY <1>2
  <2> HIDE DEF b
  <2> QED
    BY <2>1, <2>2, <2>3, <2>4, <2>5, LookedUp DEF Persist
<1>5. CASE Enter(r)
  BY <1>5, EnterCore
<1>6. CASE Rejected(r) \/ Bypass(r) \/ TryNext(r)
  <2>1. phase[r] \in Holding /\ UNCHANGED <<registered, inst, row, held>>
    BY <1>6, PhaseNames DEF Rejected, Bypass, TryNext
  <2>2. PICK ph \in {"rejected", "bypassing", "ready"} : Goto(r, ph)
    BY <1>6 DEF Rejected, Bypass, TryNext
  <2> QED
    BY <2>1, <2>2, PhasesOutside, Unreported
<1>7. ASSUME NEW result \in {"won", "failed", "declined"},
             Returned(r, result) \/ ReturnedBypassed(r, result)
      PROVE  CInv' /\ GateMove(r)
  <2>1. result \in Phases \ Running /\ result \in Holding /\ phase[r] \in Holding
        /\ Goto(r, result) /\ UNCHANGED <<registered, held>>
    BY <1>7, PhasesOutside, PhaseNames DEF Returned, ReturnedBypassed
  <2>2. CASE Returned(r, result)
    <3>1. Mine(r) = Lookup /\ Lookup.profiled
      BY <2>1, MineIsCurrent
    <3>2. /\ OnSuccess(Lookup) \in Breakers /\ OnSuccess(Lookup).profiled
          /\ Matches(OnSuccess(Lookup)) /\ OnSuccess(Lookup).state # "HALF_OPEN"
      BY <3>1, <1>1, SuccessBreaker
    <3> QED
      BY <2>1, <2>2, <3>1, <3>2, Reported DEF Returned
  <2>3. CASE ReturnedBypassed(r, result)
    BY <2>1, <2>3, Unreported DEF ReturnedBypassed
  <2> QED
    BY <1>7, <2>2, <2>3
<1>8. ASSUME NEW kind \in Kinds \cup {NoKind}, Threw(r, kind)
      PROVE  CInv' /\ GateMove(r)
  <2>1. phase[r] \in Holding /\ UNCHANGED registered
        /\ Persist(held[r], OnFailure(Mine(r), kind))
    BY <1>8, PhaseNames DEF Threw
  <2>2. Mine(r) = Lookup /\ Lookup.profiled
    BY <2>1, MineIsCurrent
  <2>3. /\ OnFailure(Lookup, kind) \in Breakers /\ OnFailure(Lookup, kind).profiled
        /\ Matches(OnFailure(Lookup, kind)) /\ OnFailure(Lookup, kind).state # "HALF_OPEN"
    BY <2>2, <1>1, FailureBreaker
  <2>4. CASE End(r)
    <3>1. PICK ph \in {"idle", "lost"} :
             /\ Goto(r, ph)
             /\ held'[r] \in {NoSlot, held[r]}
             /\ \A q \in Requests \ {r} : held'[q] = held[q]
      BY <2>4, Ends
    <3> QED
      BY <2>1, <2>2, <2>3, <3>1, PhasesOutside, Reported
  <2>5. CASE Goto(r, "failed") /\ UNCHANGED <<held, tries>>
    BY <2>1, <2>2, <2>3, <2>5, PhasesOutside, PhaseNames, Reported
  <2> QED
    BY <1>8, <2>4, <2>5 DEF Threw
<1>9. CASE ThrewLocal(r) \/ EndUnreported(r) \/ ComboSilent(r)
  <2>1. UNCHANGED <<registered, inst, row>> /\ (End(r) \/ GiveUp(r))
    BY <1>9 DEF ThrewLocal, EndUnreported, ComboSilent
  <2>2. PICK ph \in {"idle", "lost"} :
           /\ Goto(r, ph)
           /\ held'[r] \in {NoSlot, held[r]}
           /\ \A q \in Requests \ {r} : held'[q] = held[q]
    BY <2>1, Ends
  <2> QED
    BY <2>1, <2>2, PhasesOutside, Unreported
<1>10. CASE ReportSuccess(r)
  <2>1. phase[r] \in Holding /\ UNCHANGED registered
        /\ Persist(held[r], OnSuccess(Mine(r)))
    BY <1>10, PhaseNames DEF ReportSuccess
  <2>2. Mine(r) = Lookup /\ Lookup.profiled
    BY <2>1, MineIsCurrent
  <2>3. /\ OnSuccess(Lookup) \in Breakers /\ OnSuccess(Lookup).profiled
        /\ Matches(OnSuccess(Lookup)) /\ OnSuccess(Lookup).state # "HALF_OPEN"
    BY <2>2, <1>1, SuccessBreaker
  <2>4. CASE End(r)
    <3>1. PICK ph \in {"idle", "lost"} :
             /\ Goto(r, ph)
             /\ held'[r] \in {NoSlot, held[r]}
             /\ \A q \in Requests \ {r} : held'[q] = held[q]
      BY <2>4, Ends
    <3> QED
      BY <2>1, <2>2, <2>3, <3>1, PhasesOutside, Reported
  <2>5. CASE Goto(r, "relayed") /\ UNCHANGED <<held, tries>>
    BY <2>1, <2>2, <2>3, <2>5, PhasesOutside, PhaseNames, Reported
  <2> QED
    BY <1>10, <2>4, <2>5 DEF ReportSuccess
<1>11. CASE ReportFailure(r)
  <2>1. phase[r] \in Holding /\ UNCHANGED registered /\ GiveUp(r)
        /\ Persist(held[r], OnFailure(Mine(r), NoKind))
    BY <1>11, PhaseNames DEF ReportFailure
  <2>2. Mine(r) = Lookup /\ Lookup.profiled
    BY <2>1, MineIsCurrent
  <2>3. /\ OnFailure(Lookup, NoKind) \in Breakers /\ OnFailure(Lookup, NoKind).profiled
        /\ Matches(OnFailure(Lookup, NoKind))
        /\ OnFailure(Lookup, NoKind).state # "HALF_OPEN"
    BY <2>2, <1>1, FailureBreaker
  <2>4. PICK ph \in {"idle", "lost"} :
           /\ Goto(r, ph)
           /\ held'[r] \in {NoSlot, held[r]}
           /\ \A q \in Requests \ {r} : held'[q] = held[q]
    BY <2>1, Ends
  <2> QED
    BY <2>1, <2>2, <2>3, <2>4, PhasesOutside, Reported
<1>12. CASE ComboSuccess(r)
  <2> DEFINE b == Refresh(Lookup)
             c == IF b.state = "OPEN" THEN b ELSE OnSuccess(b)
  <2>1. PICK s \in LookupSlots :
           IF b.state = "OPEN" THEN Register(s, b) /\ UNCHANGED row
           ELSE registered' = s /\ Persist(s, OnSuccess(b))
    BY <1>12 DEF ComboSuccess
  <2>2. /\ phase[r] \in Holding /\ phase[r] \notin Running /\ End(r)
    BY <1>12, PhaseNames DEF ComboSuccess, Running
  <2>3. Lookup.profiled
    BY <2>2, MineIsCurrent
  <2>4. b \in Breakers /\ Matches(b) /\ b.profiled
    BY <1>1, <2>3, RefreshBreaker
  <2>5. b.state = "OPEN" => b = Lookup
    BY <1>1, RefreshBreaker
  <2>6. c \in Breakers /\ Matches(c) /\ c.profiled
    BY <2>4, SuccessBreaker
  <2>7. Settles(Lookup, c)
    BY <2>4, <2>5, SuccessBreaker DEF Settles
  <2>8. /\ registered' = s /\ inst' = [inst EXCEPT ![s] = c]
        /\ row' = RowOf(c) \/ (UNCHANGED row /\ RowOf(c) = RowOf(Lookup))
    BY <2>1, <2>5 DEF Register, Persist
  <2>9. /\ phase' = [phase EXCEPT ![r] = "idle"]
        /\ held'[r] = NoSlot /\ \A q \in Requests \ {r} : held'[q] = held[q]
    BY <2>2, <1>1 DEF End, Goto
  <2> HIDE DEF c
  <2> QED
    BY <2>2, <2>6, <2>7, <2>8, <2>9, PhasesOutside, LookedUp
<1>13. CASE ComboFailure(r)
  <2> DEFINE b == Refresh(Configured(Lookup))
             c == IF Admits(b) THEN OnFailure(b, NoKind) ELSE b
  <2>1. b \in Breakers /\ Matches(b) /\ b.profiled
    BY <1>2, RefreshBreaker
  <2>2. /\ OnFailure(b, NoKind) \in Breakers /\ Matches(OnFailure(b, NoKind))
        /\ OnFailure(b, NoKind).profiled /\ OnFailure(b, NoKind).state # "HALF_OPEN"
        /\ Refresh(OnFailure(b, NoKind)) = OnFailure(b, NoKind)
    BY <2>1, FailureBreaker, NoInstantRecovery
  <2>3. Settles(Lookup, b) \/ Offers(Lookup, b)
    BY <1>1, <1>2, RefreshMoves
  <2> HIDE DEF b
  <2>4. PICK s \in LookupSlots : registered' = s /\ Persist(s, c)
    BY <1>13, <2>2 DEF ComboFailure, b
  <2>5. c \in Breakers /\ Matches(c) /\ c.profiled
    BY <2>1, <2>2
  <2>6. Settles(Lookup, c) \/ Offers(Lookup, c)
    BY <2>2, <2>3 DEF Settles
  <2>7. /\ phase' = [phase EXCEPT ![r] = "idle"]
        /\ held'[r] = NoSlot /\ \A q \in Requests \ {r} : held'[q] = held[q]
        /\ phase[r] \notin Running
    BY <1>13, <1>1 DEF ComboFailure, End, Goto, Running
  <2> HIDE DEF c
  <2> QED
    BY <2>4, <2>5, <2>6, <2>7, PhasesOutside, LookedUp DEF Persist
<1> QED
  BY <1>3, <1>4, <1>5, <1>6, <1>7, <1>8, <1>9, <1>10, <1>11, <1>12, <1>13 DEF Step

(* What a step of nobody in particular looks like to the probe gate.       *)
GateStep ==
    \/ Inside' = Inside /\ (Settles(Lookup, Lookup') \/ Offers(Lookup, Lookup'))
    \/ /\ Inside' = {}
       /\ ModeOf(Lookup') = ModeOf(Lookup)
       /\ BudgetOf(Lookup') =
             IF ModeOf(Lookup) = "probing" THEN HalfOpenRequests ELSE 0

(* A lookup by nobody's request.                                           *)
LEMMA Touched ==
    ASSUME TInv, CInv, NEW s \in LookupSlots, NEW b \in Breakers, registered' = s,
           inst' = [inst EXCEPT ![s] = b],
           row' = RowOf(b) \/ (UNCHANGED row /\ RowOf(b) = RowOf(Lookup)),
           Matches(b), b.profiled = Lookup.profiled,
           Settles(Lookup, b) \/ Offers(Lookup, b),
           UNCHANGED <<phase, held>>
    PROVE  CInv' /\ GateStep
<1>1. /\ Lookup' = b /\ Follows' /\ Matches(Lookup)'
      /\ registered' # NoSlot /\ registered \in {NoSlot, registered'}
  BY Moved
<1>2. Single'
  BY <1>1 DEF CInv, Single
<1>3. Inside' = Inside
  BY DEF Inside
<1> QED
  BY <1>1, <1>2, <1>3 DEF CInv, GateStep

LEMMA RestartCore ==
    ASSUME TInv, CInv, Restart
    PROVE  CInv' /\ GateStep
<1>1. /\ registered' = NoSlot /\ row' = row
      /\ phase' = [r \in Requests |-> "idle"]
      /\ held' = [r \in Requests |-> NoSlot]
  BY DEF Restart
<1>2. Lookup' = IF row = NoRow THEN Fresh ELSE Restored(row)
  BY <1>1 DEF Lookup, Load
<1>3. Lookup \in Breakers /\ Matches(Lookup) /\ row \in Rows \cup {NoRow}
  BY LookupType DEF TInv, TypeOK, CInv
<1>4. Single' /\ Inside' = {}
  BY <1>1, PhasesOutside DEF Single, Inside
<1>5. CASE row = NoRow
  <2>1. RowOf(Lookup).state = RowOf(Fresh).state
        /\ RowOf(Lookup).failures = RowOf(Fresh).failures
    BY <1>5 DEF CInv, Follows
  <2>2. Lookup.state = "CLOSED" /\ Fresh.state = "CLOSED" /\ Lookup' = Fresh
    BY <2>1, <1>2, <1>3, <1>5 DEF RowOf, Fresh
  <2>3. Matches(Lookup)'
    BY <2>2, FreshBreaker DEF Matches
  <2>4. Follows'
    BY <2>2, <1>1, <1>5 DEF Follows
  <2>5. GateStep
    BY <2>2, <1>4 DEF GateStep, ModeOf, BudgetOf
  <2> QED
    BY <2>3, <2>4, <2>5, <1>4 DEF CInv
<1>6. CASE row # NoRow
  <2>1. row = RowOf(Lookup) /\ row \in Rows
    BY <1>3, <1>6 DEF CInv, Follows
  <2>2. row.state = Lookup.state /\ row.failures = Lookup.failures
    BY <2>1, <1>3, RowOfBreaker
  <2>3. /\ Lookup' = Restored(row) /\ RowOf(Lookup') = row
        /\ Lookup'.state = Lookup.state /\ Lookup'.failures = Lookup.failures
        /\ Lookup.state = "HALF_OPEN" => Lookup'.allowed = HalfOpenRequests
    BY <2>1, <2>2, <1>2, <1>6, RestoredBreaker
  <2>4. Matches(Lookup)'
    BY <2>3, <1>3 DEF Matches
  <2>5. Follows'
    BY <2>3, <1>1, <1>6 DEF Follows
  <2>6. GateStep
    BY <2>3, <1>4 DEF GateStep, ModeOf, BudgetOf
  <2> QED
    BY <2>4, <2>5, <2>6, <1>4 DEF CInv
<1> QED
  BY <1>5, <1>6

LEMMA TickCore ==
    ASSUME TInv, CInv, Tick
    PROVE  CInv' /\ GateStep
<1>1. /\ inst' = [s \in Slots |-> Older(inst[s])]
      /\ row' = IF row = NoRow THEN row ELSE Older(row)
      /\ registered' = registered /\ phase' = phase /\ held' = held
  BY DEF Tick
<1>2. Lookup \in Breakers /\ Matches(Lookup)
  BY LookupType DEF TInv, CInv
<1>3. row # NoRow => row \in Rows /\ Older(row) \in Rows /\ Older(row) # NoRow
  BY OlderRow, SlotsNamed DEF TInv, TypeOK
<1>4. /\ Lookup'.state = Lookup.state /\ Lookup'.failures = Lookup.failures
      /\ Lookup'.allowed = Lookup.allowed /\ Lookup'.profiled = Lookup.profiled
      /\ Follows'
  <2>1. CASE registered # NoSlot
    <3>1. Lookup = inst[registered] /\ Lookup' = Older(Lookup)
      BY <2>1, <1>1 DEF Lookup, TInv, TypeOK
    <3>2. RowOf(Lookup') = Older(RowOf(Lookup))
      BY <3>1, <1>2, OlderBreaker
    <3>3. row = NoRow => RowOf(Lookup') = RowOf(Fresh)
      <4>1. ASSUME row = NoRow PROVE RowOf(Lookup') = RowOf(Fresh)
        <5>1. RowOf(Lookup') = Older(RowOf(Fresh))
          BY <3>2, <4>1 DEF CInv, Follows
        <5>2. AtMost(AgeBound + 1, AgeBound) = AgeBound
          BY BoundsLarge DEF AtMost
        <5>3. Older(RowOf(Fresh)) = RowOf(Fresh)
          BY <5>2 DEF Older, RowOf, Fresh
        <5> QED
          BY <5>1, <5>3
      <4> QED
        BY <4>1
    <3>4. row # NoRow => row' = RowOf(Lookup') /\ row' # NoRow
      BY <3>2, <1>1, <1>3 DEF CInv, Follows
    <3>5. Follows'
      BY <3>3, <3>4, <1>1 DEF Follows
    <3> QED
      BY <3>1, <3>5, <1>2, OlderBreaker
  <2>2. CASE registered = NoSlot /\ row = NoRow
    <3>1. Lookup = Fresh /\ Lookup' = Fresh /\ row' = NoRow
      BY <2>2, <1>1 DEF Lookup, Load
    <3> QED
      BY <3>1 DEF Follows
  <2>3. CASE registered = NoSlot /\ row # NoRow
    <3>1. /\ Lookup = Restored(row) /\ Lookup' = Restored(Older(row))
          /\ row' = Older(row) /\ row' # NoRow
      BY <2>3, <1>1, <1>3 DEF Lookup, Load
    <3>2. Older(row).state = row.state /\ Older(row).failures = row.failures
      BY <2>3, <1>3, OlderRow
    <3>3. RowOf(Restored(Older(row))) = Older(row)
      BY <2>3, <1>3, RestoredBreaker
    <3>4. Follows'
      BY <3>1, <3>3 DEF Follows
    <3> QED
      BY <3>1, <3>2, <3>4 DEF Restored
  <2> QED
    BY <2>1, <2>2, <2>3
<1>5. Matches(Lookup)'
  BY <1>2, <1>4 DEF Matches
<1>6. Single' /\ Inside' = Inside
  BY <1>1, <1>4 DEF CInv, Single, Inside
<1>7. Settles(Lookup, Lookup')
  BY <1>4 DEF Settles, ModeOf, BudgetOf
<1> QED
  BY <1>4, <1>5, <1>6, <1>7 DEF CInv, GateStep

LEMMA OthersCore ==
    ASSUME TInv, CInv, ~Evictable,
           Look \/ ManualReset \/ Evict \/ Restart \/ Tick \/ UNCHANGED vars
    PROVE  CInv' /\ GateStep
<1>1. Lookup \in Breakers /\ Matches(Lookup)
  BY LookupType DEF TInv, CInv
<1>2. CASE Look
  <2> DEFINE b == Refresh(Lookup)
  <2>1. PICK s \in LookupSlots : Register(s, b) /\ row' = RefreshedRow(Lookup)
    BY <1>2 DEF Look
  <2>2. b \in Breakers /\ Matches(b) /\ b.profiled = Lookup.profiled
    BY <1>1, RefreshBreaker
  <2>3. Settles(Lookup, b) \/ Offers(Lookup, b)
    BY <1>1, RefreshMoves
  <2>4. row' = RowOf(b) \/ (UNCHANGED row /\ RowOf(b) = RowOf(Lookup))
    BY <2>1 DEF RefreshedRow
  <2>5. UNCHANGED <<phase, held>>
    BY <1>2 DEF Look
  <2> HIDE DEF b
  <2> QED
    BY <2>1, <2>2, <2>3, <2>4, <2>5, Touched DEF Register
<1>3. CASE ManualReset
  <2> DEFINE b == Reset(Lookup)
  <2>1. PICK s \in LookupSlots : registered' = s /\ Persist(s, b)
    BY <1>3 DEF ManualReset
  <2>2. b \in Breakers /\ Matches(b) /\ b.profiled = Lookup.profiled
    BY <1>1, ResetBreaker
  <2>3. Settles(Lookup, b)
    BY <1>1, ResetBreaker DEF Settles
  <2>4. UNCHANGED <<phase, held>>
    BY <1>3 DEF ManualReset
  <2> HIDE DEF b
  <2> QED
    BY <2>1, <2>2, <2>3, <2>4, Touched DEF Persist
<1>4. CASE Evict
  BY <1>4 DEF Evict
<1>5. CASE Restart
  BY <1>5, RestartCore
<1>6. CASE Tick
  BY <1>6, TickCore
<1>7. CASE UNCHANGED vars
  <2>1. Lookup' = Lookup /\ Inside' = Inside
    BY <1>7 DEF vars, Lookup, Load, Inside
  <2>2. CInv'
    BY <2>1, <1>7 DEF vars, CInv, Follows, Matches, Single
  <2>3. Settles(Lookup, Lookup')
    BY <2>1 DEF Settles
  <2> QED
    BY <2>1, <2>2, <2>3 DEF GateStep
<1> QED
  BY <1>2, <1>3, <1>4, <1>5, <1>6, <1>7

(* Every step is a step of the probe gate, or stutters.                    *)
LEMMA GateModes ==
    /\ Mode = ModeOf(Lookup)
    /\ Budget = BudgetOf(Lookup)
    /\ ModeOf(Lookup) \in {"blocked", "probing", "passing"}
    /\ ModeOf(Lookup) = "blocked" <=> Lookup.state = "OPEN"
    /\ ModeOf(Lookup) = "probing" <=> Lookup.state = "HALF_OPEN"
    /\ BudgetOf(Lookup) = IF Lookup.state = "HALF_OPEN" THEN Lookup.allowed ELSE 0
BY DEF Mode, ModeOf, Budget, BudgetOf, Current

LEMMA SettlesGate ==
    ASSUME Settles(Lookup, Lookup'),
           Inside' = Inside \/ \E c \in Inside : Inside' = Inside \ {c}
    PROVE  Gatekeeper!Settle
<1>1. \/ Mode' = "blocked" /\ Budget' = 0
      \/ Mode' = "passing" /\ Budget' = 0
      \/ UNCHANGED <<Mode, Budget>>
  BY DEF Settles, ModeOf, BudgetOf, Mode, Budget, Current
<1> QED
  BY <1>1 DEF Gatekeeper!Settle

LEMMA OffersGate ==
    ASSUME Offers(Lookup, Lookup'), Inside' = Inside
    PROVE  Gatekeeper!Offer
BY DEF Offers, Mode, Budget, Current, Gatekeeper!Offer

LEMMA GateMoveGate ==
    ASSUME NEW r \in Requests, GateMove(r)
    PROVE  Gatekeeper!Next
<1>1. CASE Settles(Lookup, Lookup') /\ Leaves(r)
  BY <1>1, SettlesGate DEF Leaves, Gatekeeper!Next
<1>2. CASE Offers(Lookup, Lookup') /\ Inside' = Inside
  BY <1>2, OffersGate DEF Gatekeeper!Next
<1>3. CASE /\ r \notin Inside /\ Inside' = Inside \cup {r}
           /\ \/ ModeOf(Lookup) = "passing" /\ Lookup' = Lookup
              \/ /\ Lookup.state = "HALF_OPEN" /\ Lookup.allowed > 0
                 /\ Lookup'.state = "HALF_OPEN" /\ Lookup'.allowed = Lookup.allowed - 1
              \/ /\ Lookup.state = "OPEN"
                 /\ Lookup'.state = "HALF_OPEN"
                 /\ Lookup'.allowed = HalfOpenRequests - 1
  <2>1. CASE ModeOf(Lookup) = "passing" /\ Lookup' = Lookup
    <3>1. Mode = "passing" /\ Mode' = Mode /\ Budget' = Budget
      BY <2>1 DEF Mode, ModeOf, Budget, Current
    <3> QED
      BY <3>1, <1>3 DEF Gatekeeper!Enter, Gatekeeper!Next
  <2>2. CASE /\ Lookup.state = "HALF_OPEN" /\ Lookup.allowed > 0
             /\ Lookup'.state = "HALF_OPEN" /\ Lookup'.allowed = Lookup.allowed - 1
    <3>1. Mode = "probing" /\ Mode' = Mode /\ Budget > 0 /\ Budget' = Budget - 1
      BY <2>2 DEF Mode, Budget, Current
    <3> QED
      BY <3>1, <1>3 DEF Gatekeeper!Enter, Gatekeeper!Next
  <2>3. CASE /\ Lookup.state = "OPEN"
             /\ Lookup'.state = "HALF_OPEN"
             /\ Lookup'.allowed = HalfOpenRequests - 1
    <3>1. Mode = "blocked" /\ Mode' = "probing" /\ Budget' = HalfOpenRequests - 1
      BY <2>3 DEF Mode, Budget, Current
    <3> QED
      BY <3>1, <1>3 DEF Gatekeeper!Enter, Gatekeeper!Next
  <2> QED
    BY <1>3, <2>1, <2>2, <2>3
<1> QED
  BY <1>1, <1>2, <1>3 DEF GateMove

LEMMA GateStepGate ==
    ASSUME GateStep
    PROVE  Gatekeeper!Next
<1>1. CASE Inside' = Inside /\ (Settles(Lookup, Lookup') \/ Offers(Lookup, Lookup'))
  BY <1>1, SettlesGate, OffersGate DEF Gatekeeper!Next
<1>2. CASE /\ Inside' = {}
           /\ ModeOf(Lookup') = ModeOf(Lookup)
           /\ BudgetOf(Lookup') =
                 IF ModeOf(Lookup) = "probing" THEN HalfOpenRequests ELSE 0
  <2>1. Mode' = Mode /\ Budget' = IF Mode = "probing" THEN HalfOpenRequests ELSE 0
    BY <1>2 DEF Mode, ModeOf, Budget, BudgetOf, Current
  <2> QED
    BY <2>1, <1>2 DEF Gatekeeper!Restart, Gatekeeper!Next
<1> QED
  BY <1>1, <1>2 DEF GateStep

LEMMA NextCore ==
    ASSUME TInv, CInv, ~Evictable, [Next]_vars
    PROVE  TInv' /\ CInv' /\ Gatekeeper!Next
<1>1. TInv'
  BY NextType
<1>2. CASE \E r \in Requests : Step(r)
  <2>1. PICK r \in Requests : Step(r)
    BY <1>2
  <2>2. CInv' /\ GateMove(r)
    BY <2>1, StepCore
  <2> QED
    BY <1>1, <2>2, GateMoveGate
<1>3. CASE Look \/ ManualReset \/ Evict \/ Restart \/ Tick \/ UNCHANGED vars
  <2>1. CInv' /\ GateStep
    BY <1>3, OthersCore
  <2> QED
    BY <1>1, <2>1, GateStepGate
<1> QED
  BY <1>2, <1>3 DEF Next

LEMMA InitCore ==
    ASSUME Init
    PROVE  TInv /\ CInv /\ Gatekeeper!Init
<1>1. TInv
  BY FreshBreaker, PhaseNames, AccountsNat DEF Init, TInv, TypeOK, HoldingHeld
<1>2. Lookup = Fresh /\ row = NoRow
  BY DEF Init, Lookup, Load
<1>3. CInv
  BY <1>2, FreshBreaker, PhasesOutside DEF Init, CInv, Follows, Single
<1>4. Mode = "passing" /\ Budget = 0
  BY <1>2 DEF Mode, Budget, Current, Fresh
<1>5. Inside = {}
  BY DEF Init, Inside, Running
<1> QED
  BY <1>1, <1>3, <1>4, <1>5 DEF Gatekeeper!Init

(***************************************************************************)
(* Without evictions, the state of the breaker in force follows from its   *)
(* failure count, however results, reports, resets and restarts fall       *)
(* (_onSuccess, _onFailure, reset, _restoreFromDb).                        *)
(***************************************************************************)
THEOREM CountsMatch ==
    ASSUME ~Evictable
    PROVE  Spec => []StateMatchesCount
<1>1. Init => TInv /\ CInv
  BY InitCore
<1>2. TInv /\ CInv /\ [Next]_vars => (TInv /\ CInv)'
  BY NextCore
<1>3. CInv => StateMatchesCount
  BY DEF CInv, Matches, StateMatchesCount, Current
<1> QED
  BY <1>1, <1>2, <1>3, PTL DEF Spec

(***************************************************************************)
(* Without evictions, the database row always holds what the registered    *)
(* breaker is (_persistToDb), or is missing beside a breaker as good as    *)
(* new.                                                                    *)
(***************************************************************************)
THEOREM AlwaysDurable ==
    ASSUME ~Evictable
    PROVE  Spec => []Durable
<1>1. Init => TInv /\ CInv
  BY InitCore
<1>2. TInv /\ CInv /\ [Next]_vars => (TInv /\ CInv)'
  BY NextCore
<1>3. CInv => Durable
  BY DEF CInv, Follows, Durable, Lookup
<1> QED
  BY <1>1, <1>2, <1>3, PTL DEF Spec

(***************************************************************************)
(* Without evictions, the breaker implements the probe gate: nobody enters *)
(* while it is open, and each half-open period admits at most              *)
(* HalfOpenRequests calls (canExecute, execute, _refreshOpenState).        *)
(***************************************************************************)
THEOREM ImplementsGate ==
    ASSUME ~Evictable
    PROVE  Spec => GateSpec
<1>1. Init => TInv /\ CInv /\ Gatekeeper!Init
  BY InitCore
<1>2. TInv /\ CInv /\ [Next]_vars => (TInv /\ CInv)' /\ [Gatekeeper!Next]_Gatekeeper!vars
  BY NextCore
<1> QED
  BY <1>1, <1>2, PTL DEF Spec, GateSpec, Gatekeeper!Spec
=============================================================================
