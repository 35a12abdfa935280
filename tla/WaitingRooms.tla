---------------------------- MODULE WaitingRooms ----------------------------
(***************************************************************************)
(* The places where requests wait for their turn: a gate of the account    *)
(* semaphore, one of the round-robin limiter, the fair queue of the        *)
(* admission controller, that controller while its mode changes, and the   *)
(* budget for heavy bodies.  They share no state, so one of them moves in  *)
(* a behaviour: part says which.                                           *)
(*                                                                         *)
(* The instances are of the modules with the proofs, so that what is       *)
(* proved about a place there can be said of it here.                      *)
(***************************************************************************)
EXTENDS AccountSemaphore

CONSTANTS
    LimiterCaps, Depths, LimiterTimers,     \* the limiter, for the gate's requests
    Tenants, MaxSkips,                      \* the queue and the controller
    Queued, CostOf, TenantOf,               \* the requests of the queue
    Callers, Expense, TenantKey,            \* those of the controller
    Configs, DefaultTenant, ExistingTenant, MaxLanes, IncreaseStep,
    Bodies, Keys, KeyOf, Weight, Structural,
    MaxHeavy, MaxBytes, Headroom, MaxCursor \* the budget

VARIABLES
    part,
    slots, most, line, limit, holding, timers,
    fair, arrived, turns,
    controller,
    stage, activeHeavy, activeHealthy, queuedBytes, waiting, lost

limiterVars == <<slots, most, line, limit, holding, timers>>
fairVars == <<fair, arrived, turns>>
heavyVars == <<stage, activeHeavy, activeHealthy, queuedBytes, waiting, lost>>
roomVars == <<part, vars, limiterVars, fairVars, controller, heavyVars>>

(* The limiter: its cap and queue depth change from call to call.          *)
Limiter == INSTANCE RateLimitSemaphoreProofs WITH
    Caps <- LimiterCaps, MaxTimers <- LimiterTimers,
    running <- slots, max <- most, queue <- line

ASSUME LimiterAssumption == Limiter!LimiterConstants

(* The queue on its own.                                                   *)
Rounds == INSTANCE AdmissionProofs WITH
    Requests <- Queued, Cost <- CostOf, TenantKey <- TenantOf, FirstConfigs <- Configs,
    c <- controller, queue <- fair

(* The controller, which may be created with whatever it may be given      *)
(* later, and with it, as Doors!Heavy, the budget for heavy bodies.        *)
Doors == INSTANCE AdmissionProofs WITH
    Requests <- Callers, Cost <- Expense, TenantOf <- TenantKey, FirstConfigs <- Configs,
    c <- controller, queue <- fair

ASSUME TenantsAssumption ==
    /\ {DefaultTenant, ExistingTenant} \subseteq Tenants
    /\ MaxSkips \in Nat \ {0}
ASSUME QueueAssumption ==
    /\ TenantOf \in [Queued -> Tenants]
    /\ CostOf \in [Queued -> Nat \ {0}]
ASSUME CallersAssumption ==
    /\ TenantKey \in [Callers -> Tenants]
    /\ Expense \in [Callers -> Nat \ {0}]
ASSUME ConfigsAssumption ==
    \A f \in Configs :
        /\ f.mode \in {"off", "shadow", "enforce"}
        /\ {f.min, f.max, f.initial, f.count, f.cost} \subseteq Nat \ {0}
        /\ f.min <= f.max
        /\ f.lanes \in BOOLEAN
ASSUME BoundsAssumption == {MaxLanes, IncreaseStep} \subseteq Nat \ {0}
ASSUME BodiesAssumption == Doors!Heavy!BodiesWeighed

-----------------------------------------------------------------------------
Gate(A) ==
    part = "gate" /\ A /\ UNCHANGED <<part, limiterVars, fairVars, controller, heavyVars>>
Limited(A) ==
    part = "limiter" /\ A /\ UNCHANGED <<part, vars, fairVars, controller, heavyVars>>
Turn(A) ==
    part = "queue" /\ A /\ UNCHANGED <<part, vars, limiterVars, controller, heavyVars>>
Control(A) ==
    part = "modes" /\ A /\ UNCHANGED <<part, vars, limiterVars, fairVars, heavyVars>>
Body(A) ==
    part = "bodies" /\ A /\ UNCHANGED <<part, vars, limiterVars, fairVars, controller>>

(* A controller that does not move is off.                                 *)
RoomsInit ==
    /\ part \in {"gate", "limiter", "queue", "modes", "bodies"}
    /\ Init /\ Limiter!Init /\ Rounds!QueueInit /\ Doors!Init /\ Doors!Heavy!Init
    /\ part # "modes" => controller.cfg.mode = "off"

RoomsNext ==
    \/ Gate(Next) \/ Limited(Limiter!Next) \/ Turn(Rounds!QueueNext)
    \/ Control(Doors!Next) \/ Body(Doors!Heavy!Next)

(* The fairness of AccountSemaphore, and the controller's windows end.     *)
RoomsSpec ==
    /\ RoomsInit /\ [][RoomsNext]_roomVars
    /\ TimersFire
    /\ []<>~Doors!TickChanges \/ []<><<Doors!Tick>>_controller

-----------------------------------------------------------------------------
(* The types of the other limiter, the queue and the budget.               *)
RoomsTypeOK == Limiter!TypeOK /\ Rounds!QueueTypeOK /\ Doors!Heavy!TypeOK

(* What is kept twice agrees: FairCostQueue's turn order and its buckets,  *)
(* the bytes charged for heavy bodies and those that wait, the controller's*)
(* active costs and its leases through changes of mode (updateConfig).     *)
BooksAgree == Rounds!OrderIsBuckets /\ Doors!Heavy!BytesAddUp /\ Doors!BudgetsAddUp

(* The round-robin limiter: whoever waits has a wake-up to come (drainQueue).*)
WakeupToCome == Limiter!WakeupToCome

(* The gate of the account semaphore is a slot pool until a reset, and the *)
(* round-robin limiter, whatever its timers find, and the slots for heavy  *)
(* bodies are ones (drainQueue, acquireHeavyWithin).                       *)
LimitersArePools == PoolSpec /\ Limiter!PoolSpec /\ Doors!Heavy!PoolSpec

(* FairCostQueue: turns are taken between tenants (takeAt, removeById).    *)
TurnsAreTaken == Rounds!TurnsAreTaken

(* FairCostQueue: nobody overtakes a head passed too often (dequeue).      *)
ReservedFirst == Rounds!ReservedFirst

(* A limit that collapsed recovers in an idle controller, in any mode.     *)
LimitRecovers == Doors!LimitRecovers

(* Capacity is not left to nobody: a free heavy slot has woken somebody    *)
(* (dispatchFair), and no request fits that waits at the controller, nor in *)
(* shadow mode's virtual queue (dispatch, releaseVirtual).                 *)
CapacityOffered == Doors!Heavy!WakesCoverSlots /\ Doors!CapacityUsed
=============================================================================
