----------------------------- MODULE Admission ------------------------------
(***************************************************************************)
(* The adaptive admission controller (open-sse/services/admission:         *)
(* controller.ts, with queue.ts through FairQueue, and adaptation.ts).     *)
(*                                                                         *)
(* Requests with a cost ask for a lease.  The controller grants it within  *)
(* an adaptive limit, queues the request (in one fair queue or in a lane   *)
(* per tenant) until a deadline, or rejects it.  In shadow mode it grants  *)
(* everything and keeps a virtual budget and queue of what it would have   *)
(* done; in off mode it keeps no account, so that acquire changes nothing. *)
(*                                                                         *)
(* The controller is one object whose methods run to completion, so its    *)
(* state is one record c and each method an operator on it; dispatch loops *)
(* are folds.  phase[r] is what the caller of acquire sees; a request that *)
(* was rejected may come again.                                            *)
(*                                                                         *)
(* Time is modelled by what it decides: due, the deadlines that have       *)
(* passed; the order of arrival and of lane use; and, at the end of a      *)
(* window, the utilization class and whether the latency gradient is       *)
(* steep, both free except that a window without a lease is idle and one   *)
(* without a completion has no latency sample.                             *)
(***************************************************************************)
EXTENDS FairQueue

CONSTANTS
    Configs,        \* what updateConfig may be given
    FirstConfigs,   \* what the controller may be created with
    TenantKey,      \* tenantKey of each request
    DefaultTenant,  \* "_default", which never gets a lane
    ExistingTenant, \* "_existing", of leases queued by rebuildVirtualState
    MaxLanes,       \* ADMISSION_LANE_MAX_SESSIONS
    IncreaseStep    \* min(increaseStep, maxIncreasePerWindow)

ASSUME ConfigsValid ==
    \A f \in Configs \cup FirstConfigs :
        /\ f.mode \in {"off", "shadow", "enforce"}
        /\ {f.min, f.max, f.initial, f.count, f.cost} \subseteq Nat \ {0}
        /\ f.min <= f.max
        /\ f.lanes \in BOOLEAN
ASSUME TenantsValid ==
    /\ TenantKey \in [Requests -> Tenants]
    /\ {DefaultTenant, ExistingTenant} \subseteq Tenants
ASSUME MaxLanesPositive == MaxLanes \in Nat \ {0}
ASSUME IncreaseStepPositive == IncreaseStep \in Nat \ {0}

VARIABLE c
vars == <<c>>

Dispositions == {"none", "active", "queued", "rejected"}
Phases == {"idle", "waiting", "held"}

(* Mutant: the limit is kept above the minimum only.                       *)
ClampBelow(n, f) == Max({f.min, n})

(* clampLimit.                                                             *)
Clamp(n, f) == Min({f.max, Max({f.min, n})})
Decreased(n) == (n * 4) \div 5         \* decreaseFactor 0.8
CriticallyDecreased(n) == n \div 2     \* criticalDecreaseFactor 0.5

Fresh(f) ==
    [cfg |-> f, shut |-> FALSE,   \* pressure: 1 normal, 2 high, 3 critical
     limit |-> Clamp(f.initial, f), ceiling |-> Clamp(f.initial, f),
     pressure |-> 1, consumed |-> FALSE, frozen |-> FALSE,
     completed |-> FALSE, loaded |-> FALSE,
     leases |-> <<>>, spent |-> 0,
     queue |-> Empty, arrived |-> <<>>, due |-> {},
     lane |-> [t \in Tenants |-> <<>>], lanes |-> <<>>, recent |-> <<>>,
     disp |-> [r \in Requests |-> "none"], vqueue |-> Empty, vcost |-> 0,
     phase |-> [r \in Requests |-> "idle"]]

Init == \E f \in FirstConfigs : c = Fresh(f)

Without(s, x) == RemoveFirst(s, x)
Enforcing(d) == ~d.shut /\ d.cfg.mode = "enforce"
Room(d) == d.limit - d.spent
LaneWaiters(d) == UNION {ToSet(d.lane[t]) : t \in Tenants}
Waiters(d) == Members(d.queue) \union LaneWaiters(d)

-----------------------------------------------------------------------------
(* Leases and answers.                                                     *)

(* admit.                                                                  *)
Admit(d, r) ==
    [d EXCEPT !.leases = Append(@, r), !.spent = @ + Cost[r],
              !.loaded = TRUE, !.phase[r] = "held"]

(* What a queued request gets once it has left its queue with capacity.    *)
Settle(d, r) ==
    LET out == [d EXCEPT !.due = @ \ {r}, !.arrived = Without(@, r)]
    IN  IF r \in d.due THEN [out EXCEPT !.phase[r] = "idle"] ELSE Admit(out, r)

(* Rejection of a request that has left its queue.                         *)
Fail(d, r) ==
    [d EXCEPT !.due = @ \ {r}, !.arrived = Without(@, r), !.phase[r] = "idle"]

-----------------------------------------------------------------------------
(* Lanes: a tenant's lane is a queue with one bucket.  lanes is the order  *)
(* of the Map, recent that of lastUsedMs.                                  *)

(* Mutant: a lane is dropped without telling its requests.                 *)
DeleteLaneSilently(d, t) ==
    [d EXCEPT !.lane[t] = <<>>, !.lanes = Without(@, t), !.recent = Without(@, t)]

(* deleteLane.                                                             *)
DeleteLane(d, t) ==
    FoldLeft(Fail,
             [d EXCEPT !.lane[t] = <<>>, !.lanes = Without(@, t),
                       !.recent = Without(@, t)],
             d.lane[t])

(* removeEmptyLane.                                                        *)
RemoveEmptyLane(d, t) == IF d.lane[t] = <<>> THEN DeleteLane(d, t) ELSE d

(* getOrCreateLane: the least recently used lane makes place for a new one.*)
GetLane(d, t) ==
    LET new == t \notin ToSet(d.lanes)
        e == IF new /\ Len(d.lanes) >= MaxLanes
             THEN DeleteLane(d, Head(d.recent)) ELSE d
    IN  [e EXCEPT !.lanes = IF new THEN Append(@, t) ELSE @,
                  !.recent = Append(Without(@, t), t)]

LaneAccepts(d, t, r) ==
    /\ Len(d.lane[t]) < d.cfg.count
    /\ Cost[r] <= d.cfg.cost - TotalCost(ToSet(d.lane[t]))

(* One round of dispatchLanes for one lane: heads that fit leave it until  *)
(* one of them is in time.                                                 *)
ServeLane(d, t) ==
    LET line == d.lane[t]
        fits(k) == Cost[line[k]] <= Room(d)
        late == {k \in DOMAIN line : \A j \in 1..k : fits(j) /\ line[j] \in d.due}
        next == Cardinality(late) + 1
        gone == IF next <= Len(line) /\ fits(next) THEN next ELSE next - 1
        left == FoldLeft(Settle, [d EXCEPT !.lane[t] = SubSeq(line, gone + 1, Len(line))],
                         SubSeq(line, 1, gone))
    IN  IF Room(d) <= 0 THEN d ELSE RemoveEmptyLane(left, t)

DispatchLanes(d) == FoldLeft(ServeLane, d, d.lanes)

-----------------------------------------------------------------------------
(* The shared queue.                                                       *)

DispatchOne(d, any) ==
    LET turns == Turns(d.queue, Room(d), d.arrived)
        i == CHOOSE k \in turns : TRUE
        r == HeadAt(d.queue, i)
    IN  IF Room(d) <= 0 \/ turns = {} THEN d
        ELSE Settle([d EXCEPT !.queue = Taken(d.queue, i)], r)

(* dispatch: the lanes' turn comes when the shared queue is empty.         *)
Dispatch(d) ==
    LET e == FoldLeft(DispatchOne, d, SetToSeq(Members(d.queue)))
    IN  IF ~Enforcing(d) THEN d
        ELSE IF Members(e.queue) = {} THEN DispatchLanes(e) ELSE e

(* The virtual queue of shadow mode.                                       *)
DispatchVirtualOne(d, any) ==
    LET room == d.limit - d.vcost
        turns == Turns(d.vqueue, room, d.arrived)
        i == CHOOSE k \in turns : TRUE
        r == HeadAt(d.vqueue, i)
    IN  IF room <= 0 \/ turns = {} THEN d
        ELSE [d EXCEPT !.vqueue = Taken(d.vqueue, i), !.arrived = Without(@, r),
                       !.disp[r] = "active", !.vcost = @ + Cost[r]]

DispatchVirtual(d) == FoldLeft(DispatchVirtualOne, d, SetToSeq(Members(d.vqueue)))

VirtuallyQueued(d, r, t) ==
    [d EXCEPT !.vqueue = Enqueue(d.vqueue, r, t), !.arrived = Append(@, r),
              !.disp[r] = "queued"]

-----------------------------------------------------------------------------
(* Asking.  A request that acquire rejects at once, for its size or for a  *)
(* full queue, changes nothing but a counter, and neither does one that    *)
(* is not patient (a combo target's probe, whose maxWaitMs of 0 makes      *)
(* enqueue throw) and would have to wait.                                  *)

Ask(r, mode) == ~c.shut /\ c.phase[r] = "idle" /\ c.cfg.mode = mode

(* shouldAdmitSolo.                                                        *)
AcquireSolo(r) ==
    /\ Ask(r, "enforce")
    /\ Cost[r] > c.limit /\ Cost[r] <= c.cfg.max
    /\ c.leases = <<>> /\ Waiters(c) = {} /\ c.pressure = 1
    /\ c' = Admit(c, r)

(* Mutant: a request is compared with the limit and not with what is left. *)
AcquireNowBlind(r) ==
    /\ Ask(r, "enforce")
    /\ Cost[r] <= c.limit /\ Members(c.queue) = {}
    /\ c' = Admit(c, r)

(* Mutant: what fits is admitted, whoever waits.                           *)
AcquireNowUnqueued(r) ==
    /\ Ask(r, "enforce")
    /\ Cost[r] <= c.limit /\ Cost[r] <= Room(c)
    /\ c' = Admit(c, r)

AcquireNow(r) ==
    /\ Ask(r, "enforce")
    /\ Cost[r] <= c.limit /\ Cost[r] <= Room(c)
    /\ Members(c.queue) = {}
    /\ c' = Admit(c, r)

MustWait(r) ==
    /\ Ask(r, "enforce")
    /\ Cost[r] <= c.limit
    /\ Members(c.queue) # {} \/ Cost[r] > Room(c)
    /\ CanAccept(c.queue, r, c.cfg.count, c.cfg.cost)

InLane(r) == c.cfg.lanes /\ TenantKey[r] # DefaultTenant

(* enqueue dispatches before and after it arms the deadline.               *)
AcquireQueued(r) ==
    /\ MustWait(r) /\ ~InLane(r)
    /\ c' = Dispatch(Dispatch(
               [c EXCEPT !.queue = Enqueue(c.queue, r, TenantKey[r]),
                         !.arrived = Append(@, r), !.phase[r] = "waiting"]))

AcquireInLane(r) ==
    LET t == TenantKey[r]
        d == GetLane(c, t)
    IN  /\ MustWait(r) /\ InLane(r)
        /\ c' = IF LaneAccepts(d, t, r)
                THEN Dispatch(Dispatch(
                       [d EXCEPT !.lane[t] = Append(@, r), !.arrived = Append(@, r),
                                 !.phase[r] = "waiting"]))
                ELSE RemoveEmptyLane(d, t)

AcquireShadow(r) ==
    LET d == Admit(c, r) IN
    /\ Ask(r, "shadow")
    /\ c' = IF Cost[r] > c.limit THEN [d EXCEPT !.disp[r] = "rejected"]
            ELSE IF c.vcost + Cost[r] <= c.limit
                 THEN [d EXCEPT !.disp[r] = "active", !.vcost = @ + Cost[r]]
            ELSE IF CanAccept(c.vqueue, r, c.cfg.count, c.cfg.cost)
                 THEN VirtuallyQueued(d, r, TenantKey[r])
            ELSE [d EXCEPT !.disp[r] = "rejected"]

-----------------------------------------------------------------------------
(* Giving back and giving up.                                              *)

(* What a lease is in the virtual account is forgotten.                    *)
Forgotten(d, r) ==
    LET e == CASE d.disp[r] = "active" -> [d EXCEPT !.vcost = @ - Cost[r]]
               [] d.disp[r] = "queued" ->
                    [d EXCEPT !.vqueue = Removed(d.vqueue, r), !.arrived = Without(@, r)]
               [] OTHER -> d
    IN  [e EXCEPT !.disp[r] = "none"]

(* releaseVirtual.                                                         *)
VirtualReleased(d, r) == DispatchVirtual(Forgotten(d, r))

(* releaseLease; a second call of release finds the lease released.        *)
Release(r, bad) ==
    /\ r \in ToSet(c.leases)
    /\ c' = Dispatch(VirtualReleased(
               [c EXCEPT !.leases = Without(@, r), !.spent = @ - Cost[r],
                         !.completed = TRUE, !.frozen = @ \/ bad,
                         !.phase[r] = "idle"], r))

DeadlinePasses(r) ==
    /\ r \in Waiters(c) \ c.due
    /\ c' = [c EXCEPT !.due = @ \union {r}]

(* Mutant: expiry frees no place in the line for those behind.             *)
ExpireOnly(d, r) ==
    IF r \in Members(d.queue)
    THEN Fail([d EXCEPT !.queue = Removed(d.queue, r)], r)
    ELSE RemoveEmptyLane(
           Fail([d EXCEPT !.lane[TenantKey[r]] = Without(@, r)], r), TenantKey[r])

(* expireEntry.                                                            *)
Expired(d, r) ==
    Dispatch(IF r \in Members(d.queue)
             THEN Fail([d EXCEPT !.queue = Removed(d.queue, r)], r)
             ELSE RemoveEmptyLane(
                    Fail([d EXCEPT !.lane[TenantKey[r]] = Without(@, r)], r),
                    TenantKey[r]))

(* The deadline's timer, and the abort listener.                           *)
Timer(r) == r \in c.due /\ c' = Expired(c, r)
Abort(r) == r \in Waiters(c) /\ c' = Expired(c, r)

-----------------------------------------------------------------------------
(* Adaptation.                                                             *)

(* Mutant: nothing brings a collapsed limit back.                          *)
RecoveredNot(d, next) == next

(* applyIdleRecovery.                                                      *)
Recovered(d, next) ==
    IF d.pressure # 3 /\ ~d.frozen /\ ~d.completed /\ d.limit < d.ceiling
    THEN Min({d.ceiling, next + IncreaseStep})
    ELSE next

(* closeAdaptationWindow.                                                  *)
WindowClosed(d, util, steep) ==
    LET next == IF d.pressure = 3
                THEN IF d.consumed THEN d.limit ELSE CriticallyDecreased(d.limit)
                ELSE IF d.pressure = 2 \/ (d.completed /\ steep) THEN Decreased(d.limit)
                ELSE IF ~d.frozen /\ util = "high" /\ d.completed
                     THEN d.limit + IncreaseStep
                ELSE d.limit
        limit == Clamp(IF util = "low" THEN Recovered(d, next) ELSE next, d.cfg)
    IN  [d EXCEPT !.limit = limit, !.completed = FALSE, !.frozen = FALSE,
                  !.consumed = FALSE, !.pressure = 1, !.loaded = d.leases # <<>>]

(* evictIdleLanes, when the n lanes unused the longest are past their TTL. *)
LanesEvicted(d, n) == FoldLeft(DeleteLane, d, SubSeq(d.recent, 1, n))

(* What tick, which the window timer calls, may make of the state.         *)
Ticked ==
    {DispatchVirtual(Dispatch(WindowClosed(LanesEvicted(c, n), util, steep))) :
       n \in 0..Len(c.recent),
       util \in IF c.loaded THEN {"low", "mid", "high"} ELSE {"low"},
       steep \in IF c.completed THEN BOOLEAN ELSE {FALSE}}

Tick == ~c.shut /\ c.cfg.mode # "off" /\ c' \in Ticked
TickChanges == ~c.shut /\ c.cfg.mode # "off" /\ Ticked # {c}

LaneTimer == \E n \in 1..Len(c.recent) : c' = LanesEvicted(c, n)

(* observePressure.                                                        *)
ObservePressure(p) ==
    LET d == [c EXCEPT !.pressure = Max({@, p})]
    IN  /\ ~c.shut
        /\ c' = IF p = 3 /\ ~c.consumed
                THEN DispatchVirtual(Dispatch(
                       [d EXCEPT !.limit = Max({c.cfg.min, CriticallyDecreased(@)}),
                                 !.consumed = TRUE]))
                ELSE d

-----------------------------------------------------------------------------
(* Configuration and shutdown.                                             *)

Joined(s, lane, t) == s \o lane[t]

(* Everybody who waits, in the order in which drain empties the queues.    *)
Line(d) ==
    Drained(d.queue, d.arrived)
       \o FoldLeft(LAMBDA s, t : Joined(s, d.lane, t), <<>>, d.lanes)

Unqueued(d) ==
    [d EXCEPT !.queue = Empty, !.lane = [t \in Tenants |-> <<>>], !.lanes = <<>>, !.recent = <<>>]

(* Mutant: whoever does not fit the new configuration is not told.         *)
RequeuedSilently(d, r) ==
    IF d.cfg.mode # "enforce" THEN Settle([d EXCEPT !.due = @ \ {r}], r)
    ELSE IF Cost[r] > d.limit \/ ~CanAccept(d.queue, r, d.cfg.count, d.cfg.cost) THEN d
    ELSE [d EXCEPT !.queue = Enqueue(d.queue, r, TenantKey[r])]

(* What updateConfig does with a request that was waiting.                 *)
Requeued(d, r) ==
    IF d.cfg.mode # "enforce" THEN Settle([d EXCEPT !.due = @ \ {r}], r)
    ELSE IF Cost[r] > d.limit \/ ~CanAccept(d.queue, r, d.cfg.count, d.cfg.cost)
         THEN Fail(d, r)
    ELSE [d EXCEPT !.queue = Enqueue(d.queue, r, TenantKey[r])]

(* rebuildVirtualState, in the order of the leases.                        *)
VirtuallyPlaced(d, r) ==
    IF Cost[r] > d.limit THEN [d EXCEPT !.disp[r] = "rejected"]
    ELSE IF Cost[r] <= d.limit - d.vcost
         THEN [d EXCEPT !.disp[r] = "active", !.vcost = @ + Cost[r]]
    ELSE IF CanAccept(d.vqueue, r, d.cfg.count, d.cfg.cost)
         THEN VirtuallyQueued(d, r, ExistingTenant)
    ELSE [d EXCEPT !.disp[r] = "rejected"]

(* The arrivals without those of the virtual queue, which is dropped.      *)
OutOfVirtual(d) == FoldLeft(Without, d.arrived, SetToSeq(Members(d.vqueue)))

(* Mutant: the dispositions of the leases outlive the virtual queue.       *)
RebuiltKeeping(d) ==
    LET e == [d EXCEPT !.vqueue = Empty, !.vcost = 0,
                       !.arrived = OutOfVirtual(d)]
    IN  IF d.cfg.mode = "shadow" THEN FoldLeft(VirtuallyPlaced, e, d.leases) ELSE e

Rebuilt(d) ==
    LET e == [d EXCEPT !.vqueue = Empty, !.vcost = 0,
                       !.arrived = OutOfVirtual(d),
                       !.disp = [r \in Requests |-> "none"]]
    IN  IF d.cfg.mode = "shadow" THEN FoldLeft(VirtuallyPlaced, e, d.leases) ELSE e

(* updateConfig.                                                           *)
UpdateConfig(f) ==
    LET d == [Unqueued(c) EXCEPT
                !.cfg = f, !.limit = Clamp(@, f), !.ceiling = Clamp(f.initial, f),
                !.pressure = 1, !.consumed = FALSE, !.frozen = FALSE,
                !.completed = FALSE, !.loaded = c.leases # <<>>]
    IN  c' = Dispatch(Rebuilt(FoldLeft(Requeued, d, Line(c))))

Shutdown ==
    /\ ~c.shut
    /\ c' = FoldLeft(Fail, [Unqueued(c) EXCEPT !.shut = TRUE], Line(c))

-----------------------------------------------------------------------------
Next ==
    \/ \E r \in Requests :
          \/ AcquireSolo(r)
          \/ AcquireNow(r)
          \/ AcquireQueued(r)
          \/ AcquireInLane(r)
          \/ AcquireShadow(r)
          \/ DeadlinePasses(r)
          \/ Timer(r)
          \/ Abort(r)
          \/ \E bad \in BOOLEAN : Release(r, bad)
    \/ Tick
    \/ LaneTimer
    \/ \E p \in 1..3 : ObservePressure(p)
    \/ \E f \in Configs : UpdateConfig(f)
    \/ Shutdown

Spec == Init /\ [][Next]_vars

(* Deadlines pass and their timers fire; windows end.  Weak fairness, with *)
(* the enabling condition of each action written out.                      *)
TimersFire ==
    \A r \in Requests :
        /\ []<>(r \notin Waiters(c) \ c.due) \/ []<><<DeadlinePasses(r)>>_vars
        /\ []<>(r \notin c.due) \/ []<><<Timer(r)>>_vars

WindowsEnd == []<>~TickChanges \/ []<><<Tick>>_vars

FairSpec == Spec /\ TimersFire

-----------------------------------------------------------------------------
(* The types of the fields; the limit stays between the configured bounds  *)
(* (clampLimit).                                                           *)
TypeOK ==
    /\ c.cfg \in Configs \cup FirstConfigs /\ c.shut \in BOOLEAN
    /\ c.limit \in c.cfg.min..c.cfg.max /\ c.ceiling \in c.cfg.min..c.cfg.max
    /\ c.pressure \in 1..3
    /\ {c.consumed, c.frozen, c.completed, c.loaded} \subseteq BOOLEAN
    /\ c.leases \in Seq(Requests) /\ c.spent \in Nat /\ c.vcost \in Nat
    /\ c.arrived \in Seq(Requests) /\ c.due \subseteq Requests
    /\ c.lane \in [Tenants -> Seq(Requests)]
    /\ {c.lanes, c.recent} \subseteq Seq(Tenants)
    /\ c.disp \in [Requests -> Dispositions]
    /\ c.phase \in [Requests -> Phases]

(***************************************************************************)
(* The budgets add up (admit, releaseLease, releaseVirtual,                *)
(* rebuildVirtualState): the active cost is that of the leases, the        *)
(* virtual cost that of the leases counted as active, and exactly the      *)
(* leases marked as queued are in the virtual queue, whatever order of     *)
(* promotions, releases and changes of mode led here.                      *)
(***************************************************************************)
With(d) == {r \in Requests : c.disp[r] = d}

BudgetsAddUp ==
    /\ IsInjective(c.leases)
    /\ c.spent = TotalCost(ToSet(c.leases))
    /\ c.vcost = TotalCost(With("active"))
    /\ Members(c.vqueue) = With("queued")
    /\ Requests \ With("none") \subseteq ToSet(c.leases)

(***************************************************************************)
(* An open acquire is in one line once and no other (expireEntry,          *)
(* deleteLane, updateConfig, shutdown): nobody is dropped without an       *)
(* answer, answered and still queued, or queued twice.  A lane exists as   *)
(* long as somebody waits in it.                                           *)
(***************************************************************************)
WaitersAreQueued ==
    /\ {r \in Requests : c.phase[r] = "waiting"} = Waiters(c)
    /\ {r \in Requests : c.phase[r] = "held"} = ToSet(c.leases)
    /\ Members(c.queue) \intersect LaneWaiters(c) = {}
    /\ \A t \in Tenants : IsInjective(c.lane[t]) /\ IsInjective(c.queue.bucket[t])
    /\ ToSet(c.lanes) = {t \in Tenants : c.lane[t] # <<>>}
    /\ ToSet(c.recent) = ToSet(c.lanes)
    /\ c.due \subseteq Waiters(c)

(***************************************************************************)
(* In enforce mode whoever gets a lease leaves the active cost within the  *)
(* limit of that moment, or runs alone within the ceiling of the           *)
(* configuration (dispatch, acquire, shouldAdmitSolo), although the limit  *)
(* falls below what is active at any time.                                 *)
(***************************************************************************)
LeasesWithinLimit ==
    [][/\ Enforcing(c')
       /\ ~(ToSet(c'.leases) \subseteq ToSet(c.leases))
       => \/ c'.spent <= c'.limit
          \/ Len(c'.leases) = 1 /\ c'.spent <= c'.cfg.max]_vars

(***************************************************************************)
(* Capacity is not left idle (dispatch after every release, expiry, window *)
(* and change of configuration): between two calls nobody in the shared    *)
(* queue has a turn that fits, nor does anybody in the virtual queue.      *)
(***************************************************************************)
CapacityUsed ==
    /\ Enforcing(c) /\ Room(c) > 0 => Turns(c.queue, Room(c), c.arrived) = {}
    /\ c.limit > c.vcost => Turns(c.vqueue, c.limit - c.vcost, c.arrived) = {}

(***************************************************************************)
(* The comment in acquire: once work is queued a newer request joins the   *)
(* queue, so that its passing an older one is counted.  Without lanes a    *)
(* request that gets a lease in the very call in which it asks, while      *)
(* others wait, brings one of those nearer to its reservation.  With lanes *)
(* the fast path does not look at them and promises nothing of the kind.   *)
(***************************************************************************)
JumpsAreCounted ==
    [][\A r \in Requests :
          /\ Enforcing(c) /\ ~c.cfg.lanes /\ Waiters(c) # {}
          /\ c.phase[r] = "idle" /\ c'.phase[r] = "held"
          => \E w \in Waiters(c) : c'.queue.skips[w] > c.queue.skips[w]]_vars

(***************************************************************************)
(* Every acquire that waits is answered (its timer, deleteLane, shutdown,  *)
(* updateConfig).                                                          *)
(***************************************************************************)
WaiterAnswered ==
    \A r \in Requests : (c.phase[r] = "waiting") ~> (c.phase[r] # "waiting")

(***************************************************************************)
(* A collapsed limit comes back (applyIdleRecovery): if in the end nothing *)
(* is active and pressure stays normal, the limit reaches its ceiling.     *)
(***************************************************************************)
LimitRecovers ==
    <>[](c.leases = <<>> /\ c.pressure = 1 /\ ~c.shut /\ c.cfg.mode # "off")
       => []<>(c.limit >= c.ceiling)
=============================================================================
