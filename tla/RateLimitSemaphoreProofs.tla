---------------------- MODULE RateLimitSemaphoreProofs ----------------------
(***************************************************************************)
(* Proofs about RateLimitSemaphore, for all requests, caps, queue depths   *)
(* and any number of timers.                                               *)
(***************************************************************************)
EXTENDS RateLimitSemaphore, QueueLemmas

(* What the timers may be: at most MaxTimers in all.                       *)
Timers == {t \in [wake : 0..1, stale : 0..MaxTimers, stray : 0..MaxTimers] :
              t.wake + t.stale + t.stray <= MaxTimers}

Limits == {"none", "future", "past"}

(***************************************************************************)
(* The inductive invariant.  The line is a line of distinct requests, none *)
(* of which holds a slot; whoever waits waits at a gate with a cap, so     *)
(* that a drain without a limit lets him in; and a limit always has its    *)
(* timer, because deleting the gate forgets both.                          *)
(***************************************************************************)
Line ==
    /\ queue \in Seq(Requests)
    /\ IsInjective(queue)
    /\ ToSet(queue) \cap holding = {}
    /\ queue # <<>> => max >= 1

Slots ==
    /\ holding \in SUBSET Requests
    /\ IsFiniteSet(holding)
    /\ running = Cardinality(holding)
    /\ max \in {0, DefaultMax} \cup Caps

TimersKept ==
    /\ limit \in Limits
    /\ timers \in Timers
    /\ limit # "none" => timers.wake = 1

IInv == Line /\ Slots /\ TimersKept /\ WakeupToCome

(* The assumption in the form the steps use it.                            *)
LEMMA CapsPositive ==
    ASSUME LimiterConstants
    PROVE  /\ \A c \in Caps : c \in Nat /\ c >= 1
           /\ MaxTimers \in Nat
  BY DEF LimiterConstants

(* The invariant gives the cap and the counter their types.                *)
LEMMA Numbers ==
    ASSUME LimiterConstants, IInv PROVE max \in Nat /\ running \in Nat
<1>1. max \in Nat
  BY CapsPositive DEF IInv, Slots, DefaultMax
<1>2. running \in Nat
  BY FS_CardinalityType DEF IInv, Slots
<1> QED
  BY <1>1, <1>2

-----------------------------------------------------------------------------
(***************************************************************************)
(* What a step does to the pool: one slot at most is given back, those let *)
(* in fit the cap, and one request at most joins the line.                 *)
(***************************************************************************)
Joining == ToSet(queue') \ ToSet(queue)

PoolStep ==
    \E out \in SUBSET holding, in \in SUBSET (Requests \ holding) :
        /\ \E r : out \subseteq {r}
        /\ holding' = (holding \ out) \cup in
        /\ in # {} => Cardinality(holding') <= max'
        /\ Joining \cap holding = {}
        /\ \A s, t \in Joining : s = t

(* One element fewer or more in a finite set.                              *)
LEMMA OneLess ==
    ASSUME NEW S, IsFiniteSet(S), NEW x \in S
    PROVE  IsFiniteSet(S \ {x}) /\ Cardinality(S \ {x}) = Cardinality(S) - 1
  BY FS_RemoveElement

LEMMA OneMore ==
    ASSUME NEW S, IsFiniteSet(S), NEW x, x \notin S
    PROVE  IsFiniteSet(S \cup {x}) /\ Cardinality(S \cup {x}) = Cardinality(S) + 1
  BY FS_AddElement

(* Two finite sets without a common element.                               *)
LEMMA Disjoint ==
    ASSUME NEW S, NEW T, IsFiniteSet(S), IsFiniteSet(T), S \cap T = {}
    PROVE  /\ IsFiniteSet(S \cup T)
           /\ Cardinality(S \cup T) = Cardinality(S) + Cardinality(T)
<1>1. /\ IsFiniteSet(S \cup T)
      /\ Cardinality(S \cup T)
            = Cardinality(S) + Cardinality(T) - Cardinality(S \cap T)
  BY FS_Union
<1>2. Cardinality(S \cap T) = 0
  BY FS_EmptySet
<1>3. Cardinality(S) \in Nat /\ Cardinality(T) \in Nat
  BY FS_CardinalityType
<1> QED
  BY <1>1, <1>2, <1>3

-----------------------------------------------------------------------------
(***************************************************************************)
(* The drain, by a release or a timer: it keeps the invariant and lets in  *)
(* only as many as the cap allows.                                         *)
(***************************************************************************)
LEMMA DrainStep ==
    ASSUME LimiterConstants, IInv,
           NEW base \in SUBSET holding, NEW lim \in {limit, "none"}, NEW t \in Timers,
           t.wake = timers.wake \/ lim = "none",
           Drain(Cardinality(base), base, lim, t)
    PROVE  /\ IInv'
           /\ \E in \in SUBSET ToSet(queue) :
                 /\ holding' = base \cup in
                 /\ ToSet(queue') = ToSet(queue) \ in
                 /\ in # {} => Cardinality(holding') <= max'
<1> DEFINE run == Cardinality(base)
           n == LetIn(run, lim)
           in == {queue[i] : i \in 1..n}
<1>1. IsFiniteSet(base) /\ run \in Nat
  BY FS_Subset, FS_CardinalityType DEF IInv, Slots
<1>2. /\ queue \in Seq(Requests) /\ IsInjective(queue)
      /\ max \in Nat /\ (queue # <<>> => max >= 1)
  BY Numbers DEF IInv, Line
<1>3. /\ n \in 0..Len(queue)
      /\ n > 0 => run + n <= max
      /\ n = 0 /\ queue # <<>> /\ run = 0 => lim = "future"
  BY <1>1, <1>2 DEF LetIn
<1>4. IsFiniteSet(in) /\ Cardinality(in) = n
  BY <1>2, <1>3, PrefixCardinality
<1>5. /\ SubSeq(queue, n + 1, Len(queue)) \in Seq(Requests)
      /\ ToSet(SubSeq(queue, n + 1, Len(queue))) = ToSet(queue) \ in
      /\ IsInjective(SubSeq(queue, n + 1, Len(queue)))
      /\ in \subseteq ToSet(queue)
  BY <1>2, <1>3, SuffixElements
<1>6. /\ holding' = base \cup in
      /\ IF run + n = 0 /\ queue = <<>>
         THEN GateGone(t)
         ELSE /\ queue' = SubSeq(queue, n + 1, Len(queue))
              /\ running' = run + n
              /\ limit' = IF queue # <<>> /\ run < max /\ lim = "past" THEN "none" ELSE lim
              /\ max' = max
              /\ timers' = t
  BY DEF Drain
<1> HIDE DEF run, n, in
<1>7. in \subseteq Requests /\ in \cap base = {}
  <2>1. ToSet(queue) \subseteq Requests
    BY <1>2 DEF ToSet
  <2> QED
    BY <2>1, <1>5 DEF IInv, Line
<1>8. /\ holding' \in SUBSET Requests
      /\ IsFiniteSet(holding') /\ Cardinality(holding') = run + n
  <2>1. IsFiniteSet(base \cup in) /\ Cardinality(base \cup in) = run + n
    BY <1>1, <1>4, <1>7, Disjoint DEF run
  <2> QED
    BY <2>1, <1>6, <1>7 DEF IInv, Slots
<1>9. CASE run + n = 0 /\ queue = <<>>
  <2>1. /\ running' = 0 /\ max' = 0 /\ queue' = <<>> /\ limit' = "none"
        /\ timers' = [wake |-> 0, stale |-> 0, stray |-> t.wake + t.stale + t.stray]
    BY <1>6, <1>9 DEF GateGone
  <2>2. timers' \in Timers
    <3>1. t.wake + t.stale + t.stray \in 0..MaxTimers
      BY CapsPositive DEF Timers
    <3> QED
      BY <2>1, <3>1, CapsPositive DEF Timers
  <2>3. ToSet(queue') = {} /\ ToSet(queue) = {} /\ IsInjective(queue')
    BY <2>1, <1>9 DEF ToSet, IsInjective
  <2>4. Line'
    BY <2>1, <2>3 DEF Line, ToSet, IsInjective
  <2>5. Slots' /\ TimersKept' /\ WakeupToCome'
    BY <2>1, <2>2, <1>8, <1>9 DEF Slots, TimersKept, WakeupToCome, Limits
  <2>6. in = {}
    BY <2>3, <1>5
  <2> QED
    BY <2>3, <2>4, <2>5, <2>6, <1>5, <1>6 DEF IInv
<1>10. CASE ~(run + n = 0 /\ queue = <<>>)
  <2>1. /\ queue' = SubSeq(queue, n + 1, Len(queue))
        /\ running' = run + n
        /\ limit' = IF queue # <<>> /\ run < max /\ lim = "past" THEN "none" ELSE lim
        /\ max' = max /\ timers' = t
    BY <1>6, <1>10
  <2>2. queue' # <<>> => queue # <<>>
    BY <2>1, <1>2
  <2>3. Line'
    <3>1. ToSet(queue') \cap holding' = {}
      BY <2>1, <1>5, <1>6 DEF IInv, Line
    <3>2. IsInjective(queue')
      BY <2>1, <1>5
    <3> QED
      BY <3>1, <3>2, <2>1, <2>2, <1>2, <1>5 DEF Line, ToSet, IsInjective
  <2>4. Slots'
    BY <2>1, <1>8 DEF IInv, Slots
  <2>5. limit' # "none" => lim # "none" /\ t.wake = 1
    BY <2>1 DEF IInv, TimersKept
  <2>6. TimersKept'
    BY <2>1, <2>5 DEF IInv, TimersKept, Limits
  <2>7. WakeupToCome'
    <3>1. SUFFICES ASSUME queue' # <<>>, ~(running' > 0)
                   PROVE  limit' # "none" /\ timers'.wake = 1
      BY DEF WakeupToCome
    <3>2. run = 0 /\ n = 0
      BY <3>1, <2>1, <1>1, <1>3
    <3>3. limit' = "future"
      BY <3>1, <3>2, <2>1, <2>2, <1>3
    <3> QED
      BY <3>3, <2>1, <2>5
  <2>8. in # {} => Cardinality(holding') <= max'
    <3>1. in # {} => n > 0
      BY <1>3, <1>4, FS_EmptySet
    <3> QED
      BY <3>1, <2>1, <1>3, <1>8
  <2> QED
    BY <2>1, <2>3, <2>4, <2>6, <2>7, <2>8, <1>5, <1>6 DEF IInv
<1> QED
  BY <1>9, <1>10

-----------------------------------------------------------------------------
(* The steps                                                               *)

(* The invariant is about the line, the slots and the timers only.         *)
LEMMA Unmoved ==
    ASSUME IInv, UNCHANGED vars
    PROVE  IInv'
  BY DEF IInv, Line, Slots, TimersKept, WakeupToCome, vars, ToSet, IsInjective

(* The initial state is a gate that does not exist.                        *)
LEMMA InitIInv == LimiterConstants /\ Init => IInv
<1> SUFFICES ASSUME LimiterConstants, Init PROVE IInv
  OBVIOUS
<1>1. Line
  BY DEF Init, Line, ToSet, IsInjective
<1>2. Slots
  BY FS_EmptySet DEF Init, Slots
<1>3. TimersKept
  BY CapsPositive DEF Init, TimersKept, Timers, Limits
<1>4. WakeupToCome
  BY DEF Init, WakeupToCome
<1> QED
  BY <1>1, <1>2, <1>3, <1>4 DEF IInv

(* A slot at once: the one who takes it fits the cap he states.            *)
LEMMA TakeSlotStep ==
    ASSUME LimiterConstants, IInv, NEW r \in Requests, NEW c \in Caps, TakeSlot(r, c)
    PROVE  IInv' /\ PoolStep
<1>1. /\ running < c /\ running' = running + 1 /\ holding' = holding \cup {r}
      /\ max' = c /\ limit' = "none" /\ queue' = queue /\ timers' = timers
      /\ r \notin holding /\ r \notin ToSet(queue)
  BY DEF TakeSlot, Open, Idle
<1>2. c \in Nat /\ c >= 1 /\ running \in Nat
  BY CapsPositive, Numbers
<1>3. IsFiniteSet(holding') /\ Cardinality(holding') = running + 1
  BY <1>1, OneMore DEF IInv, Slots
<1>4. Line'
  BY <1>1, <1>2 DEF IInv, Line, ToSet, IsInjective
<1>5. Slots'
  BY <1>1, <1>3 DEF IInv, Slots
<1>6. TimersKept' /\ WakeupToCome'
  BY <1>1, <1>2 DEF IInv, TimersKept, WakeupToCome, Limits
<1>7. PoolStep
  <2>1. ToSet(queue') = ToSet(queue)
    BY <1>1
  <2>2. {r} \in SUBSET (Requests \ holding) /\ holding' = (holding \ {}) \cup {r}
    BY <1>1
  <2>3. Cardinality(holding') <= max'
    BY <1>1, <1>2, <1>3
  <2>4. {} \in SUBSET holding /\ {} \subseteq {r}
    OBVIOUS
  <2> QED
    BY <2>1, <2>2, <2>3, <2>4 DEF PoolStep, Joining
<1> QED
  BY <1>4, <1>5, <1>6, <1>7 DEF IInv

(* Nobody gets or gives back a slot, and at most r joins the line.         *)
LEMMA StillPool ==
    ASSUME holding' = holding,
           Joining \cap holding = {}, \A s, t \in Joining : s = t
    PROVE  PoolStep
<1>1. {} \in SUBSET holding /\ {} \in SUBSET (Requests \ holding)
  OBVIOUS
<1>2. holding' = (holding \ {}) \cup {} /\ \E r : {} \subseteq {r}
  OBVIOUS
<1> QED
  BY <1>1, <1>2, Zenon DEF PoolStep

(* Joining the line: a slot is taken or a limit in force, so it will move. *)
LEMMA EnqueueStep ==
    ASSUME LimiterConstants, IInv, NEW r \in Requests, NEW c \in Caps,
           NEW d \in Depths, Enqueue(r, c, d)
    PROVE  IInv' /\ PoolStep
<1>1. /\ ~(running < c /\ limit # "future")
      /\ queue' = Append(queue, r) /\ max' = c
      /\ running' = running /\ limit' = limit /\ holding' = holding /\ timers' = timers
      /\ r \notin holding /\ r \notin ToSet(queue)
  BY DEF Enqueue, Open, Idle
<1>2. c \in Nat /\ c >= 1 /\ running \in Nat
  BY CapsPositive, Numbers
<1>3. /\ queue' \in Seq(Requests)
      /\ ToSet(queue') = ToSet(queue) \cup {r}
      /\ IsInjective(queue')
  BY <1>1, AppendElements DEF IInv, Line
<1>4. Line'
  BY <1>1, <1>2, <1>3 DEF IInv, Line, ToSet, IsInjective
<1>5. Slots'
  BY <1>1 DEF IInv, Slots
<1>6. TimersKept' /\ WakeupToCome'
  BY <1>1, <1>2 DEF IInv, TimersKept, WakeupToCome
<1>7. PoolStep
  BY <1>1, <1>3, StillPool DEF Joining
<1> QED
  BY <1>4, <1>5, <1>6, <1>7 DEF IInv

(* A refusal states a cap, and may drop a gate that nobody uses.           *)
LEMMA RejectFullStep ==
    ASSUME LimiterConstants, IInv, NEW r \in Requests, NEW c \in Caps,
           NEW d \in Depths, RejectFull(r, c, d)
    PROVE  IInv' /\ PoolStep
<1>1. holding' = holding /\ r \notin holding
  BY DEF RejectFull, Idle
<1>2. CASE running = 0 /\ queue = <<>>
  <2>1. /\ running' = 0 /\ max' = 0 /\ queue' = <<>> /\ limit' = "none"
        /\ timers' = [wake |-> 0, stale |-> 0,
                      stray |-> timers.wake + timers.stale + timers.stray]
    BY <1>2 DEF RejectFull, GateGone
  <2>2. timers' \in Timers
    <3>1. timers.wake + timers.stale + timers.stray \in 0..MaxTimers
      BY CapsPositive DEF IInv, TimersKept, Timers
    <3> QED
      BY <2>1, <3>1, CapsPositive DEF Timers
  <2>3. Line' /\ ToSet(queue') = {}
    BY <2>1, <1>2 DEF IInv, Line, ToSet, IsInjective
  <2>4. Slots' /\ TimersKept' /\ WakeupToCome'
    BY <2>1, <2>2, <1>1, <1>2 DEF IInv, Slots, TimersKept, WakeupToCome, Limits
  <2> QED
    BY <2>3, <2>4, <1>1, StillPool DEF IInv, Joining
<1>3. CASE ~(running = 0 /\ queue = <<>>)
  <2>1. /\ max' = c /\ queue' = queue
        /\ running' = running /\ limit' = limit /\ timers' = timers
    BY <1>3 DEF RejectFull
  <2>2. c \in Nat /\ c >= 1
    BY CapsPositive
  <2>3. Line'
    BY <1>1, <2>1, <2>2 DEF IInv, Line, ToSet, IsInjective
  <2>4. Slots' /\ TimersKept' /\ WakeupToCome'
    BY <1>1, <2>1 DEF IInv, Slots, TimersKept, WakeupToCome
  <2> QED
    BY <1>1, <2>1, <2>3, <2>4, StillPool DEF IInv, Joining
<1> QED
  BY <1>2, <1>3

(* The timeout takes one request out of the line.                          *)
LEMMA TimeoutStep ==
    ASSUME IInv, NEW r \in Requests, Timeout(r)
    PROVE  IInv' /\ PoolStep
<1>1. /\ r \in ToSet(queue) /\ queue' = RemoveFirst(queue, r)
      /\ running' = running /\ max' = max /\ limit' = limit
      /\ holding' = holding /\ timers' = timers
  BY DEF Timeout
<1>2. /\ queue' \in Seq(Requests)
      /\ ToSet(queue') = ToSet(queue) \ {r}
      /\ IsInjective(queue')
  BY <1>1, RemoveFirstElements DEF IInv, Line
<1>3. queue # <<>>
  BY <1>1 DEF ToSet
<1>4. Line'
  BY <1>1, <1>2, <1>3 DEF IInv, Line, ToSet, IsInjective
<1>5. Slots' /\ TimersKept' /\ WakeupToCome'
  BY <1>1, <1>3 DEF IInv, Slots, TimersKept, WakeupToCome
<1>6. r \notin holding
  BY <1>1 DEF IInv, Line
<1> QED
  BY <1>1, <1>2, <1>4, <1>5, <1>6, StillPool DEF IInv, Joining

(* The mark installs the default cap and arms the timer of the limit.      *)
LEMMA MarkStep ==
    ASSUME LimiterConstants, IInv, NEW r \in Requests, MarkRateLimited(r)
    PROVE  IInv' /\ holding' = holding /\ queue' = queue
<1>1. /\ timers.wake + timers.stale + timers.stray < MaxTimers
      /\ max' = DefaultMax /\ limit' = "future"
      /\ timers' = [timers EXCEPT !.wake = 1, !.stale = @ + timers.wake]
      /\ running' = running /\ queue' = queue /\ holding' = holding
      /\ r \in holding
  BY DEF MarkRateLimited
<1>2. timers \in [wake : 0..1, stale : 0..MaxTimers, stray : 0..MaxTimers]
  BY DEF IInv, TimersKept, Timers
<1>3. /\ timers' \in [wake : 0..1, stale : Int, stray : 0..MaxTimers]
      /\ timers'.wake = 1 /\ timers'.stale = timers.stale + timers.wake
      /\ timers'.stray = timers.stray
  <2> DEFINE s == timers.stale + timers.wake
  <2>1. timers.wake \in 0..1 /\ timers.stale \in 0..MaxTimers /\ timers.stray \in 0..MaxTimers
    BY <1>2
  <2>2. s \in Int /\ s = timers.stale + timers.wake
    BY <2>1, CapsPositive
  <2>3. timers' = [timers EXCEPT !.wake = 1, !.stale = s]
    BY <1>1, <1>2
  <2> HIDE DEF s
  <2>4. timers' = [wake |-> 1, stale |-> s, stray |-> timers.stray]
    BY <1>2, <2>3
  <2> QED
    BY <2>1, <2>2, <2>4
<1>4. timers' \in Timers
  <2>1. /\ timers.wake \in 0..1 /\ timers.stale \in Nat /\ timers.stray \in Nat
        /\ timers.wake + timers.stale + timers.stray + 1 <= MaxTimers
    BY <1>1, <1>2, CapsPositive
  <2>2. /\ timers.stale + timers.wake \in 0..MaxTimers
        /\ 1 + (timers.stale + timers.wake) + timers.stray <= MaxTimers
    BY <2>1, CapsPositive
  <2>3. timers' \in [wake : 0..1, stale : 0..MaxTimers, stray : 0..MaxTimers]
    BY <1>3, <2>2
  <2> QED
    BY <1>3, <2>2, <2>3 DEF Timers
<1>5. Line'
  BY <1>1 DEF IInv, Line, ToSet, IsInjective, DefaultMax
<1>6. Slots' /\ TimersKept' /\ WakeupToCome'
  BY <1>1, <1>3, <1>4 DEF IInv, Slots, TimersKept, WakeupToCome, Limits
<1> QED
  BY <1>1, <1>5, <1>6 DEF IInv

(* The limit elapses; its timer is still to come.                          *)
LEMMA LimitElapsesStep ==
    ASSUME IInv, LimitElapses
    PROVE  IInv' /\ PoolStep
<1>1. /\ limit = "future" /\ limit' = "past" /\ queue' = queue /\ timers' = timers
      /\ running' = running /\ max' = max /\ holding' = holding
  BY DEF LimitElapses
<1>2. Line'
  BY <1>1 DEF IInv, Line, ToSet, IsInjective
<1>3. Slots' /\ TimersKept' /\ WakeupToCome'
  BY <1>1 DEF IInv, Slots, TimersKept, WakeupToCome, Limits
<1> QED
  BY <1>1, <1>2, <1>3, StillPool DEF IInv, Joining

(* A drain that a timer does: nobody gives a slot back.                    *)
LEMMA TimerDrain ==
    ASSUME LimiterConstants, IInv, NEW lim \in {limit, "none"}, NEW t \in Timers,
           t.wake = timers.wake \/ lim = "none",
           Drain(running, holding, lim, t)
    PROVE  IInv' /\ PoolStep
<1>1. running = Cardinality(holding) /\ holding \subseteq Requests
  BY DEF IInv, Slots
<1>2. /\ IInv'
      /\ \E in \in SUBSET ToSet(queue) :
            /\ holding' = holding \cup in
            /\ ToSet(queue') = ToSet(queue) \ in
            /\ in # {} => Cardinality(holding') <= max'
  BY <1>1, DrainStep
<1>3. PICK in \in SUBSET ToSet(queue) :
            /\ holding' = holding \cup in
            /\ ToSet(queue') = ToSet(queue) \ in
            /\ in # {} => Cardinality(holding') <= max'
  BY <1>2
<1>4. in \in SUBSET (Requests \ holding)
  BY DEF IInv, Line, ToSet
<1>5. {} \in SUBSET holding /\ holding' = (holding \ {}) \cup in /\ \E r : {} \subseteq {r}
  BY <1>3
<1>6. Joining = {}
  BY <1>3 DEF Joining
<1> QED
  BY <1>2, <1>3, <1>4, <1>5, <1>6, Zenon DEF PoolStep

(* The release gives back one slot and drains.                             *)
LEMMA ReleaseStep ==
    ASSUME LimiterConstants, IInv, NEW r \in Requests, Release(r)
    PROVE  IInv' /\ PoolStep
<1> DEFINE base == holding \ {r}
<1>1. r \in holding /\ Drain(running - 1, base, limit, timers)
  BY DEF Release
<1>2. base \in SUBSET holding /\ running - 1 = Cardinality(base)
  BY <1>1, OneLess DEF IInv, Slots
<1>3. timers \in Timers
  BY DEF IInv, TimersKept
<1>4. /\ IInv'
      /\ \E in \in SUBSET ToSet(queue) :
            /\ holding' = base \cup in
            /\ ToSet(queue') = ToSet(queue) \ in
            /\ in # {} => Cardinality(holding') <= max'
  <2>1. Drain(Cardinality(base), base, limit, timers)
    BY <1>1, <1>2
  <2> HIDE DEF base
  <2> QED
    BY <2>1, <1>2, <1>3, DrainStep
<1>5. PICK in \in SUBSET ToSet(queue) :
            /\ holding' = base \cup in
            /\ ToSet(queue') = ToSet(queue) \ in
            /\ in # {} => Cardinality(holding') <= max'
  BY <1>4
<1>6. in \in SUBSET (Requests \ holding)
  BY DEF IInv, Line, ToSet
<1>7. {r} \in SUBSET holding /\ holding' = (holding \ {r}) \cup in /\ \E s : {r} \subseteq {s}
  BY <1>1, <1>5
<1>8. Joining = {}
  BY <1>5 DEF Joining
<1> QED
  BY <1>4, <1>5, <1>6, <1>7, <1>8, Zenon DEF PoolStep

(* The body of an unblock timer.                                           *)
LEMMA UnblockStep ==
    ASSUME LimiterConstants, IInv, NEW t \in Timers, Unblock(t),
           t.wake = timers.wake \/ limit # "future"
    PROVE  IInv' /\ PoolStep
<1>1. CASE limit = "past"
  BY <1>1, TimerDrain DEF Unblock
<1>2. CASE limit # "past"
  <2>1. /\ timers' = t /\ queue' = queue /\ limit' = limit
        /\ running' = running /\ max' = max /\ holding' = holding
    BY <1>2 DEF Unblock
  <2>2. Line'
    BY <2>1 DEF IInv, Line, ToSet, IsInjective
  <2>3. limit # "none" => t.wake = timers.wake
    BY <1>2 DEF IInv, TimersKept, Limits
  <2>4. Slots' /\ TimersKept' /\ WakeupToCome'
    BY <2>1, <2>3 DEF IInv, Slots, TimersKept, WakeupToCome
  <2> QED
    BY <2>1, <2>2, <2>4, StillPool DEF IInv, Joining
<1> QED
  BY <1>1, <1>2

(* A timer less is still a set of timers that may be.                      *)
LEMMA OneTimerLess ==
    ASSUME LimiterConstants, NEW t \in Timers
    PROVE  /\ t.wake = 1 => [t EXCEPT !.wake = 0] \in Timers
           /\ t.stale > 0 => /\ [t EXCEPT !.stale = @ - 1] \in Timers
                             /\ [t EXCEPT !.stale = @ - 1].wake = t.wake
           /\ t.stray > 0 => /\ [t EXCEPT !.stray = @ - 1] \in Timers
                             /\ [t EXCEPT !.stray = @ - 1].wake = t.wake
<1>1. /\ t \in [wake : 0..1, stale : 0..MaxTimers, stray : 0..MaxTimers]
      /\ t.wake + t.stale + t.stray <= MaxTimers
  BY DEF Timers
<1>2. t.wake \in 0..1 /\ t.stale \in 0..MaxTimers /\ t.stray \in 0..MaxTimers
  BY <1>1
<1>3. ASSUME t.wake = 1 PROVE [t EXCEPT !.wake = 0] \in Timers
  BY <1>1, <1>2, <1>3, CapsPositive DEF Timers
<1>4. ASSUME t.stale > 0 PROVE [t EXCEPT !.stale = @ - 1] \in Timers
  <2>1. t.stale - 1 \in 0..MaxTimers /\ t.wake + (t.stale - 1) + t.stray <= MaxTimers
    BY <1>1, <1>2, <1>4, CapsPositive
  <2> QED
    BY <1>1, <2>1 DEF Timers
<1>5. ASSUME t.stray > 0 PROVE [t EXCEPT !.stray = @ - 1] \in Timers
  <2>1. t.stray - 1 \in 0..MaxTimers /\ t.wake + t.stale + (t.stray - 1) <= MaxTimers
    BY <1>1, <1>2, <1>5, CapsPositive
  <2> QED
    BY <1>1, <2>1 DEF Timers
<1> QED
  BY <1>1, <1>3, <1>4, <1>5

(* The three kinds of timers.                                              *)
LEMMA TimerStep ==
    ASSUME LimiterConstants, IInv, WakeTimer \/ StaleTimer \/ StrayTimer
    PROVE  IInv' /\ PoolStep
<1>1. timers \in Timers
  BY DEF IInv, TimersKept
<1>2. CASE WakeTimer
  BY <1>1, <1>2, OneTimerLess, UnblockStep DEF WakeTimer
<1>3. CASE StaleTimer
  BY <1>1, <1>3, OneTimerLess, UnblockStep DEF StaleTimer
<1>4. CASE StrayTimer
  <2> DEFINE t == [timers EXCEPT !.stray = @ - 1]
  <2>1. /\ t \in Timers /\ t.wake = timers.wake
        /\ \/ timers' = t /\ UNCHANGED <<running, max, queue, limit, holding>>
           \/ Drain(running, holding, limit, t)
    BY <1>1, <1>4, OneTimerLess DEF StrayTimer
  <2> HIDE DEF t
  <2>2. CASE Drain(running, holding, limit, t)
    BY <2>1, <2>2, TimerDrain
  <2>3. CASE timers' = t /\ UNCHANGED <<running, max, queue, limit, holding>>
    <3>1. Line'
      BY <2>3 DEF IInv, Line, ToSet, IsInjective
    <3>2. Slots' /\ TimersKept' /\ WakeupToCome'
      BY <2>1, <2>3 DEF IInv, Slots, TimersKept, WakeupToCome
    <3> QED
      BY <2>3, <3>1, <3>2, StillPool DEF IInv, Joining
  <2> QED
    BY <2>1, <2>2, <2>3
<1> QED
  BY <1>2, <1>3, <1>4

(* Every step keeps the invariant and is one of the pool's.                *)
LEMMA NextStep == LimiterConstants /\ IInv /\ Next => IInv' /\ PoolStep
<1> SUFFICES ASSUME LimiterConstants, IInv, Next PROVE IInv' /\ PoolStep
  OBVIOUS
<1>1. CASE \E r \in Requests : Timeout(r)
  BY <1>1, TimeoutStep
<1>2. CASE \E r \in Requests : Release(r)
  BY <1>2, ReleaseStep
<1>3. CASE \E r \in Requests : MarkRateLimited(r)
  BY <1>3, MarkStep, StillPool DEF Joining
<1>4. CASE \E r \in Requests, c \in Caps : TakeSlot(r, c)
  BY <1>4, TakeSlotStep
<1>5. CASE \E r \in Requests, c \in Caps, d \in Depths : Enqueue(r, c, d)
  BY <1>5, EnqueueStep
<1>6. CASE \E r \in Requests, c \in Caps, d \in Depths : RejectFull(r, c, d)
  BY <1>6, RejectFullStep
<1>7. CASE LimitElapses
  BY <1>7, LimitElapsesStep
<1>8. CASE WakeTimer \/ StaleTimer \/ StrayTimer
  BY <1>8, TimerStep
<1> QED
  BY <1>1, <1>2, <1>3, <1>4, <1>5, <1>6, <1>7, <1>8 DEF Next

-----------------------------------------------------------------------------
(* The theorems                                                            *)

(* The invariant holds always.                                             *)
THEOREM Invariance == ASSUME LimiterConstants PROVE Spec => []IInv
<1>1. Init => IInv
  BY InitIInv
<1>2. IInv /\ [Next]_vars => IInv'
  BY NextStep, Unmoved
<1> QED
  BY <1>1, <1>2, PTL DEF Spec

(* Every variable keeps its type, and the counter counts the holders:      *)
(* deleting the gate whenever it is idle loses none (drainQueue, release). *)
THEOREM TypeCorrect == ASSUME LimiterConstants PROVE Spec => []TypeOK
<1>1. IInv => TypeOK
  BY DEF IInv, Line, Slots, TimersKept, Timers, Limits, TypeOK
<1> QED
  BY <1>1, Invariance, PTL

(* Nobody waits without a wake-up to come, whatever timers, reads and      *)
(* deletions of the gate do to the limit.                                  *)
THEOREM WaitersWake == ASSUME LimiterConstants PROVE Spec => []WakeupToCome
<1>1. IInv => WakeupToCome
  BY DEF IInv
<1> QED
  BY <1>1, Invariance, PTL

(* The limiter implements the slot pool.                                   *)
THEOREM ImplementsPool == ASSUME LimiterConstants PROVE Spec => PoolSpec
<1>0. \A S : Pool!Cardinality(S) = Cardinality(S)
  BY DEF Pool!Cardinality, Cardinality, Pool!IsFiniteSet, IsFiniteSet
<1>1. Init => Pool!Init
  BY DEF Init, Pool!Init, ToSet
<1>2. ASSUME IInv, IInv', PoolStep PROVE Pool!Next
  <2>1. PICK out \in SUBSET holding, in \in SUBSET (Requests \ holding) :
        /\ \E r : out \subseteq {r}
        /\ holding' = (holding \ out) \cup in
        /\ in # {} => Cardinality(holding') <= max'
        /\ Joining \cap holding = {}
        /\ \A s, t \in Joining : s = t
    BY <1>2 DEF PoolStep
  <2>2. ASSUME NEW S, NEW r, S \subseteq {r} PROVE Cardinality(S) <= 1
    <3>1. S = {} \/ S = {r}
      BY <2>2
    <3>2. Cardinality({}) = 0 /\ Cardinality({r}) = 1
      BY FS_EmptySet, FS_Singleton
    <3> QED
      BY <3>1, <3>2
  <2>3. Cardinality(out) <= 1
    BY <2>1, <2>2
  <2>4. Cardinality(Joining) <= 1
    <3>1. \E r : Joining \subseteq {r}
      BY <2>1
    <3> HIDE DEF Joining
    <3> QED
      BY <3>1, <2>2
  <2>5. max' \in Nat
    BY <1>2, CapsPositive DEF IInv, Slots, DefaultMax
  <2>6. ToSet(queue)' \in SUBSET (Requests \ holding') /\ ToSet(queue)' = ToSet(queue')
    BY <1>2 DEF IInv, Line, ToSet
  <2>7. Pool!Requeue
    BY <1>0, <2>1, <2>4, <2>6, Zenon DEF Pool!Requeue, Joining
  <2>8. Pool!Exchange(out, in)
    BY <1>0, <2>1, <2>3, Zenon DEF Pool!Exchange
  <2> QED
    BY <2>1, <2>5, <2>7, <2>8 DEF Pool!Next
<1>3. IInv /\ IInv' /\ [Next]_vars => [Pool!Next]_(Pool!vars)
  <2>1. UNCHANGED vars => UNCHANGED Pool!vars
    BY DEF vars, Pool!vars, ToSet
  <2> QED
    BY <1>2, <2>1, NextStep
<1> QED
  BY <1>1, <1>3, Invariance, PTL DEF Spec, PoolSpec, Pool!Spec
=============================================================================
