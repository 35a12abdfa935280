------------------------- MODULE RateLimitSemaphore -------------------------
(***************************************************************************)
(* The concurrency limiter of round-robin combos, one key of               *)
(* open-sse/services/rateLimitSemaphore.ts: the sibling of the account     *)
(* semaphore without aborts, resets and cleanup timers.  A gate is deleted *)
(* the moment nobody holds a slot or waits, and its rate limit with it;    *)
(* the unblock timers capture the gate object and may outlive it.          *)
(*                                                                         *)
(* Only the holder of a slot marks the rate limit (the combo router does,  *)
(* after a transient error and before it releases).  An action is one call *)
(* or one timer callback.                                                  *)
(***************************************************************************)
EXTENDS Integers, SequencesExt

CONSTANTS
    Requests,       \* requests that may ask for a slot
    Caps,           \* values of maxConcurrency that callers pass
    Depths,         \* values of maxQueueSize that callers pass
    MaxTimers       \* bound: unblock timers pending at once

(* getGate's default, which markRateLimited falls back to.                 *)
DefaultMax == 3

(* What is assumed of them.                                                *)
LimiterConstants ==
    Caps \subseteq Nat \ {0} /\ Depths \subseteq Nat /\ MaxTimers \in Nat

VARIABLES
    running,        \* gate.running, 0 when the key has no gate
    max,            \* gate.max
    queue,          \* gate.queue
    limit,          \* gate.rateLimitedUntil: null, in the future, or in the past
    holding,        \* requests that hold a slot
    timers          \* pending unblock timers: of the gate's last mark, of
                    \* earlier marks of this gate, of gates deleted since

vars == <<running, max, queue, limit, holding, timers>>

(* The types of the gate's fields, and what the counter counts.            *)
TypeOK ==
    /\ running = Cardinality(holding)
    /\ max \in {0, DefaultMax} \cup Caps
    /\ queue \in Seq(Requests)
    /\ limit \in {"none", "future", "past"}
    /\ holding \in SUBSET Requests
    /\ timers \in [wake : 0..1, stale : 0..MaxTimers, stray : 0..MaxTimers]

Idle == Requests \ (holding \cup ToSet(queue))

Init ==
    /\ running = 0
    /\ max = 0
    /\ queue = <<>>
    /\ limit = "none"
    /\ holding = {}
    /\ timers = [wake |-> 0, stale |-> 0, stray |-> 0]

-----------------------------------------------------------------------------
(* gates.delete: the limit is forgotten, the timers t keep the dead gate.  *)
GateGone(t) ==
    /\ running' = 0
    /\ max' = 0
    /\ queue' = <<>>
    /\ limit' = "none"
    /\ timers' = [wake |-> 0, stale |-> 0, stray |-> t.wake + t.stale + t.stray]

(* Mutant: the loop compares with <= where the code has <.                 *)
LetInPast(run, lim) ==
    IF lim = "future" \/ run > max THEN 0
    ELSE IF Len(queue) <= max - run + 1 THEN Len(queue) ELSE max - run + 1

(* How many waiters the loop of drainQueue lets in.                        *)
LetIn(run, lim) ==
    IF lim = "future" \/ run >= max THEN 0
    ELSE IF Len(queue) <= max - run THEN Len(queue) ELSE max - run

(***************************************************************************)
(* drainQueue, on a gate with run slots taken by the requests in base,     *)
(* limit lim and timers t.  The loop forgets an elapsed limit if it gets   *)
(* as far as asking; an idle gate is deleted.                              *)
(***************************************************************************)
Drain(run, base, lim, t) ==
    LET n == LetIn(run, lim) IN
    /\ holding' = base \cup {queue[i] : i \in 1..n}
    /\ IF run + n = 0 /\ queue = <<>>
       THEN GateGone(t)
       ELSE /\ queue' = SubSeq(queue, n + 1, Len(queue))
            /\ running' = run + n
            /\ limit' = IF queue # <<>> /\ run < max /\ lim = "past" THEN "none" ELSE lim
            /\ max' = max
            /\ timers' = t

-----------------------------------------------------------------------------
(* acquire, by a caller whose cap is c, which getGate installs, and who    *)
(* queues at most d deep.                                                  *)
Open(c) == running < c /\ limit # "future"

TakeSlot(r, c) ==
    /\ r \in Idle
    /\ Open(c)
    /\ running' = running + 1
    /\ holding' = holding \cup {r}
    /\ max' = c
    /\ limit' = "none"
    /\ UNCHANGED <<queue, timers>>

Enqueue(r, c, d) ==
    /\ r \in Idle
    /\ ~Open(c)
    /\ Len(queue) < d
    /\ queue' = Append(queue, r)
    /\ max' = c
    /\ UNCHANGED <<running, limit, holding, timers>>

(* SEMAPHORE_QUEUE_FULL: a gate nobody uses is deleted.                    *)
RejectFull(r, c, d) ==
    /\ r \in Idle
    /\ ~Open(c)
    /\ Len(queue) >= d
    /\ IF running = 0 /\ queue = <<>>
       THEN GateGone(timers)
       ELSE max' = c /\ UNCHANGED <<running, queue, limit, timers>>
    /\ UNCHANGED holding

(* The queue timeout takes the waiter out, and deletes no gate.            *)
Timeout(r) ==
    /\ r \in ToSet(queue)
    /\ queue' = RemoveFirst(queue, r)
    /\ UNCHANGED <<running, max, limit, holding, timers>>

(* Mutant: the release gives the slot back and does not drain.             *)
ReleaseQuietly(r) ==
    /\ r \in holding
    /\ holding' = holding \ {r}
    /\ IF running = 1 /\ queue = <<>>
       THEN GateGone(timers)
       ELSE running' = running - 1 /\ UNCHANGED <<max, queue, limit, timers>>

(* The release function, once per slot.                                    *)
Release(r) ==
    /\ r \in holding
    /\ Drain(running - 1, holding \ {r}, limit, timers)

(* markRateLimited: getGate without a cap installs the default one.        *)
MarkRateLimited(r) ==
    /\ r \in holding
    /\ timers.wake + timers.stale + timers.stray < MaxTimers
    /\ max' = DefaultMax
    /\ limit' = "future"
    /\ timers' = [timers EXCEPT !.wake = 1, !.stale = @ + timers.wake]
    /\ UNCHANGED <<running, queue, holding>>

(* Time passes rateLimitedUntil.                                           *)
LimitElapses ==
    /\ limit = "future"
    /\ limit' = "past"
    /\ UNCHANGED <<running, max, queue, holding, timers>>

-----------------------------------------------------------------------------
(* An unblock timer of the gate drains only if it finds a limit to lift.   *)
Unblock(t) ==
    IF limit = "past"
    THEN Drain(running, holding, "none", t)
    ELSE timers' = t /\ UNCHANGED <<running, max, queue, limit, holding>>

(* The last mark's timer runs 50 ms after rateLimitedUntil, an earlier     *)
(* one's at any time.                                                      *)
WakeTimer ==
    /\ timers.wake = 1
    /\ limit # "future"
    /\ Unblock([timers EXCEPT !.wake = 0])

StaleTimer ==
    /\ timers.stale > 0
    /\ Unblock([timers EXCEPT !.stale = @ - 1])

(***************************************************************************)
(* The timer of a deleted gate looks at that gate's limit and then drains  *)
(* the gate the key has now, if there is one.                              *)
(***************************************************************************)
StrayTimer ==
    LET t == [timers EXCEPT !.stray = @ - 1] IN
    /\ timers.stray > 0
    /\ \/ timers' = t /\ UNCHANGED <<running, max, queue, limit, holding>>
       \/ Drain(running, holding, limit, t)

Next ==
    \/ \E r \in Requests :
          \/ Timeout(r) \/ Release(r) \/ MarkRateLimited(r)
          \/ \E c \in Caps :
                \/ TakeSlot(r, c)
                \/ \E d \in Depths : Enqueue(r, c, d) \/ RejectFull(r, c, d)
    \/ LimitElapses \/ WakeTimer \/ StaleTimer \/ StrayTimer

Spec == Init /\ [][Next]_vars

-----------------------------------------------------------------------------
(***************************************************************************)
(* Nobody is left in the queue without a wake-up to come: somebody holds a *)
(* slot and will release it, or a limit is in force whose timer is pending *)
(* and will find it.  Reads clear the limit here as in the account         *)
(* semaphore; but a read that does so lets somebody in at once, and that   *)
(* one's release drains the queue.                                         *)
(***************************************************************************)
WakeupToCome ==
    queue # <<>> => running > 0 \/ (limit # "none" /\ timers.wake = 1)

(* The limiter implements the abstract slot pool, with the cap stated last *)
(* as its limit; markRateLimited states the default.                       *)
Pool == INSTANCE SlotPool WITH
            Clients <- Requests, holders <- holding,
            waiting <- ToSet(queue), limit <- max

PoolSpec == Pool!Spec
=============================================================================
