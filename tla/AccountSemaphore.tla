-------------------------- MODULE AccountSemaphore --------------------------
(***************************************************************************)
(* The per-account concurrency limiter of the gateway, one key of          *)
(* open-sse/services/accountSemaphore.ts: a gate with a slot counter and a *)
(* FIFO queue, created on demand and deleted when idle; a temporary block  *)
(* after a quota error; waiters that time out or are aborted; an operator  *)
(* reset.  The gate is found by key each time it is used, so a callback    *)
(* may meet another gate than the one it was created for.                  *)
(*                                                                         *)
(* Node runs one callback at a time: an action is one call or one timer    *)
(* callback.  Wall-clock time appears only where the code reads it, as the *)
(* step from an "active" block to an "elapsed" one.                        *)
(***************************************************************************)
EXTENDS Integers, FiniteSets, Sequences, SequencesExt

CONSTANTS
    Requests,       \* request attempts that may ask for the slot
    Caps,           \* values of the connection's maxConcurrency, 0 = no limit
    MaxQueue,       \* maxQueueSize
    MaxTimers,      \* bound: superseded unblock timers pending at once
    MaxResets       \* bound: operator resets

ASSUME RequestsFinite == IsFiniteSet(Requests)
ASSUME CapsNat == Caps \subseteq Nat
ASSUME BoundsNat == MaxQueue \in Nat /\ MaxTimers \in Nat /\ MaxResets \in Nat

VARIABLES
    live,           \* the key has a gate in the map
    running,        \* gate.running
    cap,            \* gate.maxConcurrency
    queue,          \* gate.queue, the requests in order
    block,          \* gate.blockedUntil: null, in the future, or in the past
    cleanup,        \* gate.cleanupTimer is set
    status,         \* where each request stands
    armed,          \* requests whose queue timeout is armed
    wake,           \* the unblock timer of the last markBlocked is pending
    stale,          \* number of pending unblock timers of earlier markBlocked
    resets          \* operator resets so far

gateVars == <<live, running, cap, queue, block, cleanup>>
timerVars == <<wake, stale>>
vars == <<gateVars, status, armed, timerVars, resets>>

Status == {"idle", "queued", "holding", "released", "bypass"}

(* The types of the gate's fields and of the requests' states; running     *)
(* stays natural whatever is released (createReleaseFn).                   *)
TypeOK ==
    /\ live \in BOOLEAN
    /\ running \in Nat
    /\ cap \in Nat
    /\ queue \in Seq(Requests)
    /\ block \in {"none", "active", "elapsed"}
    /\ cleanup \in BOOLEAN
    /\ status \in [Requests -> Status]
    /\ armed \in SUBSET Requests
    /\ wake \in BOOLEAN
    /\ stale \in Nat
    /\ resets \in 0..MaxResets

In(st) == {r \in Requests : status[r] = st}
Holders == In("holding")

Init ==
    /\ live = FALSE
    /\ running = 0
    /\ cap = 0
    /\ queue = <<>>
    /\ block = "none"
    /\ cleanup = FALSE
    /\ status = [r \in Requests |-> "idle"]
    /\ armed = {}
    /\ wake = FALSE
    /\ stale = 0
    /\ resets = 0

-----------------------------------------------------------------------------
(* The gate.                                                               *)

GateGone ==
    /\ live' = FALSE
    /\ running' = 0
    /\ cap' = 0
    /\ queue' = <<>>
    /\ block' = "none"
    /\ cleanup' = FALSE

(***************************************************************************)
(* ensureGate and the clearCleanupTimer that follows it: a gate is created *)
(* if there is none, and the cap is overwritten with the caller's.         *)
(***************************************************************************)
EnsureGate(c) ==
    /\ live' = TRUE
    /\ cap' = c
    /\ cleanup' = FALSE

(* Mutant: the loop compares with <= where the code has <.                 *)
DrainCountPast(q, run, blk) ==
    IF blk = "active" \/ run > cap THEN 0
    ELSE IF Len(q) <= cap - run + 1 THEN Len(q) ELSE cap - run + 1

(***************************************************************************)
(* How many waiters drainQueue lets in from a gate with the given fields.  *)
(***************************************************************************)
DrainCount(q, run, blk) ==
    IF blk = "active" \/ run >= cap THEN 0
    ELSE IF Len(q) <= cap - run THEN Len(q) ELSE cap - run

(***************************************************************************)
(* drainQueue on a gate that now has run slots taken and block blk.  A     *)
(* waiter that is let in loses its timeout.  isBlocked forgets an elapsed  *)
(* block, but only when the loop condition gets as far as calling it.      *)
(* base is the status of all requests before the drain.                    *)
(***************************************************************************)
Drain(run, blk, base) ==
    LET n == DrainCount(queue, run, blk)
        in == {queue[i] : i \in 1..n}
    IN  /\ queue' = SubSeq(queue, n + 1, Len(queue))
        /\ running' = run + n
        /\ block' = IF queue # <<>> /\ run < cap /\ blk = "elapsed"
                    THEN "none" ELSE blk
        /\ status' = [r \in Requests |-> IF r \in in THEN "holding" ELSE base[r]]
        /\ armed' = armed \ in
        /\ cleanup' = (cleanup \/ (running' = 0 /\ queue' = <<>>))
        /\ UNCHANGED <<live, cap>>

-----------------------------------------------------------------------------
(* acquire                                                                 *)

(* Mutant: the fast path admits one request too many.                      *)
FreeSlotPast(c) == running <= c /\ block # "active"

(* A slot is free and the gate is not blocked as isBlocked sees it.        *)
FreeSlot(c) == running < c /\ block # "active"

AcquireBypassed(r) ==
    /\ status[r] = "idle"
    /\ 0 \in Caps
    /\ status' = [status EXCEPT ![r] = "bypass"]
    /\ UNCHANGED <<gateVars, armed, timerVars, resets>>

AcquireSlot(r, c) ==
    /\ status[r] = "idle"
    /\ FreeSlot(c)
    /\ EnsureGate(c)
    /\ running' = running + 1
    /\ block' = "none"
    /\ status' = [status EXCEPT ![r] = "holding"]
    /\ UNCHANGED <<queue, armed, timerVars, resets>>

Enqueue(r, c) ==
    /\ status[r] = "idle"
    /\ ~FreeSlot(c)
    /\ Len(queue) < MaxQueue
    /\ EnsureGate(c)
    /\ queue' = Append(queue, r)
    /\ status' = [status EXCEPT ![r] = "queued"]
    /\ armed' = armed \cup {r}
    /\ UNCHANGED <<running, block, timerVars, resets>>

(* SEMAPHORE_QUEUE_FULL; the caller's cap has been installed all the same. *)
RejectFull(r, c) ==
    /\ status[r] = "idle"
    /\ ~FreeSlot(c)
    /\ Len(queue) >= MaxQueue
    /\ EnsureGate(c)
    /\ UNCHANGED <<running, queue, block, status, armed, timerVars, resets>>

(***************************************************************************)
(* The two ways out of the queue without a slot, the timeout and the       *)
(* caller's abort, do the same to the gate.                                *)
(***************************************************************************)
LeaveQueue(r) ==
    /\ armed' = armed \ {r}
    /\ status' = [status EXCEPT ![r] = "idle"]
    /\ queue' = RemoveFirst(queue, r)
    /\ cleanup' = (cleanup \/ (live /\ running = 0 /\ queue' = <<>>))
    /\ UNCHANGED <<live, running, cap, block, timerVars, resets>>

Timeout(r) == r \in armed /\ LeaveQueue(r)

Abort(r) == status[r] = "queued" /\ LeaveQueue(r)

-----------------------------------------------------------------------------
(* The release function                                                    *)

(* Mutant: running is decremented without asking whether it is positive.   *)
ReleaseUnchecked(r) ==
    LET base == [status EXCEPT ![r] = "released"]
    IN  /\ status[r] = "holding"
        /\ IF live /\ queue # <<>>
           THEN Drain(running - 1, block, base)
           ELSE /\ status' = base
                /\ running' = IF live THEN running - 1 ELSE running
                /\ cleanup' = live
                /\ UNCHANGED <<live, cap, queue, block, armed>>
        /\ UNCHANGED <<timerVars, resets>>

(***************************************************************************)
(* First call.  It acts on whatever gate the key has now.                  *)
(***************************************************************************)
Release(r) ==
    LET base == [status EXCEPT ![r] = "released"]
        run == IF running > 0 THEN running - 1 ELSE 0
    IN  /\ status[r] = "holding"
        /\ IF live /\ queue # <<>>
           THEN Drain(run, block, base)
           ELSE /\ status' = base
                /\ running' = run
                /\ cleanup' = live
                /\ UNCHANGED <<live, cap, queue, block, armed>>
        /\ UNCHANGED <<timerVars, resets>>

(* Mutant: the release function does not remember that it was called.      *)
ReleaseTwice(r) ==
    /\ status[r] = "released"
    /\ running > 0
    /\ running' = running - 1
    /\ UNCHANGED <<live, cap, queue, block, cleanup, status, armed, timerVars, resets>>

(* Further calls, from a finally block, find `released` set.               *)
ReleaseAgain(r) ==
    /\ status[r] = "released"
    /\ UNCHANGED vars

(* The attempt is over; the same client may start another one.             *)
Finish(r) ==
    /\ status[r] \in {"released", "bypass"}
    /\ status' = [status EXCEPT ![r] = "idle"]
    /\ UNCHANGED <<gateVars, armed, timerVars, resets>>

-----------------------------------------------------------------------------
(* markBlocked and its timers                                              *)

MarkBlocked ==
    /\ wake => stale < MaxTimers
    /\ live' = TRUE
    /\ cap' = IF live THEN cap ELSE 1
    /\ cleanup' = FALSE
    /\ block' = "active"
    /\ wake' = TRUE
    /\ stale' = IF wake THEN stale + 1 ELSE stale
    /\ UNCHANGED <<running, queue, status, armed, resets>>

(* markBlocked with a cooldown that is not positive lifts the block.       *)
Unblock ==
    /\ live
    /\ Drain(running, "none", status)
    /\ UNCHANGED <<timerVars, resets>>

(* Time passes blockedUntil.                                               *)
BlockElapses ==
    /\ block = "active"
    /\ block' = "elapsed"
    /\ UNCHANGED <<live, running, cap, queue, cleanup, status, armed, timerVars, resets>>

(* Body of the unblock timer: it drains only if it finds a block to lift.  *)
UnblockCallback ==
    IF live /\ block = "elapsed"
    THEN Drain(running, "none", status)
    ELSE UNCHANGED <<gateVars, status, armed>>

(***************************************************************************)
(* The timer of the markBlocked that set blockedUntil runs 50 ms after it, *)
(* so never while that block is active; the timer of an earlier            *)
(* markBlocked runs at any time.                                           *)
(***************************************************************************)
WakeTimer ==
    /\ wake
    /\ block # "active"
    /\ wake' = FALSE
    /\ UnblockCallback
    /\ UNCHANGED <<stale, resets>>

StaleTimer ==
    /\ stale > 0
    /\ stale' = stale - 1
    /\ UnblockCallback
    /\ UNCHANGED <<wake, resets>>

(***************************************************************************)
(* isAccountSemaphoreFull: the combo router's read.  It changes the gate   *)
(* only when isBlocked meets an elapsed block, which it then forgets.      *)
(***************************************************************************)
ProbeFull(c) ==
    /\ live
    /\ running < c
    /\ block = "elapsed"
    /\ block' = "none"
    /\ UNCHANGED <<live, running, cap, queue, cleanup, status, armed, timerVars, resets>>

(* Mutant: the cleanup looks at the queue only.                            *)
CleanupTimerBlind ==
    /\ cleanup
    /\ IF queue # <<>> \/ block = "active"
       THEN cleanup' = FALSE /\ UNCHANGED <<live, running, cap, queue, block>>
       ELSE GateGone
    /\ UNCHANGED <<status, armed, timerVars, resets>>

(* The zero-delay cleanup timer.                                           *)
CleanupTimer ==
    /\ cleanup
    /\ IF running > 0 \/ queue # <<>> \/ block = "active"
       THEN cleanup' = FALSE /\ UNCHANGED <<live, running, cap, queue, block>>
       ELSE GateGone
    /\ UNCHANGED <<status, armed, timerVars, resets>>

(* Mutant: reset clears the waiters' timers but does not reject them.      *)
ResetSilently ==
    /\ live
    /\ resets < MaxResets
    /\ resets' = resets + 1
    /\ armed' = armed \ ToSet(queue)
    /\ GateGone
    /\ UNCHANGED <<status, timerVars>>

(* reset: waiters are rejected, the gate is dropped with its counter.      *)
Reset ==
    /\ live
    /\ resets < MaxResets
    /\ resets' = resets + 1
    /\ status' = [r \in Requests |-> IF r \in ToSet(queue) THEN "idle" ELSE status[r]]
    /\ armed' = armed \ ToSet(queue)
    /\ GateGone
    /\ UNCHANGED timerVars

-----------------------------------------------------------------------------
Next ==
    \/ \E r \in Requests :
          \/ AcquireBypassed(r) \/ Timeout(r) \/ Abort(r)
          \/ Release(r) \/ ReleaseAgain(r) \/ Finish(r)
          \/ \E c \in Caps \ {0} :
                AcquireSlot(r, c) \/ Enqueue(r, c) \/ RejectFull(r, c)
    \/ \E c \in Caps \ {0} : ProbeFull(c)
    \/ MarkBlocked \/ Unblock \/ BlockElapses
    \/ WakeTimer \/ StaleTimer \/ CleanupTimer \/ Reset

Spec == Init /\ [][Next]_vars

(* Node runs a timer that is due: the queue timeout of a waiter is.  Weak  *)
(* fairness, with the enabling condition written out.                      *)
TimersFire == \A r \in Requests : []<>(r \notin armed) \/ []<><<Timeout(r)>>_vars

FairSpec == Spec /\ TimersFire

-----------------------------------------------------------------------------
(* Properties                                                              *)

(***************************************************************************)
(* A request whose acquire() promise is open sits in the queue of the      *)
(* current gate, exactly once, with its timeout armed: whatever becomes of *)
(* the gate (drain, cleanup, reset), no waiter is left behind with nobody  *)
(* to answer it and nobody is in the queue who already has his answer.     *)
(***************************************************************************)
NoOrphanWaiter ==
    /\ ToSet(queue) = In("queued")
    /\ armed = In("queued")
    /\ IsInjective(queue)

(***************************************************************************)
(* The counter never counts a slot nobody holds, so capacity cannot leak   *)
(* away, and until an operator resets the gate it counts every slot held:  *)
(* deleting an idle gate and creating it anew loses no holder.             *)
(***************************************************************************)
SlotAccounting ==
    /\ running <= Cardinality(Holders)
    /\ resets = 0 => running = Cardinality(Holders)

(* A step that gives somebody a slot leaves the gate within its cap, also  *)
(* when a drain admits several waiters and when the cap was just lowered.  *)
GrantWithinCap ==
    [][(\E r \in Requests : status'[r] = "holding" /\ status[r] # "holding")
          => running' <= cap']_vars

(***************************************************************************)
(* The holders the counter does not know about are those a reset forgot:   *)
(* no other step increases their number, not even the late release of a    *)
(* slot that was taken from a gate which no longer exists.                 *)
(***************************************************************************)
Uncounted == Cardinality(Holders) - running

OnlyResetForgets == [][resets' = resets => Uncounted' <= Uncounted]_vars

(* Every waiter gets an answer: a slot, a timeout, an abort or a reset.    *)
GateAnswers ==
    \A r \in Requests : (status[r] = "queued") ~> (status[r] # "queued")

(* The gate implements the abstract slot pool until somebody resets it:    *)
(* every step up to the first reset is one of the pool's or a stutter.     *)
Pool == INSTANCE SlotPool WITH
            Clients <- Requests, holders <- Holders,
            waiting <- In("queued"), limit <- cap

PoolSpec == Pool!Init /\ [][resets' = 0 => Pool!Next]_(Pool!vars)

-----------------------------------------------------------------------------
(* What the module's header says of the queue                              *)

(***************************************************************************)
(* "Requests beyond the configured concurrency cap wait in a FIFO queue    *)
(* until a slot opens, the gate is unblocked, or the queue timeout         *)
(* expires": nobody is left waiting at a gate that has a free slot and is  *)
(* not blocked.                                                            *)
(***************************************************************************)
WaitsOnlyWhileClosed == queue # <<>> => running >= cap \/ block # "none"
=============================================================================
