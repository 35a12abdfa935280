--------------------------- MODULE BodyAdmission ----------------------------
(***************************************************************************)
(* The process-wide budget for heavy chat bodies: ChatAdmissionController  *)
(* (src/shared/middleware/chatBodyAdmission.ts), and the two stages that   *)
(* ask it, admitChatRequest by bytes and admitChatStructure by structure.  *)
(*                                                                         *)
(* A waiter that is woken, or whose client went away, goes on in a later   *)
(* microtask: other requests may arrive or finish before it does.  A       *)
(* deadline fires in a turn of its own, so its waiter leaves at once.      *)
(***************************************************************************)
EXTENDS Integers, FiniteSets, FiniteSetsExt, SequencesExt

CONSTANTS
    Requests,
    Keys, KeyOf,    \* session keys, and the key of each request
    Weight,         \* the bytes a request holds while it waits
    Structural,     \* requests admitted by structure: these use the headroom
    MaxHeavy,       \* maxHeavyInFlight
    MaxBytes,       \* maxQueuedBytes
    Headroom,       \* healthyHeadroom
    MaxCursor       \* bound on the cursor, which the code lets grow

BodiesWeighed ==
    /\ IsFiniteSet(Requests)
    /\ KeyOf \in [Requests -> Keys]
    /\ Weight \in [Requests -> Nat]
    /\ MaxHeavy \in Nat \ {0} /\ {MaxBytes, Headroom, MaxCursor} \subseteq Nat

VARIABLES
    stage,          \* out, parked, woken, leaving, heavy or healthy
    activeHeavy, activeHealthy,
    queuedBytes,
    waiting,        \* the waiters: #queues, #fairKeys and #fairCursor
    lost            \* history: a wake went to a waiter that no longer wanted it

bodyVars == <<stage, activeHeavy, activeHealthy, queuedBytes, waiting, lost>>

In(s) == {r \in Requests : stage[r] = s}
Waiters == In("parked") \cup In("woken") \cup In("leaving")

Nobody == [queue |-> [k \in Keys |-> <<>>], keys |-> <<>>, cursor |-> 0]

Init ==
    /\ stage = [r \in Requests |-> "out"]
    /\ activeHeavy = 0 /\ activeHealthy = 0 /\ queuedBytes = 0
    /\ waiting = Nobody
    /\ lost = FALSE

-----------------------------------------------------------------------------
(* The queues                                                              *)

(* r joins the waiters of its key, which joins the keys if it is new.      *)
Joined(q, r) ==
    LET k == KeyOf[r]
    IN  [q EXCEPT !.queue[k] = Append(@, r),
                  !.keys = IF q.queue[k] = <<>> THEN Append(@, k) ELSE @]

(* #removeFairKey: the cursor keeps its place if k was before it.          *)
KeyRemoved(q, k) ==
    LET i == CHOOSE j \in DOMAIN q.keys : q.keys[j] = k
        left == RemoveAt(q.keys, i)
    IN  [q EXCEPT !.keys = left,
                  !.cursor = IF left = <<>> THEN 0 ELSE IF i - 1 < @ THEN @ - 1 ELSE @]

(* #removeWaiter, of a waiter that may be gone already.                    *)
Without(q, r) ==
    LET k == KeyOf[r]
        left == [q EXCEPT !.queue[k] = RemoveFirst(@, r)]
    IN  IF q.queue[k] # <<>> /\ left.queue[k] = <<>> THEN KeyRemoved(left, k) ELSE left

Turn(q) == q.keys[(q.cursor % Len(q.keys)) + 1]

-----------------------------------------------------------------------------
(* acquireHeavyWithin                                                      *)

(* One round of its loop: a slot, or the end of the deadline or of the     *)
(* budget of bytes, or a place in the queue.                               *)
Try(r, bytes) ==
    \/ /\ activeHeavy < MaxHeavy
       /\ stage' = [stage EXCEPT ![r] = "heavy"]
       /\ activeHeavy' = activeHeavy + 1
       /\ lost' = (lost /\ activeHeavy' < MaxHeavy)
       /\ queuedBytes' = bytes
       /\ UNCHANGED <<activeHealthy, waiting>>
    \/ /\ activeHeavy >= MaxHeavy
       /\ stage' = [stage EXCEPT ![r] = "out"]
       /\ queuedBytes' = bytes
       /\ UNCHANGED <<activeHeavy, activeHealthy, waiting, lost>>
    \/ /\ activeHeavy >= MaxHeavy
       /\ Weight[r] = 0 \/ bytes + Weight[r] <= MaxBytes
       /\ stage' = [stage EXCEPT ![r] = "parked"]
       /\ queuedBytes' = bytes + Weight[r]
       /\ waiting' = Joined(waiting, r)
       /\ UNCHANGED <<activeHeavy, activeHealthy, lost>>

Arrive(r) == stage[r] = "out" /\ Try(r, queuedBytes)

(* admitChatStructure, when the heap is healthy: the headroom first.       *)
ArriveHealthy(r) ==
    /\ stage[r] = "out" /\ r \in Structural
    /\ activeHeavy >= MaxHeavy /\ activeHealthy < Headroom
    /\ stage' = [stage EXCEPT ![r] = "healthy"]
    /\ activeHealthy' = activeHealthy + 1
    /\ UNCHANGED <<activeHeavy, queuedBytes, waiting, lost>>

(* Mutant: the charge of a waiter that is woken stays.                     *)
UnchargedNever(r) == queuedBytes

(* The waiter has left its queue.                                          *)
Uncharged(r) == IF queuedBytes < Weight[r] THEN 0 ELSE queuedBytes - Weight[r]

Resume(r) == stage[r] = "woken" /\ Try(r, Uncharged(r))

(* The deadline of a parked waiter.                                        *)
Expire(r) ==
    /\ stage[r] = "parked"
    /\ stage' = [stage EXCEPT ![r] = "out"]
    /\ queuedBytes' = Uncharged(r)
    /\ waiting' = Without(waiting, r)
    /\ UNCHANGED <<activeHeavy, activeHealthy, lost>>

(* The client goes away: the race is over, or the next round ends at once. *)
Abort(r) ==
    /\ stage[r] \in {"parked", "woken"}
    /\ stage' = [stage EXCEPT ![r] = "leaving"]
    /\ lost' = (lost \/ stage[r] = "woken")
    /\ UNCHANGED <<activeHeavy, activeHealthy, queuedBytes, waiting>>

Leave(r) ==
    /\ stage[r] = "leaving"
    /\ stage' = [stage EXCEPT ![r] = "out"]
    /\ queuedBytes' = Uncharged(r)
    /\ waiting' = Without(waiting, r)
    /\ UNCHANGED <<activeHeavy, activeHealthy, lost>>

-----------------------------------------------------------------------------
(* The leases                                                              *)

(* Mutant: nobody is woken when the slot was not the only one in use.      *)
WakesIfLast == activeHeavy = 1

(* release() is followed by #dispatchFair.                                 *)
Wakes == TRUE

Release(r) ==
    /\ stage[r] = "heavy"
    /\ activeHeavy' = activeHeavy - 1
    /\ IF waiting.keys = <<>> \/ ~Wakes
       THEN /\ stage' = [stage EXCEPT ![r] = "out"]
            /\ UNCHANGED <<waiting, lost>>
       ELSE /\ waiting.cursor < MaxCursor
            /\ LET w == Head(waiting.queue[Turn(waiting)])
               IN  /\ waiting' = Without([waiting EXCEPT !.cursor = @ + 1], w)
                   /\ stage' = [stage EXCEPT ![r] = "out",
                                             ![w] = IF @ = "parked" THEN "woken" ELSE @]
                   /\ lost' = (lost \/ stage[w] # "parked")
    /\ UNCHANGED <<activeHealthy, queuedBytes>>

ReleaseHealthy(r) ==
    /\ stage[r] = "healthy"
    /\ stage' = [stage EXCEPT ![r] = "out"]
    /\ activeHealthy' = activeHealthy - 1
    /\ UNCHANGED <<activeHeavy, queuedBytes, waiting, lost>>

-----------------------------------------------------------------------------
Next ==
    \E r \in Requests :
       \/ Arrive(r) \/ ArriveHealthy(r) \/ Resume(r) \/ Expire(r) \/ Abort(r) \/ Leave(r)
       \/ Release(r) \/ ReleaseHealthy(r)

Spec == Init /\ [][Next]_bodyVars

-----------------------------------------------------------------------------
(* Properties                                                              *)

(* The types; the slots in use are counted and within their budgets, and   *)
(* the keys in rotation are those with waiters.                            *)
TypeOK ==
    /\ stage \in [Requests -> {"out", "parked", "woken", "leaving", "heavy", "healthy"}]
    /\ activeHeavy = Cardinality(In("heavy")) /\ activeHeavy <= MaxHeavy
    /\ activeHealthy = Cardinality(In("healthy")) /\ activeHealthy <= Headroom
    /\ queuedBytes \in Nat /\ waiting.cursor \in 0..MaxCursor /\ lost \in BOOLEAN
    /\ ToSet(waiting.keys) = {k \in Keys : waiting.queue[k] # <<>>} /\ IsInjective(waiting.keys)
    /\ \A k \in Keys : \A r \in ToSet(waiting.queue[k]) :
          KeyOf[r] = k /\ stage[r] \in {"parked", "leaving"}
    /\ \A r \in In("parked") : r \in ToSet(waiting.queue[KeyOf[r]])

(***************************************************************************)
(* A free slot is not left to nobody: while requests are parked, at least  *)
(* as many woken ones are on their way as there are slots free, although a *)
(* newcomer may take the slot first and send the woken one back to the     *)
(* queue (#dispatchFair, acquireHeavyWithin); unless a wake went to a      *)
(* waiter whose client was going away in the same turn.                    *)
(***************************************************************************)
WakesCoverSlots ==
    In("parked") # {} /\ ~lost => Cardinality(In("woken")) >= MaxHeavy - activeHeavy

(***************************************************************************)
(* The bytes charged are those of the bodies that wait, through every way  *)
(* of leaving the queue and of going back to it, and within the budget.    *)
(***************************************************************************)
BytesAddUp ==
    /\ queuedBytes = MapThenSumSet(LAMBDA r : Weight[r], Waiters)
    /\ queuedBytes <= MaxBytes

(* The heavy slots implement the abstract slot pool, with a limit that     *)
(* stays.                                                                  *)
Pool == INSTANCE SlotPool WITH
            Clients <- Requests, holders <- In("heavy"), waiting <- Waiters, limit <- MaxHeavy

PoolSpec == Pool!Spec
=============================================================================
