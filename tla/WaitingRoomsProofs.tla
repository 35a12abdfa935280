----------------------- MODULE WaitingRoomsProofs -----------------------
(***************************************************************************)
(* Proofs about the waiting rooms: first the account semaphore, for every  *)
(* set of requests, every set of caps and every value of the bounds; then  *)
(* all the places together.  Each behaves as its own specification says,   *)
(* so that the theorems of RateLimitSemaphoreProofs and AdmissionProofs    *)
(* hold of it.                                                             *)
(***************************************************************************)
EXTENDS WaitingRooms, QueueLemmas

-----------------------------------------------------------------------------
(* The drain                                                               *)

Held(base) == {r \in Requests : base[r] = "holding"}

(***************************************************************************)
(* What a drain does to the invariants: it moves n distinct waiters from   *)
(* the queue to the slots, counts n slots more, and goes no further than   *)
(* the cap.                                                                *)
(***************************************************************************)
LEMMA DrainStep ==
    ASSUME TypeOK, NoOrphanWaiter,
           NEW run \in Nat, NEW blk \in {"none", "active", "elapsed"},
           NEW base \in [Requests -> Status],
           {r \in Requests : base[r] = "queued"} = In("queued"),
           Drain(run, blk, base)
    PROVE  /\ /\ live' \in BOOLEAN /\ cap' \in Nat /\ running' \in Nat
              /\ queue' \in Seq(Requests)
              /\ block' \in {"none", "active", "elapsed"}
              /\ cleanup' \in BOOLEAN
              /\ status' \in [Requests -> Status]
              /\ armed' \in SUBSET Requests
           /\ NoOrphanWaiter'
           /\ Cardinality(Holders') = Cardinality(Held(base)) + (running' - run)
           /\ running' >= run
           /\ Holders' # Held(base) => running' <= cap'
           /\ Held(base) \subseteq Holders'
           /\ Holders' \ Held(base) \subseteq In("queued")
           /\ \A r \in Requests : status'[r] \in {base[r], "holding"}
<1> DEFINE n == DrainCount(queue, run, blk)
           in == {queue[i] : i \in 1..n}
<1>1. n \in 0..Len(queue) /\ (n > 0 => run + n <= cap)
  BY DEF DrainCount, TypeOK
<1>2. IsInjective(queue) /\ queue \in Seq(Requests)
  BY DEF NoOrphanWaiter, TypeOK
<1>3. /\ queue' = SubSeq(queue, n + 1, Len(queue))
      /\ running' = run + n
      /\ block' = IF queue # <<>> /\ run < cap /\ blk = "elapsed"
                  THEN "none" ELSE blk
      /\ status' = [r \in Requests |-> IF r \in in THEN "holding" ELSE base[r]]
      /\ armed' = armed \ in
      /\ cleanup' = (cleanup \/ (running' = 0 /\ queue' = <<>>))
      /\ live' = live /\ cap' = cap
  BY DEF Drain
<1>4. IsFiniteSet(in) /\ Cardinality(in) = n
  BY <1>1, <1>2, PrefixCardinality
<1>5. /\ SubSeq(queue, n + 1, Len(queue)) \in Seq(Requests)
      /\ ToSet(SubSeq(queue, n + 1, Len(queue))) = ToSet(queue) \ in
      /\ IsInjective(SubSeq(queue, n + 1, Len(queue)))
      /\ in \subseteq ToSet(queue)
  BY <1>1, <1>2, SuffixElements
<1> HIDE DEF n, in
<1>6. in \subseteq In("queued")
  BY <1>5 DEF NoOrphanWaiter
<1>7. status' \in [Requests -> Status]
  BY <1>3 DEF Status
<1>8. In("queued")' = In("queued") \ in
  BY <1>3, <1>6, <1>7 DEF In
<1>9. Holders' = Held(base) \cup in
  BY <1>3, <1>6, <1>7 DEF Holders, In, Held
<1>10. Held(base) \cap in = {}
  BY <1>6 DEF In, Held
<1>11. Cardinality(Holders') = Cardinality(Held(base)) + n
  <2>1. IsFiniteSet(Held(base))
    BY RequestsFinite, FS_Subset DEF Held
  <2>2. Cardinality(Held(base) \cup in)
          = Cardinality(Held(base)) + Cardinality(in) - Cardinality(Held(base) \cap in)
    BY <2>1, <1>4, FS_Union
  <2>3. Cardinality(Held(base) \cap in) = 0
    BY <1>10, FS_EmptySet
  <2>4. Cardinality(Held(base)) \in Nat
    BY <2>1, FS_CardinalityType
  <2>5. Cardinality(Holders') = Cardinality(Held(base) \cup in)
    BY <1>9
  <2>6. n \in Nat /\ Cardinality(in) = n
    BY <1>1, <1>4
  <2> HIDE DEF Holders
  <2> QED
    BY <2>2, <2>3, <2>4, <2>5, <2>6
<1>12. NoOrphanWaiter'
  <2>1. ToSet(queue)' = ToSet(queue')
    BY DEF ToSet
  <2>2. IsInjective(queue)' <=> IsInjective(queue')
    BY DEF IsInjective
  <2> QED
    BY <2>1, <2>2, <1>3, <1>5, <1>8 DEF NoOrphanWaiter
<1>13. Holders' # Held(base) => n > 0
  <2>1. n = 0 => in = {}
    BY <1>4, FS_EmptySet
  <2> QED
    BY <2>1, <1>1, <1>9
<1>14. running' \in Nat /\ running' >= run
  BY <1>1, <1>3
<1>15. /\ live' \in BOOLEAN /\ cap' \in Nat /\ cleanup' \in BOOLEAN
       /\ block' \in {"none", "active", "elapsed"}
       /\ armed' \in SUBSET Requests
       /\ queue' \in Seq(Requests)
  BY <1>3, <1>5 DEF TypeOK
<1>16. \A r \in Requests : status'[r] \in {base[r], "holding"}
  BY <1>3
<1>17. Holders' # Held(base) => running' <= cap'
  BY <1>13, <1>1, <1>3
<1> QED
  BY <1>1, <1>3, <1>6, <1>7, <1>9, <1>11, <1>12, <1>14, <1>15, <1>16, <1>17

-----------------------------------------------------------------------------
(* The inductive invariant                                                 *)

(***************************************************************************)
(* Type correctness alone is not inductive: what Timeout and Release do    *)
(* depends on the queue holding exactly the queued requests, and the slot  *)
(* count can only be kept with the queue free of holders.                  *)
(***************************************************************************)
IInv == TypeOK /\ NoOrphanWaiter /\ SlotAccounting

(* The set of holders grows and shrinks one request at a time.             *)
LEMMA HoldersCardinality ==
    ASSUME TypeOK
    PROVE  /\ IsFiniteSet(Holders)
           /\ Cardinality(Holders) \in Nat
           /\ \A r \in Requests :
                /\ r \notin Holders =>
                      Cardinality(Holders \cup {r}) = Cardinality(Holders) + 1
                /\ r \in Holders =>
                      Cardinality(Holders \ {r}) = Cardinality(Holders) - 1
<1>1. IsFiniteSet(Holders)
  BY RequestsFinite, FS_Subset DEF Holders, In
<1> QED
  BY <1>1, FS_CardinalityType, FS_AddElement, FS_RemoveElement

LEMMA InitIInv == Init => IInv
<1> SUFFICES ASSUME Init PROVE IInv
  OBVIOUS
<1>1. TypeOK
  <2>1. queue \in Seq(Requests) /\ status \in [Requests -> Status]
    BY EmptySeq DEF Init, Status
  <2>2. live \in BOOLEAN /\ cleanup \in BOOLEAN /\ wake \in BOOLEAN
    BY DEF Init
  <2>3. armed \in SUBSET Requests
    BY DEF Init
  <2>4. running \in Nat /\ cap \in Nat /\ stale \in Nat /\ resets \in 0..MaxResets
    BY BoundsNat DEF Init
  <2>5. block \in {"none", "active", "elapsed"}
    BY DEF Init
  <2> QED
    BY <2>1, <2>2, <2>3, <2>4, <2>5 DEF TypeOK
<1>2. Holders = {} /\ In("queued") = {}
  BY DEF Init, Holders, In
<1>3. NoOrphanWaiter
  BY <1>2 DEF Init, NoOrphanWaiter, ToSet, IsInjective
<1>4. SlotAccounting
  BY <1>2, FS_EmptySet DEF Init, SlotAccounting
<1> QED
  BY <1>1, <1>3, <1>4 DEF IInv

-----------------------------------------------------------------------------
(* Each action preserves the invariant                                     *)

(* A step that leaves the queue, its timers, the statuses and the count of *)
(* slots alone preserves the two safety parts.                             *)
LEMMA QuietStep ==
    ASSUME IInv, UNCHANGED <<running, queue, status, armed, resets>>
    PROVE  NoOrphanWaiter' /\ SlotAccounting'
<1>1. In("queued")' = In("queued") /\ Holders' = Holders
  BY DEF In, Holders
<1>2. NoOrphanWaiter'
  BY <1>1 DEF IInv, NoOrphanWaiter, ToSet, IsInjective
<1>3. SlotAccounting'
  BY <1>1 DEF IInv, SlotAccounting
<1> QED
  BY <1>2, <1>3

LEMMA AcquireBypassedIInv ==
    ASSUME IInv, NEW r \in Requests, AcquireBypassed(r)
    PROVE  IInv'
<1>1. TypeOK'
  BY DEF AcquireBypassed, IInv, TypeOK, gateVars, timerVars, Status
<1>2. In("queued")' = In("queued") /\ Holders' = Holders
  BY DEF AcquireBypassed, IInv, TypeOK, In, Holders
<1>3. NoOrphanWaiter'
  BY <1>2 DEF AcquireBypassed, IInv, NoOrphanWaiter, ToSet, IsInjective, gateVars
<1>4. SlotAccounting'
  BY <1>2 DEF AcquireBypassed, IInv, SlotAccounting, gateVars
<1> QED
  BY <1>1, <1>3, <1>4 DEF IInv

LEMMA FinishIInv ==
    ASSUME IInv, NEW r \in Requests, Finish(r)
    PROVE  IInv'
<1>1. TypeOK'
  BY DEF Finish, IInv, TypeOK, gateVars, timerVars, Status
<1>2. In("queued")' = In("queued") /\ Holders' = Holders
  BY DEF Finish, IInv, TypeOK, In, Holders
<1>3. NoOrphanWaiter'
  BY <1>2 DEF Finish, IInv, NoOrphanWaiter, ToSet, IsInjective, gateVars
<1>4. SlotAccounting'
  BY <1>2 DEF Finish, IInv, SlotAccounting, gateVars
<1> QED
  BY <1>1, <1>3, <1>4 DEF IInv

LEMMA AcquireSlotIInv ==
    ASSUME IInv, NEW r \in Requests, NEW c \in Caps \ {0}, AcquireSlot(r, c)
    PROVE  IInv'
<1>1. TypeOK'
  <2>1. live' \in BOOLEAN /\ cleanup' \in BOOLEAN /\ wake' \in BOOLEAN
    BY DEF AcquireSlot, EnsureGate, IInv, TypeOK, timerVars, Status
  <2>2. queue' \in Seq(Requests)
    BY CapsNat DEF AcquireSlot, EnsureGate, IInv, TypeOK, timerVars, Status
  <2>3. status' \in [Requests -> Status] /\ armed' \in SUBSET Requests
    BY CapsNat DEF AcquireSlot, EnsureGate, IInv, TypeOK, timerVars, Status
  <2>4. /\ running' \in Nat /\ cap' \in Nat /\ stale' \in Nat /\ resets' \in 0..MaxResets
        /\ block' \in {"none", "active", "elapsed"}
    BY CapsNat DEF AcquireSlot, EnsureGate, IInv, TypeOK, timerVars, Status
  <2> QED
    BY <2>1, <2>2, <2>3, <2>4 DEF TypeOK
<1>2. /\ In("queued")' = In("queued")
      /\ Holders' = Holders \cup {r}
      /\ r \notin Holders
  BY DEF AcquireSlot, IInv, TypeOK, In, Holders
<1>3. NoOrphanWaiter'
  BY <1>2 DEF AcquireSlot, IInv, NoOrphanWaiter, ToSet, IsInjective
<1>4. SlotAccounting'
  <2>1. /\ Cardinality(Holders) \in Nat
        /\ Cardinality(Holders') = Cardinality(Holders) + 1
    BY <1>2, HoldersCardinality DEF IInv
  <2> HIDE DEF Holders
  <2> QED
    BY <2>1 DEF AcquireSlot, IInv, SlotAccounting, TypeOK
<1> QED
  BY <1>1, <1>3, <1>4 DEF IInv

LEMMA EnqueueIInv ==
    ASSUME IInv, NEW r \in Requests, NEW c \in Caps \ {0}, Enqueue(r, c)
    PROVE  IInv'
<1>1. TypeOK'
  <2>1. live' \in BOOLEAN /\ cleanup' \in BOOLEAN /\ wake' \in BOOLEAN
    BY DEF Enqueue, EnsureGate, IInv, TypeOK, timerVars, Status
  <2>2. queue' \in Seq(Requests)
    BY CapsNat DEF Enqueue, EnsureGate, IInv, TypeOK, timerVars, Status
  <2>3. status' \in [Requests -> Status] /\ armed' \in SUBSET Requests
    BY CapsNat DEF Enqueue, EnsureGate, IInv, TypeOK, timerVars, Status
  <2>4. /\ running' \in Nat /\ cap' \in Nat /\ stale' \in Nat /\ resets' \in 0..MaxResets
        /\ block' \in {"none", "active", "elapsed"}
    BY CapsNat DEF Enqueue, EnsureGate, IInv, TypeOK, timerVars, Status
  <2> QED
    BY <2>1, <2>2, <2>3, <2>4 DEF TypeOK
<1>2. /\ In("queued")' = In("queued") \cup {r}
      /\ Holders' = Holders
      /\ r \notin In("queued")
  BY DEF Enqueue, IInv, TypeOK, In, Holders
<1>3. NoOrphanWaiter'
  <2>1. /\ queue \in Seq(Requests)
        /\ queue' = Append(queue, r)
        /\ armed' = armed \cup {r}
        /\ ToSet(queue) = In("queued") /\ armed = In("queued")
        /\ IsInjective(queue)
    BY DEF Enqueue, IInv, TypeOK, NoOrphanWaiter
  <2>2. /\ ToSet(queue') = ToSet(queue) \cup {r}
        /\ IsInjective(queue')
    BY <1>2, <2>1, AppendElements
  <2>3. ToSet(queue)' = ToSet(queue') /\ (IsInjective(queue)' <=> IsInjective(queue'))
    BY DEF ToSet, IsInjective
  <2> QED
    BY <1>2, <2>1, <2>2, <2>3 DEF NoOrphanWaiter
<1>4. SlotAccounting'
  BY <1>2 DEF Enqueue, IInv, SlotAccounting
<1> QED
  BY <1>1, <1>3, <1>4 DEF IInv

LEMMA RejectFullIInv ==
    ASSUME IInv, NEW r \in Requests, NEW c \in Caps \ {0}, RejectFull(r, c)
    PROVE  IInv'
<1>1. TypeOK'
  BY CapsNat DEF RejectFull, EnsureGate, IInv, TypeOK, timerVars
<1>2. UNCHANGED <<running, queue, status, armed, resets>>
  BY DEF RejectFull
<1> QED
  BY <1>1, <1>2, QuietStep DEF IInv

LEMMA LeaveQueueIInv ==
    ASSUME IInv, NEW r \in Requests, r \in In("queued"), LeaveQueue(r)
    PROVE  IInv'
<1>1. /\ queue \in Seq(Requests) /\ IsInjective(queue)
      /\ queue' = RemoveFirst(queue, r)
  BY DEF IInv, TypeOK, NoOrphanWaiter, LeaveQueue
<1>2. /\ queue' \in Seq(Requests)
      /\ ToSet(queue') = ToSet(queue) \ {r}
      /\ IsInjective(queue')
  BY <1>1, RemoveFirstElements
<1>3. TypeOK'
  BY <1>2 DEF LeaveQueue, IInv, TypeOK, timerVars, Status
<1>4. In("queued")' = In("queued") \ {r} /\ Holders' = Holders
  BY DEF LeaveQueue, IInv, TypeOK, In, Holders
<1>5. NoOrphanWaiter'
  <2>1. ToSet(queue)' = ToSet(queue') /\ (IsInjective(queue)' <=> IsInjective(queue'))
    BY DEF ToSet, IsInjective
  <2>2. armed' = armed \ {r}
    BY DEF LeaveQueue
  <2> QED
    BY <1>2, <1>4, <2>1, <2>2 DEF IInv, NoOrphanWaiter
<1>6. SlotAccounting'
  BY <1>4 DEF LeaveQueue, IInv, SlotAccounting
<1> QED
  BY <1>3, <1>5, <1>6 DEF IInv

LEMMA ReleaseIInv ==
    ASSUME IInv, NEW r \in Requests, Release(r)
    PROVE  IInv'
<1> DEFINE base == [status EXCEPT ![r] = "released"]
           run == IF running > 0 THEN running - 1 ELSE 0
<1>1. /\ base \in [Requests -> Status]
      /\ {q \in Requests : base[q] = "queued"} = In("queued")
      /\ Held(base) = Holders \ {r}
      /\ r \in Holders
  BY DEF Release, IInv, TypeOK, Status, In, Held, Holders
<1>2. run \in Nat
  BY DEF IInv, TypeOK
<1>3. /\ Cardinality(Holders) \in Nat
      /\ Cardinality(Held(base)) = Cardinality(Holders) - 1
  BY <1>1, HoldersCardinality DEF IInv
<1>4. UNCHANGED <<wake, stale, resets>>
  BY DEF Release, timerVars
<1>5. /\ run <= Cardinality(Held(base))
      /\ resets = 0 => run = Cardinality(Held(base))
  <2>1. /\ running \in Nat /\ running <= Cardinality(Holders)
        /\ resets = 0 => running = Cardinality(Holders)
    BY DEF IInv, TypeOK, SlotAccounting
  <2>2. Cardinality(Holders) >= 1
    BY <1>1, <1>3, FS_EmptySet, HoldersCardinality DEF IInv
  <2> HIDE DEF base
  <2> QED
    BY <1>3, <2>1, <2>2
<1>6. CASE live /\ queue # <<>>
  <2>1. Drain(run, block, base)
    BY <1>6 DEF Release
  <2> HIDE DEF base, run
  <2>2. block \in {"none", "active", "elapsed"} /\ TypeOK /\ NoOrphanWaiter
    BY DEF IInv, TypeOK
  <2>3. /\ TypeOK' /\ NoOrphanWaiter'
        /\ Cardinality(Holders') = Cardinality(Held(base)) + (running' - run)
        /\ running' \in Nat
    <3>1. /\ NoOrphanWaiter'
          /\ Cardinality(Holders') = Cardinality(Held(base)) + (running' - run)
          /\ live' \in BOOLEAN /\ cap' \in Nat /\ running' \in Nat
          /\ queue' \in Seq(Requests)
          /\ block' \in {"none", "active", "elapsed"}
          /\ cleanup' \in BOOLEAN
          /\ status' \in [Requests -> Status]
          /\ armed' \in SUBSET Requests
      BY <1>1, <1>2, <2>1, <2>2, DrainStep
    <3>2. TypeOK'
      BY <1>4, <2>2, <3>1 DEF TypeOK
    <3> QED
      BY <3>1, <3>2
  <2>4. SlotAccounting'
    <3> HIDE DEF Holders
    <3> QED
      BY <1>2, <1>3, <1>4, <1>5, <2>3 DEF SlotAccounting
  <2> QED
    BY <2>3, <2>4 DEF IInv
<1>7. CASE ~(live /\ queue # <<>>)
  <2>1. /\ status' = base /\ running' = run /\ cleanup' = live
        /\ UNCHANGED <<live, cap, queue, block, armed>>
    BY <1>7 DEF Release
  <2>2. TypeOK'
    BY <1>1, <1>2, <1>4, <2>1 DEF IInv, TypeOK
  <2>3. In("queued")' = In("queued") /\ Holders' = Held(base)
    BY <1>1, <2>1 DEF In, Holders, Held
  <2>4. NoOrphanWaiter'
    BY <2>1, <2>3 DEF IInv, NoOrphanWaiter, ToSet, IsInjective
  <2>5. SlotAccounting'
    BY <1>4, <1>5, <2>1, <2>3 DEF SlotAccounting
  <2> QED
    BY <2>2, <2>4, <2>5 DEF IInv
<1> QED
  BY <1>6, <1>7

(* A drain that no release caused starts from the gate as it is.           *)
LEMMA PlainDrainIInv ==
    ASSUME IInv, Drain(running, "none", status), resets' = resets,
           wake' \in BOOLEAN, stale' \in Nat
    PROVE  IInv'
<1>1. /\ running \in Nat /\ status \in [Requests -> Status]
      /\ {q \in Requests : status[q] = "queued"} = In("queued")
      /\ Held(status) = Holders
      /\ TypeOK /\ NoOrphanWaiter
  BY DEF IInv, TypeOK, In, Held, Holders
<1>2. /\ TypeOK' /\ NoOrphanWaiter'
      /\ Cardinality(Holders') = Cardinality(Holders) + (running' - running)
      /\ running' \in Nat
  BY <1>1, DrainStep DEF TypeOK
<1>3. Cardinality(Holders) \in Nat
  BY <1>1, HoldersCardinality
<1>4. SlotAccounting'
  <2> HIDE DEF Holders
  <2> QED
    BY <1>1, <1>2, <1>3 DEF SlotAccounting, IInv
<1> QED
  BY <1>2, <1>4 DEF IInv

LEMMA MarkBlockedIInv ==
    ASSUME IInv, MarkBlocked
    PROVE  IInv'
<1>1. TypeOK'
  <2>1. live' \in BOOLEAN /\ cleanup' \in BOOLEAN /\ wake' \in BOOLEAN
    BY DEF MarkBlocked, IInv, TypeOK
  <2>2. queue' \in Seq(Requests)
    BY DEF MarkBlocked, IInv, TypeOK
  <2>3. status' \in [Requests -> Status] /\ armed' \in SUBSET Requests
    BY DEF MarkBlocked, IInv, TypeOK
  <2>4. /\ running' \in Nat /\ cap' \in Nat /\ stale' \in Nat /\ resets' \in 0..MaxResets
        /\ block' \in {"none", "active", "elapsed"}
    BY DEF MarkBlocked, IInv, TypeOK
  <2> QED
    BY <2>1, <2>2, <2>3, <2>4 DEF TypeOK
<1>2. UNCHANGED <<running, queue, status, armed, resets>>
  BY DEF MarkBlocked
<1> QED
  BY <1>1, <1>2, QuietStep DEF IInv

LEMMA BlockElapsesIInv ==
    ASSUME IInv, BlockElapses
    PROVE  IInv'
<1>1. TypeOK'
  BY DEF BlockElapses, IInv, TypeOK, timerVars
<1>2. UNCHANGED <<running, queue, status, armed, resets>>
  BY DEF BlockElapses
<1> QED
  BY <1>1, <1>2, QuietStep DEF IInv

LEMMA ProbeFullIInv ==
    ASSUME IInv, NEW c \in Caps \ {0}, ProbeFull(c)
    PROVE  IInv'
<1>1. TypeOK'
  BY DEF ProbeFull, IInv, TypeOK, timerVars
<1>2. UNCHANGED <<running, queue, status, armed, resets>>
  BY DEF ProbeFull
<1> QED
  BY <1>1, <1>2, QuietStep DEF IInv

(* Both unblock timers run the same callback.                              *)
LEMMA UnblockCallbackIInv ==
    ASSUME IInv, UnblockCallback, resets' = resets,
           wake' \in BOOLEAN, stale' \in Nat
    PROVE  IInv'
<1>1. CASE live /\ block = "elapsed"
  BY <1>1, PlainDrainIInv DEF UnblockCallback
<1>2. CASE ~(live /\ block = "elapsed")
  <2>1. UNCHANGED <<gateVars, status, armed>>
    BY <1>2 DEF UnblockCallback
  <2>2. TypeOK'
    BY <2>1 DEF gateVars, IInv, TypeOK
  <2>3. UNCHANGED <<running, queue, status, armed, resets>>
    BY <2>1 DEF gateVars
  <2> QED
    BY <2>2, <2>3, QuietStep DEF IInv
<1> QED
  BY <1>1, <1>2

LEMMA CleanupTimerIInv ==
    ASSUME IInv, CleanupTimer
    PROVE  IInv'
<1>1. TypeOK'
  <2>1. live' \in BOOLEAN /\ cleanup' \in BOOLEAN /\ wake' \in BOOLEAN
    BY DEF CleanupTimer, GateGone, IInv, TypeOK, timerVars
  <2>2. queue' \in Seq(Requests)
    BY EmptySeq DEF CleanupTimer, GateGone, IInv, TypeOK, timerVars
  <2>3. status' \in [Requests -> Status] /\ armed' \in SUBSET Requests
    BY EmptySeq DEF CleanupTimer, GateGone, IInv, TypeOK, timerVars
  <2>4. /\ running' \in Nat /\ cap' \in Nat /\ stale' \in Nat /\ resets' \in 0..MaxResets
        /\ block' \in {"none", "active", "elapsed"}
    BY EmptySeq DEF CleanupTimer, GateGone, IInv, TypeOK, timerVars
  <2> QED
    BY <2>1, <2>2, <2>3, <2>4 DEF TypeOK
<1>2. UNCHANGED <<running, queue, status, armed, resets>>
  BY DEF CleanupTimer, GateGone, IInv, TypeOK
<1> QED
  BY <1>1, <1>2, QuietStep DEF IInv

LEMMA ResetIInv ==
    ASSUME IInv, Reset
    PROVE  IInv'
<1>1. TypeOK'
  <2>1. live' \in BOOLEAN /\ cleanup' \in BOOLEAN /\ wake' \in BOOLEAN
    BY DEF Reset, GateGone, IInv, TypeOK, timerVars, Status
  <2>2. queue' \in Seq(Requests)
    BY EmptySeq, BoundsNat DEF Reset, GateGone, IInv, TypeOK, timerVars, Status
  <2>3. status' \in [Requests -> Status] /\ armed' \in SUBSET Requests
    BY EmptySeq, BoundsNat DEF Reset, GateGone, IInv, TypeOK, timerVars, Status
  <2>4. /\ running' \in Nat /\ cap' \in Nat /\ stale' \in Nat /\ resets' \in 0..MaxResets
        /\ block' \in {"none", "active", "elapsed"}
    BY EmptySeq, BoundsNat DEF Reset, GateGone, IInv, TypeOK, timerVars, Status
  <2> QED
    BY <2>1, <2>2, <2>3, <2>4 DEF TypeOK
<1>2. In("queued")' = {} /\ armed' = {} /\ queue' = <<>>
  BY DEF Reset, GateGone, IInv, TypeOK, NoOrphanWaiter, In
<1>3. NoOrphanWaiter'
  BY <1>2 DEF NoOrphanWaiter, ToSet, IsInjective
<1>4. SlotAccounting'
  <2>1. Cardinality(Holders)' \in Nat
    BY <1>1, HoldersCardinality, RequestsFinite, FS_Subset, FS_CardinalityType
       DEF Holders, In
  <2>2. running' = 0 /\ resets' # 0
    BY DEF Reset, GateGone, IInv, TypeOK
  <2> HIDE DEF Holders
  <2> QED
    BY <2>1, <2>2 DEF SlotAccounting
<1> QED
  BY <1>1, <1>3, <1>4 DEF IInv

-----------------------------------------------------------------------------
(* Invariance                                                              *)

LEMMA NextIInv == IInv /\ [Next]_vars => IInv'
<1> SUFFICES ASSUME IInv, [Next]_vars PROVE IInv'
  OBVIOUS
<1>1. ASSUME NEW r \in Requests, NEW c \in Caps \ {0},
             AcquireSlot(r, c) \/ Enqueue(r, c) \/ RejectFull(r, c)
      PROVE  IInv'
  BY <1>1, AcquireSlotIInv, EnqueueIInv, RejectFullIInv
<1>2. ASSUME NEW r \in Requests,
             \/ AcquireBypassed(r) \/ Release(r) \/ Finish(r)
      PROVE  IInv'
  BY <1>2, AcquireBypassedIInv, ReleaseIInv, FinishIInv
<1>3. ASSUME NEW r \in Requests, Timeout(r) \/ Abort(r)
      PROVE  IInv'
  <2>1. r \in In("queued") /\ LeaveQueue(r)
    BY <1>3 DEF Timeout, Abort, IInv, NoOrphanWaiter, In
  <2> QED
    BY <2>1, LeaveQueueIInv
<1>4. CASE UNCHANGED vars
  <2>1. TypeOK'
    BY <1>4 DEF vars, gateVars, timerVars, IInv, TypeOK
  <2>2. UNCHANGED <<running, queue, status, armed, resets>>
    BY <1>4 DEF vars, gateVars
  <2> QED
    BY <2>1, <2>2, QuietStep DEF IInv
<1>5. ASSUME NEW r \in Requests, ReleaseAgain(r)
      PROVE  IInv'
  BY <1>4, <1>5 DEF ReleaseAgain
<1>6. CASE Unblock
  <2>1. /\ Drain(running, "none", status) /\ resets' = resets
        /\ wake' \in BOOLEAN /\ stale' \in Nat
    BY <1>6 DEF Unblock, timerVars, IInv, TypeOK
  <2> QED
    BY <2>1, PlainDrainIInv
<1>7. CASE WakeTimer
  <2>1. /\ UnblockCallback /\ resets' = resets
        /\ wake' \in BOOLEAN /\ stale' \in Nat
    BY <1>7 DEF WakeTimer, IInv, TypeOK
  <2> QED
    BY <2>1, UnblockCallbackIInv
<1>8. CASE StaleTimer
  <2>1. /\ UnblockCallback /\ resets' = resets
        /\ wake' \in BOOLEAN /\ stale' \in Nat
    BY <1>8 DEF StaleTimer, IInv, TypeOK
  <2> QED
    BY <2>1, UnblockCallbackIInv
<1>9. CASE MarkBlocked \/ BlockElapses \/ CleanupTimer \/ Reset
  BY <1>9, MarkBlockedIInv, BlockElapsesIInv, CleanupTimerIInv, ResetIInv
<1>10. ASSUME NEW c \in Caps \ {0}, ProbeFull(c) PROVE IInv'
  BY <1>10, ProbeFullIInv
<1> QED
  BY <1>1, <1>2, <1>3, <1>4, <1>5, <1>6, <1>7, <1>8, <1>9, <1>10 DEF Next

(* The inductive invariant holds in every reachable state.                 *)
THEOREM Invariance == Spec => []IInv
<1> QED
  BY InitIInv, NextIInv, PTL DEF Spec

(* All variables keep their types.                                         *)
THEOREM TypeCorrect == Spec => []TypeOK
<1>1. IInv => TypeOK
  BY DEF IInv
<1> QED
  BY <1>1, Invariance, PTL

(* Whatever becomes of the gate, an acquire() promise is open exactly for  *)
(* the requests in the current gate's queue, each with its timeout armed.  *)
THEOREM WaitersSafe == Spec => []NoOrphanWaiter
<1>1. IInv => NoOrphanWaiter
  BY DEF IInv
<1> QED
  BY <1>1, Invariance, PTL

(* The slot counter never exceeds the slots held and, until a reset,       *)
(* equals them.                                                            *)
THEOREM SlotsAccounted == Spec => []SlotAccounting
<1>1. IInv => SlotAccounting
  BY DEF IInv
<1> QED
  BY <1>1, Invariance, PTL

-----------------------------------------------------------------------------
(* What a step does to the holders                                         *)

(***************************************************************************)
(* The three facts about a step that the action properties and the         *)
(* refinement need: who joins the queue, who leaves the slots, and under   *)
(* which limit and count somebody gets one.                                *)
(***************************************************************************)
StepShape ==
    /\ \E r : In("queued")' \ In("queued") \subseteq {r}
    /\ (In("queued")' \ In("queued")) \cap Holders = {}
    /\ \E r : Holders \ Holders' \subseteq {r}
    /\ ~(Holders' \subseteq Holders) => running' <= cap'
    /\ resets' = resets =>
          Cardinality(Holders') - running' <= Cardinality(Holders) - running

(* A step that moves nobody into or out of a slot, or into the queue.      *)
LEMMA StillStep ==
    ASSUME IInv, Holders' = Holders, In("queued")' \subseteq In("queued"),
           running' = running
    PROVE  StepShape
<1>1. Cardinality(Holders) \in Nat /\ running \in Nat
  BY HoldersCardinality DEF IInv, TypeOK
<1>2. Cardinality(Holders') - running' <= Cardinality(Holders) - running
  <2>1. Cardinality(Holders') = Cardinality(Holders)
    OBVIOUS
  <2> QED
    BY <1>1, <2>1
<1> QED
  BY <1>2 DEF StepShape

(* A drain after run slots are counted and base is the status of all.      *)
LEMMA DrainShape ==
    ASSUME IInv, NEW run \in Nat, NEW blk \in {"none", "active", "elapsed"},
           NEW base \in [Requests -> Status],
           {r \in Requests : base[r] = "queued"} = In("queued"),
           NEW q, Holders \ Held(base) \subseteq {q}, Held(base) \subseteq Holders,
           Cardinality(Held(base)) - run <= Cardinality(Holders) - running,
           Drain(run, blk, base)
    PROVE  StepShape
<1>1. TypeOK /\ NoOrphanWaiter
  BY DEF IInv
<1>2. /\ Cardinality(Holders') = Cardinality(Held(base)) + (running' - run)
      /\ running' \in Nat
      /\ Holders' # Held(base) => running' <= cap'
      /\ Held(base) \subseteq Holders'
      /\ \A r \in Requests : status'[r] \in {base[r], "holding"}
  BY <1>1, DrainStep
<1>3. In("queued")' \subseteq In("queued")
  BY <1>2 DEF In
<1>4. Holders \ Holders' \subseteq {q}
  BY <1>2
<1>5. ~(Holders' \subseteq Holders) => running' <= cap'
  BY <1>2
<1>6. Cardinality(Holders) \in Nat /\ Cardinality(Held(base)) \in Nat /\ running \in Nat
  BY <1>1, HoldersCardinality, RequestsFinite, FS_Subset, FS_CardinalityType
     DEF TypeOK, Held
<1>7. Cardinality(Holders') - running' <= Cardinality(Holders) - running
  <2> HIDE DEF Held, Holders
  <2> QED
    BY <1>2, <1>6
<1> QED
  BY <1>3, <1>4, <1>5, <1>7 DEF StepShape

LEMMA PlainDrainShape ==
    ASSUME IInv, Drain(running, "none", status)
    PROVE  StepShape
<1>1. /\ running \in Nat /\ status \in [Requests -> Status]
      /\ {r \in Requests : status[r] = "queued"} = In("queued")
      /\ Held(status) = Holders
  BY DEF IInv, TypeOK, In, Held, Holders
<1>2. Held(status) \subseteq Holders /\ Holders \ Held(status) \subseteq {0}
  BY <1>1
<1>4. Cardinality(Held(status)) - running <= Cardinality(Holders) - running
  <2>1. Cardinality(Holders) \in Nat
    BY HoldersCardinality DEF IInv
  <2> QED
    BY <1>1, <2>1
<1> QED
  BY <1>1, <1>2, <1>4, DrainShape

LEMMA ReleaseShape ==
    ASSUME IInv, NEW r \in Requests, Release(r)
    PROVE  StepShape
<1> DEFINE base == [status EXCEPT ![r] = "released"]
           run == IF running > 0 THEN running - 1 ELSE 0
<1>1. /\ base \in [Requests -> Status]
      /\ {q \in Requests : base[q] = "queued"} = In("queued")
      /\ Held(base) = Holders \ {r}
      /\ r \in Holders
  BY DEF Release, IInv, TypeOK, Status, In, Held, Holders
<1>2. run \in Nat /\ running \in Nat
  BY DEF IInv, TypeOK
<1>3. /\ Cardinality(Holders) \in Nat
      /\ Cardinality(Held(base)) = Cardinality(Holders) - 1
  BY <1>1, HoldersCardinality DEF IInv
<1>4. Cardinality(Held(base)) - run <= Cardinality(Holders) - running
  <2> HIDE DEF base
  <2> QED
    BY <1>2, <1>3
<1>5. CASE live /\ queue # <<>>
  <2>1. Drain(run, block, base) /\ block \in {"none", "active", "elapsed"}
    BY <1>5 DEF Release, IInv, TypeOK
  <2> HIDE DEF base, run
  <2> QED
    BY <1>1, <1>2, <1>4, <2>1, DrainShape
<1>6. CASE ~(live /\ queue # <<>>)
  <2>1. status' = base /\ running' = run
    BY <1>6 DEF Release
  <2>2. In("queued")' = In("queued") /\ Holders' = Held(base)
    BY <1>1, <2>1 DEF In, Holders, Held
  <2>3. Cardinality(Holders') - running' <= Cardinality(Holders) - running
    BY <1>4, <2>1, <2>2
  <2> QED
    BY <1>1, <2>2, <2>3 DEF StepShape
<1> QED
  BY <1>5, <1>6

LEMMA NextShape == IInv /\ [Next]_vars => StepShape
<1> SUFFICES ASSUME IInv, [Next]_vars PROVE StepShape
  OBVIOUS
<1>1. ASSUME NEW r \in Requests, NEW c \in Caps \ {0}, AcquireSlot(r, c)
      PROVE  StepShape
  <2>1. /\ In("queued")' = In("queued")
        /\ Holders' = Holders \cup {r}
        /\ r \notin Holders
    BY <1>1 DEF AcquireSlot, IInv, TypeOK, In, Holders
  <2>2. /\ Cardinality(Holders) \in Nat
        /\ Cardinality(Holders') = Cardinality(Holders) + 1
    BY <2>1, HoldersCardinality DEF IInv
  <2>3. running \in Nat /\ running' = running + 1 /\ running' <= cap'
    BY <1>1, CapsNat DEF AcquireSlot, FreeSlot, EnsureGate, IInv, TypeOK
  <2>4. Cardinality(Holders') - running' <= Cardinality(Holders) - running
    <3> HIDE DEF Holders
    <3> QED
      BY <2>2, <2>3
  <2> QED
    BY <2>1, <2>3, <2>4 DEF StepShape
<1>2. ASSUME NEW r \in Requests, NEW c \in Caps \ {0}, Enqueue(r, c)
      PROVE  StepShape
  <2>1. /\ In("queued")' = In("queued") \cup {r}
        /\ Holders' = Holders /\ r \notin Holders /\ running' = running
    BY <1>2 DEF Enqueue, IInv, TypeOK, In, Holders
  <2>2. Cardinality(Holders) \in Nat /\ running \in Nat
    BY HoldersCardinality DEF IInv, TypeOK
  <2>3. Cardinality(Holders') - running' <= Cardinality(Holders) - running
    <3>1. Cardinality(Holders') = Cardinality(Holders)
      BY <2>1
    <3> QED
      BY <2>1, <2>2, <3>1
  <2> QED
    BY <2>1, <2>3 DEF StepShape
<1>3. ASSUME NEW c \in Caps \ {0},
             ProbeFull(c) \/ \E r \in Requests : RejectFull(r, c)
      PROVE  StepShape
  <2>1. UNCHANGED <<status, running>>
    BY <1>3 DEF RejectFull, ProbeFull
  <2> QED
    BY <2>1, StillStep DEF In, Holders
<1>4. ASSUME NEW r \in Requests, AcquireBypassed(r) \/ Finish(r)
      PROVE  StepShape
  <2>1. /\ In("queued")' = In("queued") /\ Holders' = Holders
        /\ running' = running
    BY <1>4 DEF AcquireBypassed, Finish, IInv, TypeOK, In, Holders, gateVars
  <2> QED
    BY <2>1, StillStep
<1>5. ASSUME NEW r \in Requests, Timeout(r) \/ Abort(r)
      PROVE  StepShape
  <2>1. r \in In("queued") /\ LeaveQueue(r)
    BY <1>5 DEF Timeout, Abort, IInv, NoOrphanWaiter, In
  <2>2. /\ In("queued")' \subseteq In("queued") /\ Holders' = Holders
        /\ running' = running
    BY <2>1 DEF LeaveQueue, IInv, TypeOK, In, Holders
  <2> QED
    BY <2>2, StillStep
<1>6. CASE \/ UNCHANGED vars \/ MarkBlocked \/ BlockElapses
           \/ \E r \in Requests : ReleaseAgain(r)
  <2>1. UNCHANGED <<status, running>>
    BY <1>6 DEF vars, gateVars, MarkBlocked, BlockElapses, ReleaseAgain
  <2> QED
    BY <2>1, StillStep DEF In, Holders
<1>7. CASE CleanupTimer
  <2>1. UNCHANGED <<status, running>>
    BY <1>7 DEF CleanupTimer, GateGone, IInv, TypeOK
  <2> QED
    BY <2>1, StillStep DEF In, Holders
<1>8. CASE Unblock \/ WakeTimer \/ StaleTimer
  <2>1. CASE Drain(running, "none", status)
    BY <2>1, PlainDrainShape
  <2>2. CASE UNCHANGED <<gateVars, status, armed>>
    BY <2>2, StillStep DEF In, Holders, gateVars
  <2> QED
    BY <1>8, <2>1, <2>2 DEF Unblock, WakeTimer, StaleTimer, UnblockCallback
<1>9. CASE Reset
  <2>1. /\ In("queued")' \subseteq In("queued") /\ Holders' = Holders
        /\ resets' # resets
    BY <1>9 DEF Reset, IInv, TypeOK, NoOrphanWaiter, In, Holders
  <2> QED
    BY <2>1 DEF StepShape
<1> QED
  BY <1>1, <1>2, <1>3, <1>4, <1>5, <1>6, <1>7, <1>8, <1>9, ReleaseShape DEF Next

-----------------------------------------------------------------------------
(* Action properties                                                       *)

(* No grant takes the gate over its cap, even a cap lowered a moment ago.  *)
THEOREM GrantsWithinCap == Spec => GrantWithinCap
<1>1. IInv /\ [Next]_vars =>
        [(\E r \in Requests : status'[r] = "holding" /\ status[r] # "holding")
            => running' <= cap']_vars
  <2> SUFFICES ASSUME IInv, [Next]_vars,
                      NEW r \in Requests,
                      status'[r] = "holding", status[r] # "holding"
               PROVE  running' <= cap'
    OBVIOUS
  <2>1. r \in Holders' /\ r \notin Holders
    BY DEF Holders, In
  <2> QED
    BY <2>1, NextShape DEF StepShape
<1> QED
  BY <1>1, Invariance, PTL DEF Spec, GrantWithinCap

(* Only a reset makes the gate forget holders.                             *)
THEOREM OnlyResetsForget == Spec => OnlyResetForgets
<1>1. IInv /\ [Next]_vars => [resets' = resets => Uncounted' <= Uncounted]_vars
  BY NextShape DEF StepShape, Uncounted
<1> QED
  BY <1>1, Invariance, PTL DEF Spec, OnlyResetForgets

-----------------------------------------------------------------------------
(* Refinement                                                              *)

(***************************************************************************)
(* Until an operator resets the gate, the semaphore implements the slot    *)
(* pool: the cap in force bounds all holders, because the counter the code *)
(* compares with the cap is then the number of holders.                    *)
(***************************************************************************)
THEOREM ImplementsPool == Spec => PoolSpec
<1>1. Init => Pool!Init
  BY DEF Init, Pool!Init, Holders, In
<1>2. IInv /\ IInv' /\ [Next]_vars
          => [resets' = 0 => Pool!Next]_(Pool!vars)
  <2> SUFFICES ASSUME IInv, IInv', [Next]_vars, resets' = 0
               PROVE  Pool!Next
    OBVIOUS
  <2>1. StepShape
    BY NextShape
  <2>2. cap' \in Nat /\ resets' = 0
    BY DEF IInv, TypeOK
  <2>3. running' = Cardinality(Holders')
    BY <2>2 DEF IInv, SlotAccounting
  <2>4. ASSUME NEW S, NEW r, S \subseteq {r} PROVE Cardinality(S) <= 1
    <3>1. S = {} \/ S = {r}
      BY <2>4
    <3>2. Cardinality({}) = 0 /\ Cardinality({r}) = 1
      BY FS_EmptySet, FS_Singleton
    <3> QED
      BY <3>1, <3>2
  <2>0. \A S : Pool!Cardinality(S) = Cardinality(S)
    BY DEF Pool!Cardinality, Cardinality, Pool!IsFiniteSet, IsFiniteSet
  <2>5. Pool!Requeue
    <3>1. In("queued")' \in SUBSET (Requests \ Holders')
      BY DEF In, Holders
    <3>2. Cardinality(In("queued")' \ In("queued")) <= 1
      BY <2>1, <2>4 DEF StepShape
    <3>3. (In("queued")' \ In("queued")) \cap Holders = {}
      BY <2>1 DEF StepShape
    <3> QED
      BY <2>0, <3>1, <3>2, <3>3, Zenon DEF Pool!Requeue
  <2>6. \E out \in SUBSET Holders, in \in SUBSET (Requests \ Holders) :
           Pool!Exchange(out, in)
    <3> DEFINE out == Holders \ Holders'
               in == Holders' \ Holders
    <3>1. out \in SUBSET Holders /\ in \in SUBSET (Requests \ Holders)
      BY DEF Holders, In
    <3>2. Cardinality(out) <= 1
      BY <2>1, <2>4 DEF StepShape
    <3>3. in # {} => Cardinality(Holders') <= cap'
      BY <2>1, <2>3 DEF StepShape
    <3>4. Holders' = (Holders \ out) \cup in
      OBVIOUS
    <3>5. Pool!Exchange(out, in)
      BY <2>0, <3>2, <3>3, <3>4, Zenon DEF Pool!Exchange
    <3> QED
      BY <3>1, <3>5
  <2> QED
    BY <2>2, <2>5, <2>6 DEF Pool!Next
<1> QED
  BY <1>1, <1>2, Invariance, PTL DEF Spec, PoolSpec

-----------------------------------------------------------------------------
(* Liveness                                                                *)

(***************************************************************************)
(* Every waiter gets an answer: a slot, a timeout, an abort or a reset     *)
(* (acquire).  Whoever waits has its timeout armed (NoOrphanWaiter), and   *)
(* a timeout that is armed for ever runs, which ends the wait.             *)
(***************************************************************************)
THEOREM WaitersAnswered == FairSpec => GateAnswers
<1> SUFFICES ASSUME NEW r \in Requests
             PROVE  FairSpec => ((status[r] = "queued") ~> (status[r] # "queued"))
  BY DEF GateAnswers
<1> DEFINE Queued_r == status[r] = "queued"
           Armed_r == r \in armed
<1>1. IInv => (Queued_r <=> Armed_r)
  BY DEF IInv, NoOrphanWaiter, In
<1>2. IInv /\ <<Timeout(r)>>_vars => ~Queued_r'
  BY DEF Timeout, LeaveQueue, IInv, TypeOK
<1>3. FairSpec => Spec /\ ([]<>(r \notin armed) \/ []<><<Timeout(r)>>_vars)
  BY DEF FairSpec, TimersFire
<1>4. /\ r \notin armed <=> ~Armed_r
      /\ status[r] = "queued" <=> Queued_r
      /\ status[r] # "queued" <=> ~Queued_r
  OBVIOUS
<1> HIDE DEF Queued_r, Armed_r
<1> QED
  BY <1>1, <1>2, <1>3, <1>4, Invariance, PTL

-----------------------------------------------------------------------------
(* All the places                                                          *)

(* A step of RoomsNext is a step of one place and a stutter of the others. *)
LEMMA RoomsApart ==
    RoomsSpec => /\ Spec
                 /\ Limiter!Spec
                 /\ Rounds!QueueSpec
                 /\ Doors!Spec
                 /\ Doors!Heavy!Spec
<1>1. [RoomsNext]_roomVars =>
         /\ [Next]_vars
         /\ [Limiter!Next]_(Limiter!vars)
         /\ [Rounds!QueueNext]_(Rounds!queueVars)
         /\ [Doors!Next]_(Doors!vars)
         /\ [Doors!Heavy!Next]_(Doors!Heavy!bodyVars)
  BY DEF RoomsNext, Gate, Limited, Turn, Control, Body,
         roomVars, limiterVars, fairVars, heavyVars, vars,
         Limiter!vars, Rounds!queueVars, Doors!vars, Doors!Heavy!bodyVars
<1> QED
  BY <1>1, PTL DEF RoomsSpec, RoomsInit, Spec, Limiter!Spec, Rounds!QueueSpec, Doors!Spec,
                   Doors!Heavy!Spec

(* What is proved of each place, with the assumptions it was proved from.  *)
LEMMA LimiterHolds ==
    Limiter!Spec => /\ []Limiter!TypeOK
                    /\ []Limiter!WakeupToCome
                    /\ Limiter!PoolSpec
<1>1. Limiter!Spec => []Limiter!TypeOK
  BY LimiterAssumption, Limiter!TypeCorrect DEF Limiter!TypeCorrect
<1>2. Limiter!Spec => []Limiter!WakeupToCome
  BY LimiterAssumption, Limiter!WaitersWake DEF Limiter!WaitersWake
<1>3. Limiter!Spec => Limiter!PoolSpec
  BY LimiterAssumption, Limiter!ImplementsPool DEF Limiter!ImplementsPool
<1> QED
  BY <1>1, <1>2, <1>3

LEMMA QueueHolds ==
    Rounds!QueueSpec => /\ []Rounds!QueueTypeOK
                        /\ []Rounds!OrderIsBuckets
                        /\ []Rounds!TurnsAreTaken
                        /\ Rounds!ReservedFirst
<1>1. Rounds!QueueSpec => []Rounds!QueueTypeOK
  BY QueueAssumption, TenantsAssumption, ConfigsAssumption, BoundsAssumption,
     Rounds!QueueTypeCorrect DEF Rounds!QueueTypeCorrect, Rounds!TenantsAssigned
<1>2. Rounds!QueueSpec => []Rounds!OrderIsBuckets
  BY QueueAssumption, TenantsAssumption, ConfigsAssumption, BoundsAssumption,
     Rounds!OrderAgrees DEF Rounds!OrderAgrees, Rounds!TenantsAssigned
<1>3. Rounds!QueueSpec => []Rounds!TurnsAreTaken
  BY QueueAssumption, TenantsAssumption, ConfigsAssumption, BoundsAssumption,
     Rounds!TurnsTaken DEF Rounds!TurnsTaken, Rounds!TenantsAssigned
<1>4. Rounds!QueueSpec => Rounds!ReservedFirst
  BY QueueAssumption, TenantsAssumption, ConfigsAssumption, BoundsAssumption,
     Rounds!ReservedStay DEF Rounds!ReservedStay, Rounds!TenantsAssigned
<1> QED
  BY <1>1, <1>2, <1>3, <1>4

LEMMA ControllerHolds ==
    Doors!Spec => /\ []Doors!BudgetsAddUp
                  /\ []Doors!CapacityUsed
<1>1. Doors!Spec => []Doors!BudgetsAddUp
  BY CallersAssumption, TenantsAssumption, ConfigsAssumption, BoundsAssumption,
     Doors!BudgetsBalance DEF Doors!BudgetsBalance
<1>2. Doors!Spec => []Doors!CapacityUsed
  BY CallersAssumption, TenantsAssumption, ConfigsAssumption, BoundsAssumption,
     Doors!CapacityIsUsed DEF Doors!CapacityIsUsed
<1> QED
  BY <1>1, <1>2

LEMMA BudgetHolds ==
    Doors!Heavy!Spec => /\ []Doors!Heavy!TypeOK
                        /\ []Doors!Heavy!WakesCoverSlots
                        /\ []Doors!Heavy!BytesAddUp
                        /\ Doors!Heavy!PoolSpec
<1>1. Doors!Heavy!Spec => []Doors!Heavy!TypeOK
  BY CallersAssumption, TenantsAssumption, ConfigsAssumption, BoundsAssumption, BodiesAssumption,
     Doors!BodyTypeCorrect DEF Doors!BodyTypeCorrect
<1>2. Doors!Heavy!Spec => []Doors!Heavy!WakesCoverSlots
  BY CallersAssumption, TenantsAssumption, ConfigsAssumption, BoundsAssumption, BodiesAssumption,
     Doors!SlotsCovered DEF Doors!SlotsCovered
<1>3. Doors!Heavy!Spec => []Doors!Heavy!BytesAddUp
  BY CallersAssumption, TenantsAssumption, ConfigsAssumption, BoundsAssumption, BodiesAssumption,
     Doors!BytesBalance DEF Doors!BytesBalance
<1>4. Doors!Heavy!Spec => Doors!Heavy!PoolSpec
  BY CallersAssumption, TenantsAssumption, ConfigsAssumption, BoundsAssumption, BodiesAssumption,
     Doors!BudgetIsPool DEF Doors!BudgetIsPool
<1> QED
  BY <1>1, <1>2, <1>3, <1>4

-----------------------------------------------------------------------------
(* The gate keeps its promises among the other places: its waiters are     *)
(* safe and get an answer, its slots are accounted for, and it is a slot   *)
(* pool until a reset.                                                     *)
THEOREM GateKeepsPromises ==
    RoomsSpec => /\ [](TypeOK /\ NoOrphanWaiter /\ SlotAccounting)
                 /\ GrantWithinCap /\ OnlyResetForgets /\ PoolSpec
                 /\ GateAnswers
<1>1. RoomsSpec => TimersFire
  BY DEF RoomsSpec
<1> QED
  BY <1>1, RoomsApart, TypeCorrect, WaitersSafe, SlotsAccounted, GrantsWithinCap, OnlyResetsForget,
     ImplementsPool, WaitersAnswered, PTL DEF FairSpec

(* The variables of the limiter, the queue and the budget keep their types,*)
(* the counters of the budget among them (TypeOK of each).                 *)
THEOREM RoomsTypeCorrect == RoomsSpec => []RoomsTypeOK
<1> QED
  BY RoomsApart, LimiterHolds, QueueHolds, BudgetHolds, PTL DEF RoomsTypeOK

(***************************************************************************)
(* What the code keeps twice agrees: the turn order of the queue and its   *)
(* buckets (FairCostQueue), the bytes charged and the bodies that wait     *)
(* (ChatAdmissionController), the active costs and the leases, through     *)
(* changes of mode (updateConfig, rebuildVirtualState).                    *)
(***************************************************************************)
THEOREM BooksBalance == RoomsSpec => []BooksAgree
<1> QED
  BY RoomsApart, QueueHolds, BudgetHolds, ControllerHolds, PTL DEF BooksAgree

(* Whoever waits at the round-robin limiter has a wake-up to come, whatever*)
(* its timers find (drainQueue, markRateLimited).                          *)
THEOREM WakeupsCome == RoomsSpec => []WakeupToCome
<1> QED
  BY RoomsApart, LimiterHolds, PTL DEF WakeupToCome

(***************************************************************************)
(* No capacity is left to nobody: a free heavy slot has woken somebody     *)
(* (#dispatchFair), and no request fits that waits at the controller or in *)
(* shadow mode's virtual queue (dispatch, releaseVirtual).                 *)
(***************************************************************************)
THEOREM CapacityIsOffered == RoomsSpec => []CapacityOffered
<1> QED
  BY RoomsApart, BudgetHolds, ControllerHolds, PTL DEF CapacityOffered

(* Turns are taken between the tenants of the queue (takeAt, removeById).  *)
THEOREM TurnsGoRound == RoomsSpec => []TurnsAreTaken
<1> QED
  BY RoomsApart, QueueHolds, PTL DEF TurnsAreTaken

(* Nobody overtakes a head that was passed too often (dequeue).            *)
THEOREM ReservedGoFirst == RoomsSpec => ReservedFirst
<1> QED
  BY RoomsApart, QueueHolds, PTL DEF ReservedFirst

(***************************************************************************)
(* The gate until a reset, the round-robin limiter and the slots for heavy *)
(* bodies implement the abstract slot pool (drainQueue,                    *)
(* acquireHeavyWithin): nobody is let in beyond the limit in force, and    *)
(* nobody both holds a slot and waits.                                     *)
(***************************************************************************)
THEOREM LimitersImplementPool == RoomsSpec => LimitersArePools
<1> QED
  BY RoomsApart, ImplementsPool, LimiterHolds, BudgetHolds, PTL DEF LimitersArePools
=============================================================================
