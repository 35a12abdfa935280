----------------------------- MODULE FairQueue ------------------------------
(***************************************************************************)
(* FairCostQueue of open-sse/services/admission/queue.ts: a queue of       *)
(* requests with costs that takes turns among tenants, lets a small        *)
(* request pass a head that does not fit, and after MaxSkips such          *)
(* passages keeps the capacity for that head.                              *)
(*                                                                         *)
(* A queue is a record: the tenants in turn order, the cursor into it      *)
(* (from 0, as in the code), a bucket per tenant, and how often each       *)
(* request was passed.  Count and total cost follow from the buckets.      *)
(* enqueuedAtMs is the position in a sequence "arrived" of requests, which *)
(* takes no two arrivals to be in the same millisecond.                    *)
(***************************************************************************)
EXTENDS Integers, Sequences, FiniteSetsExt, SequencesExt

CONSTANTS
    Requests,       \* whoever may be queued
    Tenants,        \* their fairness keys
    Cost,           \* cost of each request
    MaxSkips        \* MAX_UNFITTABLE_SKIPS

ASSUME CostPositive == Cost \in [Requests -> Nat \ {0}]
ASSUME MaxSkipsPositive == MaxSkips \in Nat \ {0}

TotalCost(S) == MapThenSumSet(LAMBDA r : Cost[r], S)

Empty == [order  |-> <<>>,
          cursor |-> 0,
          bucket |-> [t \in Tenants |-> <<>>],
          skips  |-> [r \in Requests |-> 0]]

Members(q) == UNION {ToSet(q.bucket[t]) : t \in Tenants}

(* canAccept.                                                              *)
CanAccept(q, r, maxCount, maxCost) ==
    /\ Cardinality(Members(q)) < maxCount
    /\ Cost[r] <= maxCost - TotalCost(Members(q))

(* Mutant: the tenant takes a place in the turn order with every request.  *)
EnqueueOrdered(q, r, t) ==
    [q EXCEPT !.bucket[t] = Append(@, r), !.order = Append(@, t)]

(* enqueue, once accepted.                                                 *)
Enqueue(q, r, t) ==
    [q EXCEPT !.bucket[t] = Append(@, r),
              !.order = IF q.bucket[t] = <<>> THEN Append(@, t) ELSE @]

HeadAt(q, i) == Head(q.bucket[q.order[i]])

(* How many turns the i-th tenant is away from the cursor.                 *)
TurnOf(q, i) == (i - 1 - q.cursor) % Len(q.order)

Reserved(q) == {i \in DOMAIN q.order : q.skips[HeadAt(q, i)] >= MaxSkips}

Arrival(r, arrived) == CHOOSE n \in DOMAIN arrived : arrived[n] = r

(* The reserved head that waits longest.                                   *)
Oldest(q, arrived) ==
    CHOOSE i \in Reserved(q) : \A j \in Reserved(q) :
       Arrival(HeadAt(q, i), arrived) <= Arrival(HeadAt(q, j), arrived)

(* Mutant: reserved heads are not preferred.                               *)
TurnsUnreserved(q, room, arrived) ==
    LET fits == {i \in DOMAIN q.order : Cost[HeadAt(q, i)] <= room}
    IN  {i \in fits : \A j \in fits : TurnOf(q, i) <= TurnOf(q, j)}

(* Whose turn dequeue(room) finds it to be: one tenant or none.            *)
Turns(q, room, arrived) ==
    LET fits == {i \in DOMAIN q.order : Cost[HeadAt(q, i)] <= room}
    IN  IF Reserved(q) # {} THEN {Oldest(q, arrived)} \cap fits
        ELSE {i \in fits : \A j \in fits : TurnOf(q, i) <= TurnOf(q, j)}

(* takeAt, and the passages dequeue counts.                                *)
Taken(q, i) ==
    LET t == q.order[i]
        passed == IF Reserved(q) # {} THEN {}
                  ELSE {HeadAt(q, j) : j \in {k \in DOMAIN q.order :
                                                 TurnOf(q, k) < TurnOf(q, i)}}
        empties == Len(q.bucket[t]) = 1
        order == IF empties THEN RemoveAt(q.order, i) ELSE q.order
    IN  [order  |-> order,
         cursor |-> IF order = <<>> THEN 0
                    ELSE (IF empties THEN i - 1 ELSE i) % Len(order),
         bucket |-> [q.bucket EXCEPT ![t] = Tail(@)],
         skips  |-> [r \in Requests |->
                       IF r = HeadAt(q, i) THEN 0
                       ELSE IF r \in passed THEN q.skips[r] + 1 ELSE q.skips[r]]]

(* Mutant: the cursor is not moved when a bucket before it goes away.      *)
CursorWithoutKept(q, i) ==
    IF q.cursor >= Len(q.order) - 1 THEN 0 ELSE q.cursor

(* Mutant: the cursor does not wrap when the last bucket goes away.        *)
CursorWithoutWrap(q, i) ==
    IF Len(q.order) = 1 THEN 0
    ELSE IF i - 1 < q.cursor THEN q.cursor - 1 ELSE q.cursor

(* removeById's cursor, when the i-th tenant's bucket goes away.           *)
CursorWithout(q, i) ==
    IF Len(q.order) = 1 THEN 0
    ELSE IF i - 1 < q.cursor THEN q.cursor - 1
    ELSE IF q.cursor >= Len(q.order) - 1 THEN 0
    ELSE q.cursor

(* removeById, for a request in the queue.                                 *)
Removed(q, r) ==
    LET i == CHOOSE k \in DOMAIN q.order : r \in ToSet(q.bucket[q.order[k]])
        t == q.order[i]
        empties == Len(q.bucket[t]) = 1
    IN  [order  |-> IF empties THEN RemoveAt(q.order, i) ELSE q.order,
         cursor |-> IF empties THEN CursorWithout(q, i) ELSE q.cursor,
         bucket |-> [q.bucket EXCEPT ![t] = RemoveFirst(@, r)],
         skips  |-> [q.skips EXCEPT ![r] = 0]]

(* One dequeue, however much it costs, onto the line of those that left.   *)
TakeNext(d, arrived) ==
    LET i == CHOOSE k \in Turns(d.queue, TotalCost(Members(d.queue)), arrived) : TRUE
    IN  [queue |-> Taken(d.queue, i), line |-> Append(d.line, HeadAt(d.queue, i))]

(* drain: everybody, in the order of unlimited dequeues.                   *)
Drained(q, arrived) ==
    FoldLeft(LAMBDA d, r : TakeNext(d, arrived),
             [queue |-> q, line |-> <<>>], SetToSeq(Members(q))).line
=============================================================================
