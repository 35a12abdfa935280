--------------------------- MODULE AdmissionProofs --------------------------
(***************************************************************************)
(* Proofs about the admission controller, the fair queue inside it and the *)
(* budget for heavy bodies in front of it, for all tenants, requests,      *)
(* costs, limits, weights and any number of skips.                         *)
(*                                                                         *)
(* First the queue, as FairQueueRounds runs it: QueueInv is inductive, and *)
(* from it follow the order, the turns and the reservations.  Then the     *)
(* controller.  Its loops are folds; the lemmas named ...Runs show what a  *)
(* fold over a sequence and a sum over a finite set are, step by step.     *)
(* Consistent(d, left, open) is the invariant of the controller's record   *)
(* inside a call, ControllerInv the one between calls.  Every helper of    *)
(* the code has a lemma that it keeps Consistent, every method one that it *)
(* keeps ControllerInv, and the properties follow.  Last the budget, as    *)
(* Heavy, with an invariant of its own, BodyInv.                           *)
(***************************************************************************)
EXTENDS Admission, FairQueueRounds, QueueLemmas

(***************************************************************************)
(* The inductive invariant of the queue itself, in four parts.             *)
(***************************************************************************)
Shape(q) ==
    q \in [order  : Seq(Tenants),
           cursor : Nat,
           bucket : [Tenants -> Seq(Requests)],
           skips  : [Requests -> 0..MaxSkips]]

(* The turn order names the tenants with a bucket, each once, and the      *)
(* cursor is within it.                                                    *)
Ring(q) ==
    /\ ToSet(q.order) = {t \in Tenants : q.bucket[t] # <<>>}
    /\ IsInjective(q.order)
    /\ q.cursor = 0 \/ q.cursor < Len(q.order)

(* Each request is queued once at most, in its own tenant's bucket.        *)
Owned(q, own) ==
    \A t \in Tenants :
       /\ IsInjective(q.bucket[t])
       /\ \A r \in ToSet(q.bucket[t]) : own[r] = t

(* r is the first of its bucket; only such requests count as passed.       *)
IsHead(q, r) == \E t \in Tenants : q.bucket[t] # <<>> /\ Head(q.bucket[t]) = r

Heads(q) == \A r \in Requests : q.skips[r] > 0 => IsHead(q, r)

WellFormed(q, own) == Shape(q) /\ Ring(q) /\ Owned(q, own) /\ Heads(q)

-----------------------------------------------------------------------------
(* Who is queued, and who is at the head, seen from the request's tenant.  *)
LEMMA InOwnBucket ==
    ASSUME NEW own \in [Requests -> Tenants], NEW q, Shape(q), Owned(q, own), NEW r \in Requests
    PROVE  /\ r \in Members(q) <=> r \in ToSet(q.bucket[own[r]])
           /\ IsHead(q, r) <=> /\ q.bucket[own[r]] # <<>>
                               /\ Head(q.bucket[own[r]]) = r
<1>1. own[r] \in Tenants
  OBVIOUS
<1>2. r \in Members(q) <=> r \in ToSet(q.bucket[own[r]])
  BY <1>1 DEF Members, Owned
<1>3. q.bucket[own[r]] \in Seq(Requests)
  BY <1>1 DEF Shape
<1>4. \A b \in Seq(Requests) : b # <<>> => Head(b) \in ToSet(b)
  BY DEF ToSet
<1>5. ToSet(<<>>) = {}
  BY DEF ToSet
<1>6. IsHead(q, r) => q.bucket[own[r]] # <<>> /\ Head(q.bucket[own[r]]) = r
  <2>1. SUFFICES ASSUME NEW t \in Tenants, q.bucket[t] # <<>>, Head(q.bucket[t]) = r
                 PROVE  own[r] = t
    BY DEF IsHead
  <2>2. q.bucket[t] \in Seq(Requests)
    BY DEF Shape
  <2> QED
    BY <2>1, <2>2, <1>4 DEF Owned
<1> QED
  BY <1>1, <1>2, <1>6 DEF IsHead

(* The tenant at a place of the turn order, and the head of its bucket.    *)
LEMMA HeadOf ==
    ASSUME NEW own \in [Requests -> Tenants], NEW q, Shape(q), Ring(q), Owned(q, own),
           NEW i \in DOMAIN q.order
    PROVE  /\ q.order[i] \in Tenants
           /\ q.bucket[q.order[i]] \in Seq(Requests)
           /\ q.bucket[q.order[i]] # <<>>
           /\ HeadAt(q, i) \in Requests
           /\ HeadAt(q, i) \in ToSet(q.bucket[q.order[i]])
           /\ own[HeadAt(q, i)] = q.order[i]
           /\ HeadAt(q, i) \in Members(q)
           /\ IsHead(q, HeadAt(q, i))
<1>1. q.order[i] \in Tenants /\ q.order[i] \in ToSet(q.order)
  BY DEF Shape, ToSet
<1>2. q.bucket[q.order[i]] \in Seq(Requests) /\ q.bucket[q.order[i]] # <<>>
  BY <1>1 DEF Shape, Ring
<1>3. \A b \in Seq(Requests) : b # <<>> => Head(b) \in ToSet(b) /\ Head(b) \in Requests
  BY DEF ToSet
<1>4. HeadAt(q, i) \in Requests /\ HeadAt(q, i) \in ToSet(q.bucket[q.order[i]])
  BY <1>2, <1>3 DEF HeadAt
<1>5. own[HeadAt(q, i)] = q.order[i]
  BY <1>1, <1>4 DEF Owned
<1>6. IsHead(q, HeadAt(q, i)) /\ HeadAt(q, i) \in Members(q)
  BY <1>2, <1>4, <1>5, InOwnBucket DEF HeadAt
<1> QED
  BY <1>1, <1>2, <1>4, <1>5, <1>6

(* Each tenant with a bucket has a place in the turn order.                *)
LEMMA PlaceOf ==
    ASSUME NEW q, Shape(q), Ring(q), NEW t \in Tenants, q.bucket[t] # <<>>
    PROVE  \E i \in DOMAIN q.order : q.order[i] = t
  BY DEF Ring, ToSet

-----------------------------------------------------------------------------
(* A new queue.                                                            *)
LEMMA EmptyWellFormed ==
    ASSUME NEW own \in [Requests -> Tenants] PROVE WellFormed(Empty, own) /\ Members(Empty) = {}
<1>1. \A t \in Tenants : Empty.bucket[t] = <<>>
  BY DEF Empty
<1>2. ToSet(<<>>) = {} /\ IsInjective(<<>>)
  BY DEF ToSet, IsInjective
<1>3. Shape(Empty)
  BY MaxSkipsPositive DEF Empty, Shape
<1>4. Ring(Empty)
  BY <1>1, <1>2 DEF Empty, Ring
<1>5. Owned(Empty, own)
  BY <1>1, <1>2 DEF Owned
<1>6. Heads(Empty)
  BY DEF Empty, Heads
<1>7. Members(Empty) = {}
  BY <1>1, <1>2 DEF Members
<1> QED
  BY <1>3, <1>4, <1>5, <1>6, <1>7 DEF WellFormed

(* enqueue of a request that is not queued: nobody loses the head.         *)
LEMMA EnqueueWellFormed ==
    ASSUME NEW own \in [Requests -> Tenants], NEW q, WellFormed(q, own), NEW r \in Requests, r \notin Members(q)
    PROVE  LET p == Enqueue(q, r, own[r])
           IN  /\ WellFormed(p, own)
               /\ Members(p) = Members(q) \cup {r}
               /\ \A s \in Requests : IsHead(q, s) => IsHead(p, s)
               /\ \A u \in Tenants : q.bucket[u] # <<>> => p.bucket[u] # <<>>
<1> DEFINE t == own[r]
           b == q.bucket[t]
           p == Enqueue(q, r, t)
           order == IF b = <<>> THEN Append(q.order, t) ELSE q.order
<1> USE DEF WellFormed
<1>1. t \in Tenants /\ b \in Seq(Requests) /\ r \notin ToSet(b)
  BY InOwnBucket DEF Shape
<1>2. /\ Append(b, r) \in Seq(Requests)
      /\ ToSet(Append(b, r)) = ToSet(b) \cup {r}
      /\ IsInjective(Append(b, r))
  BY <1>1, AppendElements DEF Owned
<1>3. /\ p.order = order
      /\ p.cursor = q.cursor
      /\ p.bucket = [q.bucket EXCEPT ![t] = Append(b, r)]
      /\ p.skips = q.skips
      /\ p = [q EXCEPT !.bucket = [q.bucket EXCEPT ![t] = Append(b, r)], !.order = order]
  BY <1>1 DEF Enqueue, Shape
<1>4. /\ \A u \in Tenants : p.bucket[u] = IF u = t THEN Append(b, r) ELSE q.bucket[u]
      /\ p.bucket \in [Tenants -> Seq(Requests)]
  BY <1>1, <1>2, <1>3 DEF Shape
<1>5. Append(b, r) # <<>> /\ Head(Append(b, r)) = IF b = <<>> THEN r ELSE Head(b)
  <2>1. Head(Append(b, r)) = IF b = <<>> THEN r ELSE Head(b)
    BY <1>1, HeadTailAppend
  <2>2. Append(b, r) # <<>>
    BY <1>1
  <2> QED
    BY <2>1, <2>2
<1>6. /\ order \in Seq(Tenants)
      /\ ToSet(order) = ToSet(q.order) \cup {t}
      /\ IsInjective(order)
      /\ Len(order) >= Len(q.order)
  <2>1. q.order \in Seq(Tenants) /\ IsInjective(q.order)
    BY DEF Shape, Ring
  <2>2. CASE b = <<>>
    <3>1. t \notin ToSet(q.order)
      BY <2>2 DEF Ring
    <3> QED
      BY <2>1, <2>2, <3>1, <1>1, AppendElements
  <2>3. CASE b # <<>>
    <3>1. t \in ToSet(q.order)
      BY <1>1, <2>3 DEF Ring
    <3> QED
      BY <2>1, <2>3, <3>1
  <2> QED
    BY <2>2, <2>3
<1> HIDE DEF p, order, t
<1>7. Shape(p)
  <2> DEFINE bucket == [q.bucket EXCEPT ![t] = Append(b, r)]
  <2>1. bucket \in [Tenants -> Seq(Requests)]
    BY <1>3, <1>4
  <2> HIDE DEF bucket
  <2> QED
    BY <2>1, <1>3, <1>6 DEF Shape, bucket
<1>8. Ring(p)
  <2>1. ToSet(p.order) = {u \in Tenants : p.bucket[u] # <<>>}
    BY <1>1, <1>3, <1>4, <1>5, <1>6 DEF Ring
  <2>2. p.cursor = 0 \/ p.cursor < Len(p.order)
    BY <1>3, <1>6 DEF Ring, Shape
  <2> QED
    BY <2>1, <2>2, <1>3, <1>6 DEF Ring
<1>9. Owned(p, own)
  BY <1>1, <1>2, <1>4 DEF Owned, t
<1>10. Members(p) = Members(q) \cup {r}
  <2>1. \A u \in Tenants : ToSet(p.bucket[u]) =
           IF u = t THEN ToSet(q.bucket[u]) \cup {r} ELSE ToSet(q.bucket[u])
    BY <1>2, <1>4
  <2> QED
    BY <2>1, <1>1, ZenonT(60) DEF Members
<1>11. ASSUME NEW s \in Requests, IsHead(q, s) PROVE IsHead(p, s)
  <2>1. q.bucket[own[s]] # <<>> /\ Head(q.bucket[own[s]]) = s
    BY <1>11, InOwnBucket
  <2>2. own[s] \in Tenants
    OBVIOUS
  <2>3. p.bucket[own[s]] # <<>> /\ Head(p.bucket[own[s]]) = s
    BY <2>1, <2>2, <1>4, <1>5
  <2> QED
    BY <2>3, <1>7, <1>9, InOwnBucket
<1>12. Heads(p)
  BY <1>3, <1>11 DEF Heads
<1>13. \A u \in Tenants : q.bucket[u] # <<>> => p.bucket[u] # <<>>
  BY <1>4, <1>5
<1> QED
  BY <1>7, <1>8, <1>9, <1>10, <1>11, <1>12, <1>13 DEF p, t

(***************************************************************************)
(* takeAt and removeById both cut a request x out of the bucket of the     *)
(* k-th tenant, and the tenant out of the order when its bucket is empty.  *)
(***************************************************************************)
Cut(q, p, k, x) ==
    LET b == q.bucket[q.order[k]]
        d == p.bucket[q.order[k]]
    IN  /\ p.bucket = [q.bucket EXCEPT ![q.order[k]] = d]
        /\ d \in Seq(Requests)
        /\ IsInjective(d)
        /\ ToSet(d) = ToSet(b) \ {x}
        /\ Head(b) # x => Head(d) = Head(b)
        /\ p.order = IF Len(b) = 1 THEN RemoveAt(q.order, k) ELSE q.order

(* What a cut leaves of the queue.                                         *)
LEMMA CutKeeps ==
    ASSUME NEW own \in [Requests -> Tenants], NEW q, Shape(q), Ring(q), Owned(q, own),
           NEW k \in DOMAIN q.order, NEW p, NEW x \in ToSet(q.bucket[q.order[k]]),
           Cut(q, p, k, x)
    PROVE  /\ p.bucket \in [Tenants -> Seq(Requests)]
           /\ \A u \in Tenants : u # q.order[k] => p.bucket[u] = q.bucket[u]
           /\ p.bucket[q.order[k]] = <<>> <=> Len(q.bucket[q.order[k]]) = 1
           /\ p.order \in Seq(Tenants)
           /\ ToSet(p.order) = {u \in Tenants : p.bucket[u] # <<>>}
           /\ IsInjective(p.order)
           /\ Owned(p, own)
           /\ Members(p) = Members(q) \ {x}
           /\ Shape(p) => \A s \in Requests : s # x /\ IsHead(q, s) => IsHead(p, s)
<1> DEFINE t == q.order[k]
           b == q.bucket[t]
           d == p.bucket[t]
<1>1. t \in Tenants /\ b \in Seq(Requests) /\ b # <<>>
  BY HeadOf
<1>2. /\ p.bucket = [q.bucket EXCEPT ![t] = d]
      /\ d \in Seq(Requests)
      /\ IsInjective(d)
      /\ ToSet(d) = ToSet(b) \ {x}
      /\ Head(b) # x => Head(d) = Head(b)
      /\ p.order = IF Len(b) = 1 THEN RemoveAt(q.order, k) ELSE q.order
  BY DEF Cut
<1>3. p.bucket \in [Tenants -> Seq(Requests)]
  BY <1>1, <1>2 DEF Shape
<1>4. \A u \in Tenants : u # t => p.bucket[u] = q.bucket[u]
  BY <1>1, <1>2 DEF Shape
<1>5. d = <<>> <=> Len(b) = 1
  <2>1. ASSUME Len(b) = 1 PROVE d = <<>>
    <3>1. ToSet(b) = {x}
      BY <1>1, <2>1 DEF ToSet
    <3>2. ToSet(d) = {}
      BY <3>1, <1>2
    <3> QED
      BY <3>2, <1>2, EmptyElements
  <2>2. ASSUME Len(b) # 1 PROVE d # <<>>
    <3>1. 1 \in DOMAIN b /\ 2 \in DOMAIN b
      <4>1. Len(b) # 0 /\ Len(b) \in Nat /\ DOMAIN b = 1..Len(b)
        BY <1>1, EmptyElements
      <4>2. \A n \in Nat : n # 0 /\ n # 1 => 1 \in 1..n /\ 2 \in 1..n
        OBVIOUS
      <4> QED
        BY <4>1, <4>2, <2>2
    <3>2. b[1] # b[2]
      BY <3>1, <1>1, SMTT(40) DEF Owned, IsInjective
    <3>3. b[1] \in ToSet(d) \/ b[2] \in ToSet(d)
      BY <3>1, <3>2, <1>2 DEF ToSet
    <3> QED
      BY <3>3 DEF ToSet
  <2> QED
    BY <2>1, <2>2
<1>6. q.order \in Seq(Tenants) /\ IsInjective(q.order) /\ k \in 1..Len(q.order)
  BY DEF Shape, Ring
<1>7. /\ p.order \in Seq(Tenants)
      /\ IsInjective(p.order)
      /\ ToSet(p.order) = IF Len(b) = 1 THEN ToSet(q.order) \ {t} ELSE ToSet(q.order)
  <2>1. /\ RemoveAt(q.order, k) \in Seq(Tenants)
        /\ IsInjective(RemoveAt(q.order, k))
        /\ ToSet(RemoveAt(q.order, k)) = ToSet(q.order) \ {t}
    BY <1>6, RemoveAtElements
  <2> QED
    BY <2>1, <1>2, <1>6
<1>8. ToSet(p.order) = {u \in Tenants : p.bucket[u] # <<>>}
  <2>1. ToSet(q.order) = {u \in Tenants : q.bucket[u] # <<>>}
    BY DEF Ring
  <2>2. ASSUME NEW u \in Tenants
        PROVE  u \in ToSet(p.order) <=> p.bucket[u] # <<>>
    <3>1. CASE u = t
      BY <3>1, <2>1, <1>1, <1>5, <1>7
    <3>2. CASE u # t
      BY <3>2, <2>1, <1>4, <1>7
    <3> QED
      BY <3>1, <3>2
  <2>3. ToSet(p.order) \subseteq Tenants
    BY <1>7 DEF ToSet
  <2> QED
    BY <2>2, <2>3
<1>9. Owned(p, own)
  <2>1. SUFFICES ASSUME NEW u \in Tenants
                 PROVE  IsInjective(p.bucket[u]) /\ \A r \in ToSet(p.bucket[u]) : own[r] = u
    BY DEF Owned
  <2>2. CASE u = t
    BY <2>2, <1>2 DEF Owned
  <2>3. CASE u # t
    BY <2>3, <1>4 DEF Owned
  <2> QED
    BY <2>2, <2>3
<1>10. Members(p) = Members(q) \ {x}
  <2>1. \A u \in Tenants : ToSet(p.bucket[u]) = ToSet(q.bucket[u]) \ {x}
    <3>1. \A u \in Tenants : u # t => x \notin ToSet(q.bucket[u])
      BY <1>1 DEF Owned
    <3> QED
      BY <3>1, <1>2, <1>4
  <2> QED
    BY <2>1 DEF Members
<1>11. ASSUME Shape(p), NEW s \in Requests, s # x, IsHead(q, s) PROVE IsHead(p, s)
  <2>1. q.bucket[own[s]] # <<>> /\ Head(q.bucket[own[s]]) = s
    BY <1>11, InOwnBucket
  <2>2. own[s] \in Tenants
    OBVIOUS
  <2>3. CASE own[s] # t
    BY <2>1, <2>2, <2>3, <1>4, <1>9, <1>11, InOwnBucket
  <2>4. CASE own[s] = t
    <3>1. Head(d) = s
      BY <2>1, <2>4, <1>2, <1>11
    <3>2. s \in ToSet(b)
      BY <2>1, <2>4, <1>1 DEF ToSet
    <3>3. d # <<>>
      BY <3>2, <1>2, <1>11, EmptyElements
    <3> QED
      BY <3>1, <3>3, <2>4, <1>9, <1>11, InOwnBucket
  <2> QED
    BY <2>3, <2>4
<1> QED
  BY <1>3, <1>4, <1>5, <1>7, <1>8, <1>9, <1>10, <1>11

(* The requests that a turn of the i-th tenant passes over.                *)
Passed(q, i) ==
    IF Reserved(q) # {} THEN {}
    ELSE {HeadAt(q, j) : j \in {k \in DOMAIN q.order : TurnOf(q, k) < TurnOf(q, i)}}

(* Taken and Removed as cuts.                                              *)
LEMMA TakenIsCut ==
    ASSUME NEW own \in [Requests -> Tenants], NEW q, Shape(q), Ring(q), Owned(q, own), NEW i \in DOMAIN q.order
    PROVE  LET p == Taken(q, i)
               x == HeadAt(q, i)
           IN  /\ Cut(q, p, i, x)
               /\ p.cursor = IF p.order = <<>> THEN 0
                             ELSE (IF Len(q.bucket[q.order[i]]) = 1 THEN i - 1 ELSE i)
                                  % Len(p.order)
               /\ p.skips = [r \in Requests |->
                               IF r = x THEN 0
                               ELSE IF r \in Passed(q, i) THEN q.skips[r] + 1
                               ELSE q.skips[r]]
               /\ p = [order |-> p.order, cursor |-> p.cursor,
                       bucket |-> p.bucket, skips |-> p.skips]
<1> DEFINE t == q.order[i]
           b == q.bucket[t]
           p == Taken(q, i)
           x == HeadAt(q, i)
<1>1. t \in Tenants /\ b \in Seq(Requests) /\ b # <<>> /\ IsInjective(b)
  BY HeadOf DEF Owned
<1>2. /\ p.order = IF Len(b) = 1 THEN RemoveAt(q.order, i) ELSE q.order
      /\ p.bucket = [q.bucket EXCEPT ![t] = Tail(b)]
  BY DEF Taken
<1>3. p.bucket[t] = Tail(b)
  BY <1>1, <1>2 DEF Shape
<1>4. /\ Tail(b) \in Seq(Requests)
      /\ ToSet(Tail(b)) = ToSet(b) \ {Head(b)}
      /\ IsInjective(Tail(b))
  BY <1>1, TailElements
<1>5. x = Head(b)
  BY DEF HeadAt
<1>6. Cut(q, p, i, x)
  <2> HIDE DEF p, x
  <2> QED
    BY <1>2, <1>3, <1>4, <1>5 DEF Cut
<1>7. p.cursor = IF p.order = <<>> THEN 0
                 ELSE (IF Len(b) = 1 THEN i - 1 ELSE i) % Len(p.order)
  BY DEF Taken
<1>8. p.skips = [r \in Requests |->
                   IF r = x THEN 0
                   ELSE IF r \in Passed(q, i) THEN q.skips[r] + 1 ELSE q.skips[r]]
  BY DEF Taken, Passed
<1>9. p = [order |-> p.order, cursor |-> p.cursor, bucket |-> p.bucket, skips |-> p.skips]
  BY DEF Taken
<1> QED
  BY <1>6, <1>7, <1>8, <1>9

(* Removed is a cut at the bucket of the request.                          *)
LEMMA RemovedIsCut ==
    ASSUME NEW own \in [Requests -> Tenants], NEW q, Shape(q), Ring(q), Owned(q, own),
           NEW r \in Requests, r \in Members(q)
    PROVE  LET p == Removed(q, r)
           IN  \E k \in DOMAIN q.order :
                  /\ q.order[k] = own[r]
                  /\ r \in ToSet(q.bucket[q.order[k]])
                  /\ Cut(q, p, k, r)
                  /\ p.cursor = IF Len(q.bucket[q.order[k]]) = 1
                                THEN CursorWithout(q, k) ELSE q.cursor
                  /\ p.skips = [q.skips EXCEPT ![r] = 0]
                  /\ p = [order |-> p.order, cursor |-> p.cursor,
                          bucket |-> p.bucket, skips |-> p.skips]
<1> DEFINE k == CHOOSE j \in DOMAIN q.order : r \in ToSet(q.bucket[q.order[j]])
           t == q.order[k]
           b == q.bucket[t]
           p == Removed(q, r)
<1>1. \E j \in DOMAIN q.order : r \in ToSet(q.bucket[q.order[j]])
  <2>1. own[r] \in Tenants /\ r \in ToSet(q.bucket[own[r]])
    BY InOwnBucket
  <2>2. q.bucket[own[r]] # <<>>
    BY <2>1 DEF ToSet
  <2> QED
    BY <2>1, <2>2, PlaceOf
<1>2. k \in DOMAIN q.order /\ r \in ToSet(b)
  BY <1>1
<1>3. /\ p.order = IF Len(b) = 1 THEN RemoveAt(q.order, k) ELSE q.order
      /\ p.bucket = [q.bucket EXCEPT ![t] = RemoveFirst(b, r)]
      /\ p.cursor = IF Len(b) = 1 THEN CursorWithout(q, k) ELSE q.cursor
      /\ p.skips = [q.skips EXCEPT ![r] = 0]
      /\ p = [order |-> p.order, cursor |-> p.cursor, bucket |-> p.bucket, skips |-> p.skips]
  BY DEF Removed
<1> HIDE DEF k, p
<1>4. t \in Tenants /\ b \in Seq(Requests) /\ b # <<>> /\ IsInjective(b)
  BY <1>2, HeadOf DEF Owned
<1>5. p.bucket[t] = RemoveFirst(b, r)
  BY <1>3, <1>4 DEF Shape
<1>6. /\ RemoveFirst(b, r) \in Seq(Requests)
      /\ ToSet(RemoveFirst(b, r)) = ToSet(b) \ {r}
      /\ IsInjective(RemoveFirst(b, r))
      /\ Head(b) # r => Head(RemoveFirst(b, r)) = Head(b)
  BY <1>4, RemoveFirstElements
<1>7. Cut(q, p, k, r)
  BY <1>3, <1>5, <1>6 DEF Cut
<1>8. t = own[r]
  BY <1>2, <1>4 DEF Owned
<1> QED
  BY <1>2, <1>3, <1>7, <1>8 DEF p

-----------------------------------------------------------------------------
(* takeAt: the queue stays well formed and nobody else loses the head.     *)
LEMMA TakenWellFormed ==
    ASSUME NEW own \in [Requests -> Tenants], NEW q, WellFormed(q, own), NEW i \in DOMAIN q.order
    PROVE  LET p == Taken(q, i)
               x == HeadAt(q, i)
           IN  /\ WellFormed(p, own)
               /\ Members(p) = Members(q) \ {x}
               /\ \A s \in Requests : s # x /\ IsHead(q, s) => IsHead(p, s)
<1> DEFINE p == Taken(q, i)
           x == HeadAt(q, i)
           b == q.bucket[q.order[i]]
<1> USE DEF WellFormed
<1>1. /\ Cut(q, p, i, x)
      /\ p.cursor = IF p.order = <<>> THEN 0
                    ELSE (IF Len(b) = 1 THEN i - 1 ELSE i) % Len(p.order)
      /\ p.skips = [r \in Requests |->
                      IF r = x THEN 0
                      ELSE IF r \in Passed(q, i) THEN q.skips[r] + 1 ELSE q.skips[r]]
      /\ p = [order |-> p.order, cursor |-> p.cursor, bucket |-> p.bucket, skips |-> p.skips]
  BY TakenIsCut
<1>2. x \in ToSet(b) /\ x \in Requests
  BY HeadOf
<1> HIDE DEF p, x, b
<1>3. /\ p.bucket \in [Tenants -> Seq(Requests)]
      /\ p.order \in Seq(Tenants)
      /\ ToSet(p.order) = {u \in Tenants : p.bucket[u] # <<>>}
      /\ IsInjective(p.order)
      /\ Owned(p, own)
      /\ Members(p) = Members(q) \ {x}
      /\ Shape(p) => \A s \in Requests : s # x /\ IsHead(q, s) => IsHead(p, s)
  BY <1>1, <1>2, CutKeeps DEF b
<1>4. p.cursor \in Nat /\ (p.cursor = 0 \/ p.cursor < Len(p.order))
  <2>1. i \in Nat /\ i >= 1
    BY DEF Shape
  <2>2. \A m \in Nat, n \in Nat : n # 0 => m % n \in 0..(n - 1)
    OBVIOUS
  <2>3. i - 1 \in Nat /\ Len(p.order) \in Nat /\ (p.order = <<>> <=> Len(p.order) = 0)
    BY <2>1, <1>3, EmptyElements
  <2> QED
    BY <1>1, <2>1, <2>2, <2>3
<1>5. \A s \in Passed(q, i) : IsHead(q, s) /\ q.skips[s] < MaxSkips
  <2>1. SUFFICES ASSUME Reserved(q) = {}, NEW j \in DOMAIN q.order
                 PROVE  IsHead(q, HeadAt(q, j)) /\ q.skips[HeadAt(q, j)] < MaxSkips
    BY DEF Passed
  <2>2. HeadAt(q, j) \in Requests /\ IsHead(q, HeadAt(q, j))
    BY HeadOf
  <2>3. ~(q.skips[HeadAt(q, j)] >= MaxSkips)
    BY <2>1 DEF Reserved
  <2>4. q.skips[HeadAt(q, j)] \in Nat
    BY <2>2 DEF Shape
  <2> QED
    BY <2>2, <2>3, <2>4, MaxSkipsPositive
<1>6. p.skips \in [Requests -> 0..MaxSkips]
  <2>1. SUFFICES ASSUME NEW s \in Requests PROVE p.skips[s] \in 0..MaxSkips
    BY <1>1
  <2>2. q.skips[s] \in 0..MaxSkips
    BY DEF Shape
  <2> QED
    BY <2>2, <1>1, <1>5, MaxSkipsPositive
<1>7. Shape(p)
  BY <1>1, <1>3, <1>4, <1>6 DEF Shape
<1>8. Ring(p)
  BY <1>3, <1>4 DEF Ring
<1>9. Heads(p)
  <2>1. SUFFICES ASSUME NEW s \in Requests, p.skips[s] > 0 PROVE IsHead(p, s)
    BY DEF Heads
  <2>2. s # x /\ (s \in Passed(q, i) \/ q.skips[s] > 0)
    BY <2>1, <1>1
  <2>3. IsHead(q, s)
    BY <2>2, <1>5 DEF Heads
  <2> QED
    BY <2>2, <2>3, <1>3, <1>7
<1> QED
  BY <1>3, <1>7, <1>8, <1>9 DEF p, x

(* removeById: the same, for whoever leaves.                               *)
LEMMA RemovedWellFormed ==
    ASSUME NEW own \in [Requests -> Tenants], NEW q, WellFormed(q, own), NEW r \in Requests, r \in Members(q)
    PROVE  LET p == Removed(q, r)
           IN  /\ WellFormed(p, own)
               /\ Members(p) = Members(q) \ {r}
               /\ \A s \in Requests : s # r /\ IsHead(q, s) => IsHead(p, s)
<1> DEFINE p == Removed(q, r)
<1> USE DEF WellFormed
<1>1. PICK k \in DOMAIN q.order :
         /\ r \in ToSet(q.bucket[q.order[k]])
         /\ Cut(q, p, k, r)
         /\ p.cursor = IF Len(q.bucket[q.order[k]]) = 1
                       THEN CursorWithout(q, k) ELSE q.cursor
         /\ p.skips = [q.skips EXCEPT ![r] = 0]
         /\ p = [order |-> p.order, cursor |-> p.cursor, bucket |-> p.bucket, skips |-> p.skips]
  BY RemovedIsCut
<1> HIDE DEF p
<1>2. /\ p.bucket \in [Tenants -> Seq(Requests)]
      /\ p.order \in Seq(Tenants)
      /\ ToSet(p.order) = {u \in Tenants : p.bucket[u] # <<>>}
      /\ IsInjective(p.order)
      /\ Owned(p, own)
      /\ Members(p) = Members(q) \ {r}
      /\ Shape(p) => \A s \in Requests : s # r /\ IsHead(q, s) => IsHead(p, s)
  BY <1>1, CutKeeps
<1>3. p.cursor \in Nat /\ (p.cursor = 0 \/ p.cursor < Len(p.order))
  <2>1. /\ q.order \in Seq(Tenants) /\ IsInjective(q.order)
        /\ Len(q.order) \in Nat /\ k \in 1..Len(q.order)
        /\ q.cursor \in Nat /\ (q.cursor = 0 \/ q.cursor < Len(q.order))
    BY DEF Shape, Ring
  <2>2. CASE Len(q.bucket[q.order[k]]) = 1
    <3>1. Len(p.order) = Len(q.order) - 1 /\ p.cursor = CursorWithout(q, k)
      BY <2>1, <2>2, <1>1, RemoveAtElements DEF Cut
    <3> QED
      BY <3>1, <2>1 DEF CursorWithout
  <2>3. CASE Len(q.bucket[q.order[k]]) # 1
    BY <2>1, <2>3, <1>1 DEF Cut
  <2> QED
    BY <2>2, <2>3
<1>4. p.skips \in [Requests -> 0..MaxSkips]
  BY <1>1, MaxSkipsPositive DEF Shape
<1>5. Shape(p)
  BY <1>1, <1>2, <1>3, <1>4 DEF Shape
<1>6. Ring(p)
  BY <1>2, <1>3 DEF Ring
<1>7. Heads(p)
  <2>1. SUFFICES ASSUME NEW s \in Requests, p.skips[s] > 0 PROVE IsHead(p, s)
    BY DEF Heads
  <2>2. s # r /\ q.skips[s] > 0
    BY <2>1, <1>1 DEF Shape
  <2> QED
    BY <2>2, <1>2, <1>5 DEF Heads
<1> QED
  BY <1>2, <1>5, <1>6, <1>7 DEF p

-----------------------------------------------------------------------------
(***************************************************************************)
(* The turn order as a ring.  Of n tenants with the cursor at c, the i-th  *)
(* is Distance(n, c, i) turns away; cutting the k-th moves those after it. *)
(***************************************************************************)
Distance(n, z, i) == IF i - 1 >= z THEN i - 1 - z ELSE i - 1 - z + n
Moved(k, i) == IF i < k THEN i ELSE i - 1
CursorCut(n, z, k) ==
    IF n = 1 THEN 0 ELSE IF k - 1 < z THEN z - 1 ELSE IF z >= n - 1 THEN 0 ELSE z

(* The turn of a bucket is its distance from the cursor.                   *)
LEMMA TurnIsDistance ==
    ASSUME NEW q, Shape(q), Ring(q), NEW i \in DOMAIN q.order
    PROVE  TurnOf(q, i) = Distance(Len(q.order), q.cursor, i)
<1>1. /\ Len(q.order) \in Nat /\ i \in 1..Len(q.order) /\ q.cursor \in Nat
      /\ q.cursor = 0 \/ q.cursor < Len(q.order)
  BY DEF Shape, Ring
<1>2. \A n \in Nat, a \in Int : 0 <= a /\ a < n => a % n = a
  OBVIOUS
<1>3. \A n \in Nat, a \in Int : -n <= a /\ a < 0 => a % n = a + n
  OBVIOUS
<1> QED
  BY <1>1, <1>2, <1>3, SMTT(40) DEF TurnOf, Distance

(* Another tenant at the end, the k-th tenant gone, the k-th tenant served *)
(* and kept, the k-th tenant served for the last time: of two tenants the  *)
(* one before the other stays before it.  Who was served and kept is last. *)
LEMMA RingAppend ==
    ASSUME NEW n \in Nat, NEW z \in Nat, z < n, NEW i \in 1..n, NEW j \in 1..n,
           Distance(n, z, i) < Distance(n, z, j)
    PROVE  Distance(n + 1, z, i) < Distance(n + 1, z, j)
  BY DEF Distance

(* A bucket that goes away changes the order of the others by nothing.     *)
LEMMA RingCut ==
    ASSUME NEW n \in Nat, NEW z \in Nat, z < n, NEW k \in 1..n,
           NEW i \in 1..n, NEW j \in 1..n, i # k, j # k,
           Distance(n, z, i) < Distance(n, z, j)
    PROVE  Distance(n - 1, CursorCut(n, z, k), Moved(k, i))
              < Distance(n - 1, CursorCut(n, z, k), Moved(k, j))
  BY DEF Distance, CursorCut, Moved

(* Those after the served bucket keep their order.                         *)
LEMMA RingServed ==
    ASSUME NEW n \in Nat, NEW z \in Nat, z < n, NEW k \in 1..n,
           NEW i \in 1..n, NEW j \in 1..n,
           Distance(n, z, k) < Distance(n, z, i),
           j = k \/ Distance(n, z, i) < Distance(n, z, j)
    PROVE  Distance(n, k % n, i) < Distance(n, k % n, j)
<1>1. k % n = IF k = n THEN 0 ELSE k
  OBVIOUS
<1> QED
  BY <1>1 DEF Distance

(* and so they do if the served bucket goes away.                          *)
LEMMA RingServedLast ==
    ASSUME NEW n \in Nat, NEW z \in Nat, z < n, NEW k \in 1..n,
           NEW i \in 1..n, NEW j \in 1..n,
           Distance(n, z, k) < Distance(n, z, i), Distance(n, z, i) < Distance(n, z, j)
    PROVE  Distance(n - 1, (k - 1) % (n - 1), Moved(k, i))
              < Distance(n - 1, (k - 1) % (n - 1), Moved(k, j))
<1>1. n - 1 \in Nat /\ n - 1 >= 1
  BY DEF Distance
<1>2. \A m \in Nat, a \in Nat : m >= 1 /\ a < m => a % m = a
  OBVIOUS
<1>3. \A m \in Nat : m >= 1 => m % m = 0
  OBVIOUS
<1>4. (k - 1) % (n - 1) = IF k = n THEN 0 ELSE k - 1
  <2>1. CASE k = n
    BY <2>1, <1>1, <1>3
  <2>2. CASE k # n
    <3>1. k - 1 \in Nat /\ k - 1 < n - 1
      BY <2>2
    <3> QED
      BY <2>2, <3>1, <1>1, <1>2
  <2> QED
    BY <2>1, <2>2
<1> QED
  BY <1>1, <1>4 DEF Distance, Moved

-----------------------------------------------------------------------------
(* Tenant s has its turn before tenant t.                                  *)
Before(q, s, t) ==
    \E i, j \in DOMAIN q.order :
       q.order[i] = s /\ q.order[j] = t /\ TurnOf(q, i) < TurnOf(q, j)

(* A ring with somebody in it, as numbers.                                 *)
LEMMA RingNumbers ==
    ASSUME NEW q, Shape(q), Ring(q), NEW i \in DOMAIN q.order
    PROVE  /\ Len(q.order) \in Nat
           /\ DOMAIN q.order = 1..Len(q.order)
           /\ i \in 1..Len(q.order)
           /\ q.cursor \in Nat
           /\ q.cursor < Len(q.order)
  BY DEF Shape, Ring

(* Each place is another number of turns away.                             *)
LEMMA TurnsDiffer ==
    ASSUME NEW q, Shape(q), Ring(q), NEW i \in DOMAIN q.order, NEW j \in DOMAIN q.order,
           i # j
    PROVE  /\ TurnOf(q, i) \in Int /\ TurnOf(q, j) \in Int
           /\ TurnOf(q, i) # TurnOf(q, j)
           /\ TurnOf(q, i) < TurnOf(q, j) => ~(TurnOf(q, j) < TurnOf(q, i))
<1>1. /\ TurnOf(q, i) = Distance(Len(q.order), q.cursor, i)
      /\ TurnOf(q, j) = Distance(Len(q.order), q.cursor, j)
  BY TurnIsDistance
<1>2. /\ Len(q.order) \in Nat /\ q.cursor \in Nat /\ q.cursor < Len(q.order)
      /\ i \in 1..Len(q.order) /\ j \in 1..Len(q.order)
  BY RingNumbers
<1>3. \A n, z \in Nat : \A a, b \in 1..n : z < n /\ a # b =>
         /\ Distance(n, z, a) \in Int /\ Distance(n, z, b) \in Int
         /\ Distance(n, z, a) # Distance(n, z, b)
  BY DEF Distance
<1>4. \A x, y \in Int : x < y => ~(y < x)
  OBVIOUS
<1>5. TurnOf(q, i) \in Int /\ TurnOf(q, j) \in Int /\ TurnOf(q, i) # TurnOf(q, j)
  BY <1>1, <1>2, <1>3
<1> QED
  BY <1>4, <1>5

(* enqueue keeps the turns of those that are there.                        *)
LEMMA EnqueueKeepsOrder ==
    ASSUME NEW own \in [Requests -> Tenants], NEW q, WellFormed(q, own), NEW r \in Requests, r \notin Members(q),
           NEW s, NEW t, Before(q, s, t)
    PROVE  Before(Enqueue(q, r, own[r]), s, t)
<1> DEFINE p == Enqueue(q, r, own[r])
           n == Len(q.order)
           z == q.cursor
<1> USE DEF WellFormed
<1>1. PICK i, j \in DOMAIN q.order :
         q.order[i] = s /\ q.order[j] = t /\ TurnOf(q, i) < TurnOf(q, j)
  BY DEF Before
<1>2. WellFormed(p, own)
  BY EnqueueWellFormed
<1>3. p.cursor = z /\ (p.order = q.order \/ p.order = Append(q.order, own[r]))
  BY DEF Enqueue, Shape
<1> SUFFICES Before(p, s, t)
  OBVIOUS
<1> HIDE DEF p
<1>4. /\ n \in Nat /\ z \in Nat /\ z < n /\ i \in 1..n /\ j \in 1..n
      /\ TurnOf(q, i) = Distance(n, z, i)
      /\ TurnOf(q, j) = Distance(n, z, j)
  BY RingNumbers, TurnIsDistance
<1>5. CASE p.order = q.order
  BY <1>1, <1>3, <1>5 DEF Before, TurnOf
<1>6. CASE p.order = Append(q.order, own[r])
  <2>1. q.order \in Seq(Tenants) /\ own[r] \in Tenants
    BY DEF Shape
  <2>2. /\ Len(p.order) = n + 1
        /\ i \in DOMAIN p.order /\ j \in DOMAIN p.order
        /\ p.order[i] = s /\ p.order[j] = t
    BY <2>1, <1>1, <1>4, <1>6
  <2>3. Distance(n + 1, z, i) < Distance(n + 1, z, j)
    BY <1>1, <1>4, RingAppend
  <2>4. /\ TurnOf(p, i) = Distance(n + 1, z, i)
        /\ TurnOf(p, j) = Distance(n + 1, z, j)
    BY <2>2, <1>2, <1>3, TurnIsDistance
  <2> QED
    BY <2>2, <2>3, <2>4 DEF Before
<1> QED
  BY <1>3, <1>5, <1>6

(* Where the others are once the k-th tenant is cut out of the order.      *)
LEMMA MovedPlace ==
    ASSUME NEW q, Shape(q), Ring(q), NEW k \in DOMAIN q.order, NEW i \in DOMAIN q.order,
           i # k
    PROVE  /\ Len(RemoveAt(q.order, k)) = Len(q.order) - 1
           /\ Moved(k, i) \in DOMAIN RemoveAt(q.order, k)
           /\ RemoveAt(q.order, k)[Moved(k, i)] = q.order[i]
<1> DEFINE o == RemoveAt(q.order, k)
<1>1. q.order \in Seq(Tenants) /\ IsInjective(q.order)
  BY DEF Shape, Ring
<1>2. k \in 1..Len(q.order) /\ i \in 1..Len(q.order) /\ Len(q.order) \in Nat
  BY <1>1
<1>3. /\ o \in Seq(Tenants)
      /\ Len(o) = Len(q.order) - 1
      /\ \A j \in 1..(Len(q.order) - 1) :
            o[j] = IF j < k THEN q.order[j] ELSE q.order[j + 1]
  BY <1>1, <1>2, RemoveAtElements
<1> HIDE DEF o
<1>4. Moved(k, i) \in 1..(Len(q.order) - 1)
  BY <1>2 DEF Moved
<1>5. DOMAIN o = 1..(Len(q.order) - 1)
  BY <1>3
<1>6. o[Moved(k, i)] = q.order[i]
  BY <1>2, <1>3, <1>4 DEF Moved
<1> QED
  BY <1>3, <1>4, <1>5, <1>6 DEF o

(* removeById keeps the turns of all tenants that keep a bucket.           *)
LEMMA RemovedKeepsOrder ==
    ASSUME NEW own \in [Requests -> Tenants], NEW q, WellFormed(q, own), NEW r \in Requests, r \in Members(q),
           NEW s \in Tenants, NEW t \in Tenants, Before(q, s, t),
           Removed(q, r).bucket[s] # <<>>, Removed(q, r).bucket[t] # <<>>
    PROVE  Before(Removed(q, r), s, t)
<1> DEFINE p == Removed(q, r)
           n == Len(q.order)
           z == q.cursor
<1> USE DEF WellFormed
<1>1. PICK i, j \in DOMAIN q.order :
         q.order[i] = s /\ q.order[j] = t /\ TurnOf(q, i) < TurnOf(q, j)
  BY DEF Before
<1>2. PICK k \in DOMAIN q.order :
         /\ r \in ToSet(q.bucket[q.order[k]])
         /\ Cut(q, p, k, r)
         /\ p.cursor = IF Len(q.bucket[q.order[k]]) = 1
                       THEN CursorWithout(q, k) ELSE q.cursor
         /\ p.skips = [q.skips EXCEPT ![r] = 0]
         /\ p = [order |-> p.order, cursor |-> p.cursor, bucket |-> p.bucket, skips |-> p.skips]
  <2>1. \E k \in DOMAIN q.order :
           /\ q.order[k] = own[r]
           /\ r \in ToSet(q.bucket[q.order[k]])
           /\ Cut(q, p, k, r)
           /\ p.cursor = IF Len(q.bucket[q.order[k]]) = 1
                         THEN CursorWithout(q, k) ELSE q.cursor
           /\ p.skips = [q.skips EXCEPT ![r] = 0]
           /\ p = [order |-> p.order, cursor |-> p.cursor, bucket |-> p.bucket, skips |-> p.skips]
    BY RemovedIsCut, SMTT(40)
  <2> HIDE DEF p
  <2> QED
    BY <2>1
<1>3. WellFormed(p, own)
  BY RemovedWellFormed
<1>4. p.bucket[s] # <<>> /\ p.bucket[t] # <<>>
  OBVIOUS
<1> SUFFICES Before(p, s, t)
  OBVIOUS
<1> HIDE DEF p
<1>5. p.order = IF Len(q.bucket[q.order[k]]) = 1 THEN RemoveAt(q.order, k) ELSE q.order
  BY <1>2 DEF Cut
<1>6. Len(q.bucket[q.order[k]]) = 1 => i # k /\ j # k
  <2>1. p.bucket[q.order[k]] = <<>> <=> Len(q.bucket[q.order[k]]) = 1
    BY <1>2, CutKeeps
  <2> QED
    BY <2>1, <1>1, <1>4
<1>7. /\ n \in Nat /\ z \in Nat /\ z < n /\ i \in 1..n /\ j \in 1..n /\ k \in 1..n
      /\ TurnOf(q, i) = Distance(n, z, i)
      /\ TurnOf(q, j) = Distance(n, z, j)
  BY RingNumbers, TurnIsDistance
<1>8. CASE Len(q.bucket[q.order[k]]) # 1
  BY <1>1, <1>2, <1>5, <1>8 DEF Before, TurnOf
<1>9. CASE Len(q.bucket[q.order[k]]) = 1
  <2>1. /\ Len(p.order) = n - 1
        /\ Moved(k, i) \in DOMAIN p.order /\ Moved(k, j) \in DOMAIN p.order
        /\ p.order[Moved(k, i)] = s /\ p.order[Moved(k, j)] = t
    BY <1>1, <1>5, <1>6, <1>9, MovedPlace
  <2>2. p.cursor = CursorCut(n, z, k)
    BY <1>2, <1>9 DEF CursorWithout, CursorCut
  <2>3. Distance(n - 1, p.cursor, Moved(k, i)) < Distance(n - 1, p.cursor, Moved(k, j))
    BY <2>2, <1>1, <1>6, <1>7, <1>9, RingCut
  <2>4. /\ TurnOf(p, Moved(k, i)) = Distance(n - 1, p.cursor, Moved(k, i))
        /\ TurnOf(p, Moved(k, j)) = Distance(n - 1, p.cursor, Moved(k, j))
    BY <2>1, <1>3, TurnIsDistance
  <2> QED
    BY <2>1, <2>3, <2>4 DEF Before
<1> QED
  BY <1>8, <1>9

(* takeAt: a tenant that was passed by the served one has its turn before  *)
(* all that had theirs after it, and before the served one if that one     *)
(* keeps a bucket.                                                         *)
LEMMA TakenKeepsOrder ==
    ASSUME NEW own \in [Requests -> Tenants], NEW q, WellFormed(q, own),
           NEW k \in DOMAIN q.order, NEW i \in DOMAIN q.order, NEW j \in DOMAIN q.order,
           TurnOf(q, k) < TurnOf(q, i),
           j = k \/ TurnOf(q, i) < TurnOf(q, j),
           Taken(q, k).bucket[q.order[j]] # <<>>
    PROVE  Before(Taken(q, k), q.order[i], q.order[j])
<1> DEFINE p == Taken(q, k)
           x == HeadAt(q, k)
           b == q.bucket[q.order[k]]
           n == Len(q.order)
           z == q.cursor
<1> USE DEF WellFormed
<1>1. /\ Cut(q, p, k, x)
      /\ p.cursor = IF p.order = <<>> THEN 0
                    ELSE (IF Len(b) = 1 THEN k - 1 ELSE k) % Len(p.order)
  BY TakenIsCut
<1>2. WellFormed(p, own) /\ p.bucket[q.order[j]] # <<>> /\ x \in ToSet(b)
  BY TakenWellFormed, HeadOf
<1> SUFFICES Before(p, q.order[i], q.order[j])
  OBVIOUS
<1> HIDE DEF p, x
<1>3. p.order = IF Len(b) = 1 THEN RemoveAt(q.order, k) ELSE q.order
  BY <1>1 DEF Cut
<1>4. /\ n \in Nat /\ z \in Nat /\ z < n /\ i \in 1..n /\ j \in 1..n /\ k \in 1..n
      /\ TurnOf(q, i) = Distance(n, z, i)
      /\ TurnOf(q, j) = Distance(n, z, j)
      /\ TurnOf(q, k) = Distance(n, z, k)
  BY RingNumbers, TurnIsDistance
<1>5. CASE Len(b) # 1
  <2>1. p.order = q.order /\ p.cursor = k % n
    <3>1. q.order # <<>>
      BY <1>4
    <3> QED
      BY <3>1, <1>1, <1>3, <1>5
  <2>2. Distance(n, p.cursor, i) < Distance(n, p.cursor, j)
    BY <2>1, <1>4, RingServed
  <2>3. /\ TurnOf(p, i) = Distance(n, p.cursor, i)
        /\ TurnOf(p, j) = Distance(n, p.cursor, j)
    BY <2>1, <1>2, TurnIsDistance
  <2> QED
    BY <2>1, <2>2, <2>3 DEF Before
<1>6. CASE Len(b) = 1
  <2>1. i # k /\ j # k
    <3>1. p.bucket[q.order[k]] = <<>>
      BY <1>1, <1>2, <1>6, CutKeeps
    <3>2. j # k
      BY <3>1, <1>2
    <3>3. i # k
      BY <1>4 DEF Distance
    <3> QED
      BY <3>2, <3>3
  <2>2. /\ Len(p.order) = n - 1
        /\ Moved(k, i) \in DOMAIN p.order /\ Moved(k, j) \in DOMAIN p.order
        /\ p.order[Moved(k, i)] = q.order[i] /\ p.order[Moved(k, j)] = q.order[j]
    BY <2>1, <1>3, <1>6, MovedPlace
  <2>3. p.cursor = (k - 1) % (n - 1)
    <3>1. p.order # <<>>
      BY <2>2
    <3> QED
      BY <3>1, <2>2, <1>1, <1>6
  <2>4. Distance(n - 1, p.cursor, Moved(k, i)) < Distance(n - 1, p.cursor, Moved(k, j))
    BY <2>1, <2>3, <1>4, RingServedLast
  <2>5. /\ TurnOf(p, Moved(k, i)) = Distance(n - 1, p.cursor, Moved(k, i))
        /\ TurnOf(p, Moved(k, j)) = Distance(n - 1, p.cursor, Moved(k, j))
    BY <2>2, <1>2, TurnIsDistance
  <2> QED
    BY <2>2, <2>4, <2>5 DEF Before
<1> QED
  BY <1>5, <1>6

-----------------------------------------------------------------------------
(***************************************************************************)
(* The inductive invariant of FairQueueRounds: the queue is well formed,   *)
(* arrived lists its members, and whoever counts a turn of another tenant  *)
(* against itself is at the head of its bucket and, if it always fits,     *)
(* comes before that tenant the next time.                                 *)
(***************************************************************************)
Arrivals ==
    /\ arrived \in Seq(Requests)
    /\ IsInjective(arrived)
    /\ ToSet(arrived) = Members(queue)

TurnsCounted ==
    /\ turns \in [Requests -> [Tenants -> Nat]]
    /\ \A r \in Requests, t \in Tenants :
          turns[r][t] > 0 => AtHead(queue, r) /\ queue.bucket[t] # <<>>

OneTurn ==
    \A r \in Requests, t \in Tenants :
       Cost[r] = 1 =>
          /\ turns[r][t] <= 1
          /\ turns[r][t] = 1 => Before(queue, TenantOf[r], t)

QueueInv == WellFormed(queue, TenantOf) /\ Arrivals /\ TurnsCounted /\ OneTurn

(* Those whose turn it may be are in the turn order.                       *)
LEMMA TurnsArePlaces ==
    ASSUME NEW q, NEW room, NEW a, NEW i \in Turns(q, room, a)
    PROVE  /\ i \in DOMAIN q.order
           /\ Cost[HeadAt(q, i)] <= room
           /\ Reserved(q) = {} =>
                 \A j \in DOMAIN q.order :
                    Cost[HeadAt(q, j)] <= room => TurnOf(q, i) <= TurnOf(q, j)
           /\ Reserved(q) # {} => i = Oldest(q, a)
  BY DEF Turns

(* The head of a bucket, as FairQueueRounds says it.                       *)
LEMMA AtHeadIs ==
    ASSUME TenantsAssigned, NEW q, WellFormed(q, TenantOf), NEW r \in Requests
    PROVE  AtHead(q, r) <=> IsHead(q, r)
<1>1. TenantOf \in [Requests -> Tenants] /\ Shape(q) /\ Owned(q, TenantOf)
  BY DEF TenantsAssigned, WellFormed
<1>2. /\ r \in Members(q) <=> r \in ToSet(q.bucket[TenantOf[r]])
      /\ IsHead(q, r) <=> q.bucket[TenantOf[r]] # <<>> /\ Head(q.bucket[TenantOf[r]]) = r
  BY <1>1, InOwnBucket
<1>3. q.bucket[TenantOf[r]] \in Seq(Requests)
  BY <1>1 DEF Shape
<1>4. \A b \in Seq(Requests) : b # <<>> => Head(b) \in ToSet(b)
  BY DEF ToSet
<1>5. ToSet(<<>>) = {}
  BY DEF ToSet
<1> QED
  BY <1>2, <1>3, <1>4, <1>5 DEF AtHead

(* The place of a request that is at the head of its bucket.               *)
LEMMA PlaceOfHead ==
    ASSUME TenantsAssigned, NEW q, WellFormed(q, TenantOf), NEW r \in Requests, AtHead(q, r)
    PROVE  \E i \in DOMAIN q.order : q.order[i] = TenantOf[r] /\ HeadAt(q, i) = r
<1>1. /\ TenantOf[r] \in Tenants
      /\ q.bucket[TenantOf[r]] # <<>>
      /\ Head(q.bucket[TenantOf[r]]) = r
  <2>1. TenantOf \in [Requests -> Tenants] /\ IsHead(q, r)
    BY AtHeadIs DEF TenantsAssigned
  <2> QED
    BY <2>1, InOwnBucket DEF WellFormed
<1> QED
  BY <1>1, PlaceOf DEF HeadAt, WellFormed

-----------------------------------------------------------------------------
(* The invariant holds of the empty queue, and each action keeps it.       *)
LEMMA InitQueueInv == ASSUME TenantsAssigned, QueueInit PROVE QueueInv
<1>1. WellFormed(queue, TenantOf) /\ Members(queue) = {}
  BY EmptyWellFormed DEF QueueInit, TenantsAssigned
<1>2. Arrivals
  BY <1>1 DEF QueueInit, Arrivals, IsInjective, ToSet
<1>3. turns \in [Requests -> [Tenants -> Nat]] /\ \A r \in Requests, t \in Tenants : turns[r][t] = 0
  BY DEF QueueInit, NoTurns
<1> QED
  BY <1>1, <1>2, <1>3 DEF QueueInv, TurnsCounted, OneTurn

(* enqueue keeps the invariant.                                            *)
LEMMA JoinKeeps ==
    ASSUME TenantsAssigned, QueueInv, NEW r \in Requests, Join(r)
    PROVE  QueueInv'
<1> DEFINE p == Enqueue(queue, r, TenantOf[r])
<1>1. /\ r \notin Members(queue) /\ queue' = p
      /\ arrived' = Append(arrived, r) /\ turns' = turns
  BY DEF Join
<1>2. WellFormed(queue, TenantOf) /\ TenantOf \in [Requests -> Tenants]
  BY DEF QueueInv, TenantsAssigned
<1>3. /\ WellFormed(p, TenantOf)
      /\ Members(p) = Members(queue) \cup {r}
      /\ \A s \in Requests : AtHead(queue, s) => AtHead(p, s)
      /\ \A u \in Tenants : queue.bucket[u] # <<>> => p.bucket[u] # <<>>
  BY <1>1, <1>2, EnqueueWellFormed, AtHeadIs
<1>4. \A s, t : Before(queue, s, t) => Before(p, s, t)
  BY <1>1, <1>2, EnqueueKeepsOrder
<1> HIDE DEF p
<1>5. Arrivals'
  <2>1. /\ arrived \in Seq(Requests) /\ IsInjective(arrived)
        /\ r \notin ToSet(arrived)
    BY <1>1 DEF QueueInv, Arrivals
  <2>2. /\ arrived' \in Seq(Requests)
        /\ IsInjective(arrived')
        /\ ToSet(arrived') = ToSet(arrived) \cup {r}
    BY <2>1, <1>1, AppendElements
  <2>3. ToSet(arrived') = Members(queue')
    BY <2>2, <1>1, <1>3 DEF QueueInv, Arrivals
  <2> QED
    BY <2>2, <2>3 DEF Arrivals, Members, ToSet, IsInjective
<1>6. WellFormed(queue', TenantOf)
  BY <1>1, <1>3
<1>7. TurnsCounted'
  <2>1. turns' \in [Requests -> [Tenants -> Nat]]
    BY <1>1 DEF QueueInv, TurnsCounted
  <2>2. \A s \in Requests, t \in Tenants :
           turns'[s][t] > 0 => AtHead(queue', s) /\ queue'.bucket[t] # <<>>
    BY <1>1, <1>3 DEF QueueInv, TurnsCounted
  <2> QED
    BY <2>1, <2>2 DEF TurnsCounted
<1>8. OneTurn'
  <2>1. \A s \in Requests, t \in Tenants :
           Cost[s] = 1 =>
              /\ turns'[s][t] <= 1
              /\ turns'[s][t] = 1 => Before(queue', TenantOf[s], t)
    BY <1>1, <1>4 DEF QueueInv, OneTurn
  <2> QED
    BY <2>1 DEF OneTurn
<1> QED
  BY <1>5, <1>6, <1>7, <1>8 DEF QueueInv, WellFormed

(* What is counted after x is gone.                                        *)
LEMMA CountedTurns ==
    ASSUME TurnsCounted, NEW x, NEW served \in BOOLEAN, turns' = Counted(x, served)
    PROVE  /\ turns' \in [Requests -> [Tenants -> Nat]]
           /\ \A r \in Requests, t \in Tenants :
                 turns'[r][t] > 0 =>
                    /\ r # x /\ AtHead(queue, r) /\ queue'.bucket[t] # <<>>
                    /\ Reserved(queue) = {}
                    /\ turns'[r][t] =
                          turns[r][t] + (IF served /\ t = TenantOf[x] THEN 1 ELSE 0)
<1>1. \A r \in Requests, t \in Tenants : turns[r][t] \in Nat
  BY DEF TurnsCounted
<1> DEFINE Zero(r, t) == \/ r = x
                         \/ ~AtHead(queue, r)
                         \/ queue'.bucket[t] = <<>>
                         \/ Reserved(queue) # {}
           More(r, t) == turns[r][t] + (IF served /\ t = TenantOf[x] THEN 1 ELSE 0)
<1>2. turns' = [r \in Requests |-> [t \in Tenants |-> IF Zero(r, t) THEN 0 ELSE More(r, t)]]
  BY DEF Counted
<1>3. \A r \in Requests, t \in Tenants : More(r, t) \in Nat
  BY <1>1
<1> HIDE DEF Zero, More
<1>4. turns' \in [Requests -> [Tenants -> Nat]]
  BY <1>2, <1>3
<1>5. \A r \in Requests, t \in Tenants : turns'[r][t] > 0 => ~Zero(r, t) /\ turns'[r][t] = More(r, t)
  BY <1>2, <1>3
<1> QED
  BY <1>4, <1>5 DEF Zero, More

(* The arrivals once x is gone.                                            *)
LEMMA ArrivalsWithout ==
    ASSUME Arrivals, NEW x, arrived' = RemoveFirst(arrived, x),
           Members(queue') = Members(queue) \ {x}
    PROVE  Arrivals'
<1>1. /\ arrived' \in Seq(Requests)
      /\ IsInjective(arrived')
      /\ ToSet(arrived') = ToSet(arrived) \ {x}
  BY RemoveFirstElements DEF Arrivals
<1>2. ToSet(arrived') = Members(queue')
  BY <1>1 DEF Arrivals
<1> QED
  BY <1>1, <1>2 DEF Arrivals, Members, ToSet, IsInjective

(* removeById keeps it.                                                    *)
LEMMA LeaveKeeps ==
    ASSUME TenantsAssigned, QueueInv, NEW x \in Requests, Leave(x)
    PROVE  QueueInv'
<1> DEFINE p == Removed(queue, x)
<1>1. /\ x \in Members(queue) /\ queue' = p
      /\ arrived' = RemoveFirst(arrived, x) /\ turns' = Counted(x, FALSE)
  BY DEF Leave
<1>2. WellFormed(queue, TenantOf) /\ TenantOf \in [Requests -> Tenants]
  BY DEF QueueInv, TenantsAssigned
<1>3. /\ WellFormed(p, TenantOf)
      /\ Members(p) = Members(queue) \ {x}
      /\ \A s \in Requests : s # x /\ AtHead(queue, s) => AtHead(p, s)
  BY <1>1, <1>2, RemovedWellFormed, AtHeadIs
<1>4. \A s, t \in Tenants :
         Before(queue, s, t) /\ p.bucket[s] # <<>> /\ p.bucket[t] # <<>> => Before(p, s, t)
  BY <1>1, <1>2, RemovedKeepsOrder
<1> HIDE DEF p
<1>5. Arrivals'
  BY <1>1, <1>3, ArrivalsWithout DEF QueueInv
<1>6. WellFormed(queue', TenantOf)
  BY <1>1, <1>3
<1>7. /\ turns' \in [Requests -> [Tenants -> Nat]]
      /\ \A s \in Requests, t \in Tenants :
            turns'[s][t] > 0 =>
               s # x /\ AtHead(queue, s) /\ p.bucket[t] # <<>> /\ turns'[s][t] = turns[s][t]
  <2>1. \A s \in Requests, t \in Tenants : turns[s][t] \in Nat
    BY DEF QueueInv, TurnsCounted
  <2> QED
    <3>1. /\ turns' \in [Requests -> [Tenants -> Nat]]
          /\ \A s \in Requests, t \in Tenants :
                turns'[s][t] > 0 =>
                   /\ s # x /\ AtHead(queue, s) /\ queue'.bucket[t] # <<>>
                   /\ Reserved(queue) = {}
                   /\ turns'[s][t] =
                         turns[s][t] + (IF FALSE /\ t = TenantOf[x] THEN 1 ELSE 0)
      BY <1>1, CountedTurns DEF QueueInv
    <3>2. \A n \in Nat, t \in Tenants : n + (IF FALSE /\ t = TenantOf[x] THEN 1 ELSE 0) = n
      OBVIOUS
    <3> QED
      BY <3>1, <3>2, <2>1, <1>1
<1>8. TurnsCounted'
  <2>1. \A s \in Requests, t \in Tenants :
           turns'[s][t] > 0 => AtHead(queue', s) /\ queue'.bucket[t] # <<>>
    BY <1>1, <1>3, <1>7
  <2> QED
    BY <2>1, <1>7 DEF TurnsCounted
<1>9. OneTurn'
  <2>1. SUFFICES ASSUME NEW s \in Requests, NEW t \in Tenants, Cost[s] = 1
                 PROVE  /\ turns'[s][t] <= 1
                        /\ turns'[s][t] = 1 => Before(queue', TenantOf[s], t)
    BY DEF OneTurn
  <2>2. turns'[s][t] \in Nat
    BY <1>7
  <2>3. CASE turns'[s][t] > 0
    <3>1. /\ turns'[s][t] = turns[s][t] /\ p.bucket[t] # <<>> /\ AtHead(p, s)
      BY <2>3, <1>3, <1>7
    <3>2. turns[s][t] <= 1 /\ (turns[s][t] = 1 => Before(queue, TenantOf[s], t))
      BY <2>1 DEF QueueInv, OneTurn
    <3>3. TenantOf[s] \in Tenants /\ p.bucket[TenantOf[s]] # <<>>
      <4>1. IsHead(p, s)
        BY <3>1, <1>3, AtHeadIs
      <4> QED
        BY <4>1, <1>2, <1>3, InOwnBucket DEF WellFormed
    <3> QED
      BY <3>1, <3>2, <3>3, <1>1, <1>4
  <2> QED
    BY <2>2, <2>3
<1> QED
  BY <1>5, <1>6, <1>8, <1>9 DEF QueueInv, WellFormed

(* dequeue keeps it.                                                       *)
LEMMA ServeKeeps ==
    ASSUME TenantsAssigned, QueueInv, NEW room \in 1..2, Serve(room)
    PROVE  QueueInv'
<1>1. PICK k \in Turns(queue, room, arrived) :
         /\ queue' = Taken(queue, k)
         /\ arrived' = RemoveFirst(arrived, HeadAt(queue, k))
         /\ turns' = Counted(HeadAt(queue, k), TRUE)
  BY DEF Serve
<1> DEFINE p == Taken(queue, k)
           x == HeadAt(queue, k)
<1>2. /\ WellFormed(queue, TenantOf) /\ Shape(queue) /\ Ring(queue) /\ Owned(queue, TenantOf)
      /\ TenantOf \in [Requests -> Tenants]
  BY DEF QueueInv, WellFormed, TenantsAssigned
<1>3. /\ k \in DOMAIN queue.order
      /\ Reserved(queue) = {} =>
            \A j \in DOMAIN queue.order :
               Cost[HeadAt(queue, j)] <= room => TurnOf(queue, k) <= TurnOf(queue, j)
  BY TurnsArePlaces
<1>4. /\ WellFormed(p, TenantOf)
      /\ Members(p) = Members(queue) \ {x}
      /\ \A s \in Requests : s # x /\ AtHead(queue, s) => AtHead(p, s)
  BY <1>2, <1>3, TakenWellFormed, AtHeadIs
<1>5. \A i, j \in DOMAIN queue.order :
         /\ TurnOf(queue, k) < TurnOf(queue, i)
         /\ j = k \/ TurnOf(queue, i) < TurnOf(queue, j)
         /\ p.bucket[queue.order[j]] # <<>>
         => Before(p, queue.order[i], queue.order[j])
  BY <1>2, <1>3, TakenKeepsOrder
<1>6. queue.order[k] = TenantOf[x]
  BY <1>2, <1>3, HeadOf
<1>7. queue' = p /\ arrived' = RemoveFirst(arrived, x) /\ turns' = Counted(x, TRUE)
  BY <1>1
<1> HIDE DEF p
<1>8. Arrivals'
  BY <1>4, <1>7, ArrivalsWithout DEF QueueInv
<1>9. WellFormed(queue', TenantOf)
  BY <1>4, <1>7
<1>10. /\ turns' \in [Requests -> [Tenants -> Nat]]
       /\ \A s \in Requests, t \in Tenants :
             turns'[s][t] > 0 =>
                /\ s # x /\ AtHead(queue, s) /\ p.bucket[t] # <<>>
                /\ Reserved(queue) = {}
                /\ turns'[s][t] = turns[s][t] + (IF t = TenantOf[x] THEN 1 ELSE 0)
  <2> HIDE DEF x
  <2>1. /\ turns' \in [Requests -> [Tenants -> Nat]]
        /\ \A s \in Requests, t \in Tenants :
              turns'[s][t] > 0 =>
                 /\ s # x /\ AtHead(queue, s) /\ queue'.bucket[t] # <<>>
                 /\ Reserved(queue) = {}
                 /\ turns'[s][t] =
                       turns[s][t] + (IF TRUE /\ t = TenantOf[x] THEN 1 ELSE 0)
    BY <1>7, CountedTurns DEF QueueInv
  <2> QED
    BY <2>1, <1>7
<1>11. TurnsCounted'
  <2>1. \A s \in Requests, t \in Tenants :
           turns'[s][t] > 0 => AtHead(queue', s) /\ queue'.bucket[t] # <<>>
    BY <1>4, <1>7, <1>10
  <2> QED
    BY <2>1, <1>10 DEF TurnsCounted
<1>12. OneTurn'
  <2>1. SUFFICES ASSUME NEW s \in Requests, NEW t \in Tenants, Cost[s] = 1, turns'[s][t] > 0
                 PROVE  turns'[s][t] = 1 /\ Before(queue', TenantOf[s], t)
    <3>1. \A s \in Requests, t \in Tenants : turns'[s][t] \in Nat
      BY <1>10
    <3> QED
      BY <3>1 DEF OneTurn
  <2>2. /\ s # x /\ AtHead(queue, s) /\ p.bucket[t] # <<>>
        /\ Reserved(queue) = {}
        /\ turns'[s][t] = turns[s][t] + (IF t = TenantOf[x] THEN 1 ELSE 0)
    BY <2>1, <1>10
  <2>3. PICK i \in DOMAIN queue.order :
           queue.order[i] = TenantOf[s] /\ HeadAt(queue, i) = s
    BY <2>2, <1>2, PlaceOfHead
  <2>4. TurnOf(queue, k) < TurnOf(queue, i)
    <3>1. TurnOf(queue, k) <= TurnOf(queue, i)
      BY <2>1, <2>2, <2>3, <1>3
    <3>2. i # k
      BY <2>2, <2>3
    <3> QED
      BY <3>1, <3>2, <1>2, <1>3, TurnsDiffer
  <2>5. /\ turns[s][t] \in Nat /\ turns[s][t] <= 1
        /\ turns[s][t] = 1 => Before(queue, TenantOf[s], t)
    BY <2>1 DEF QueueInv, OneTurn, TurnsCounted
  <2>6. CASE turns[s][t] = 1
    <3>1. PICK a, j \in DOMAIN queue.order :
             /\ queue.order[a] = TenantOf[s] /\ queue.order[j] = t
             /\ TurnOf(queue, a) < TurnOf(queue, j)
      BY <2>5, <2>6 DEF Before
    <3>2. a = i
      BY <3>1, <2>3, <1>2 DEF Ring, IsInjective
    <3>3. j # k
      <4>1. i # k
        BY <2>2, <2>3
      <4> QED
        BY <4>1, <3>1, <3>2, <2>4, <1>2, <1>3, TurnsDiffer
    <3>4. t # TenantOf[x]
      BY <3>1, <3>3, <1>2, <1>3, <1>6 DEF Ring, IsInjective
    <3>5. Before(p, queue.order[i], queue.order[j])
      BY <3>1, <3>2, <2>2, <2>4, <1>5
    <3> QED
      BY <3>1, <3>4, <3>5, <2>2, <2>3, <2>6, <1>7
  <2>7. CASE turns[s][t] = 0
    <3>1. t = TenantOf[x]
      BY <2>1, <2>2, <2>7
    <3>2. Before(p, queue.order[i], queue.order[k])
      BY <3>1, <2>2, <2>4, <1>3, <1>5, <1>6
    <3> QED
      BY <3>1, <3>2, <2>2, <2>3, <2>7, <1>6, <1>7
  <2> QED
    BY <2>5, <2>6, <2>7
<1> QED
  BY <1>8, <1>9, <1>11, <1>12 DEF QueueInv, WellFormed

(* Every step keeps it.                                                    *)
LEMMA NextKeeps ==
    ASSUME TenantsAssigned, QueueInv, [QueueNext]_queueVars PROVE QueueInv'
<1>1. CASE \E r \in Requests : Join(r)
  BY <1>1, JoinKeeps
<1>2. CASE \E r \in Requests : Leave(r)
  BY <1>2, LeaveKeeps
<1>3. CASE \E room \in 1..2 : Serve(room)
  BY <1>3, ServeKeeps
<1>4. CASE UNCHANGED queueVars
  <2>1. queue' = queue /\ arrived' = arrived /\ turns' = turns
    BY <1>4 DEF queueVars
  <2>2. WellFormed(queue, TenantOf)' /\ TurnsCounted' /\ OneTurn'
    BY <2>1 DEF QueueInv, TurnsCounted, OneTurn
  <2>3. Arrivals'
    <3>1. /\ arrived' \in Seq(Requests) /\ IsInjective(arrived')
          /\ ToSet(arrived') = Members(queue')
      BY <2>1 DEF QueueInv, Arrivals
    <3> QED
      BY <3>1 DEF Arrivals, Members, ToSet, IsInjective
  <2> QED
    BY <2>2, <2>3 DEF QueueInv
<1> QED
  BY <1>1, <1>2, <1>3, <1>4 DEF QueueNext

-----------------------------------------------------------------------------
(* The invariant holds in every state.                                     *)
THEOREM QueueInvariance ==
    ASSUME TenantsAssigned PROVE QueueSpec => []QueueInv
<1>1. QueueInit => QueueInv
  BY InitQueueInv
<1>2. QueueInv /\ [QueueNext]_queueVars => QueueInv'
  BY NextKeeps
<1> QED
  BY <1>1, <1>2, PTL DEF QueueSpec

(* FairCostQueue's types; the cursor stays within the turn order           *)
(* (takeAt, removeById).                                                   *)
THEOREM QueueTypeCorrect ==
    ASSUME TenantsAssigned PROVE QueueSpec => []QueueTypeOK
<1>1. QueueInv => QueueTypeOK
  <2>1. \A n \in Nat : Max({0, n}) = n
    <3>1. SUFFICES ASSUME NEW n \in Nat PROVE Max({0, n}) = n
      OBVIOUS
    <3>2. n \in {0, n} /\ \A m \in {0, n} : m <= n
      OBVIOUS
    <3>3. \A m \in {0, n} : (\A l \in {0, n} : l <= m) => m = n
      OBVIOUS
    <3> QED
      BY <3>2, <3>3 DEF Max
  <2>2. Max({0, -1}) = 0
    <3>1. 0 \in {0, -1} /\ \A m \in {0, -1} : m <= 0
      OBVIOUS
    <3>2. \A m \in {0, -1} : (\A l \in {0, -1} : l <= m) => m = 0
      OBVIOUS
    <3> QED
      BY <3>1, <3>2 DEF Max
  <2>3. ASSUME QueueInv PROVE queue.cursor \in 0..Max({0, Len(queue.order) - 1})
    <3>1. /\ Len(queue.order) \in Nat /\ queue.cursor \in Nat
          /\ queue.cursor = 0 \/ queue.cursor < Len(queue.order)
      BY <2>3 DEF QueueInv, WellFormed, Shape, Ring
    <3>2. CASE Len(queue.order) = 0
      BY <3>1, <3>2, <2>2
    <3>3. CASE Len(queue.order) # 0
      <4>1. Len(queue.order) - 1 \in Nat
        BY <3>1, <3>3
      <4> QED
        BY <4>1, <3>1, <2>1
    <3> QED
      BY <3>2, <3>3
  <2> QED
    BY <2>3 DEF QueueTypeOK, QueueInv, WellFormed, Shape, Arrivals
<1> QED
  BY <1>1, QueueInvariance, PTL

(* The bookkeeping of FairCostQueue: the turn order and the buckets agree, *)
(* and only heads are marked as passed.                                    *)
THEOREM OrderAgrees ==
    ASSUME TenantsAssigned PROVE QueueSpec => []OrderIsBuckets
<1>1. QueueInv => OrderIsBuckets
  BY AtHeadIs DEF OrderIsBuckets, QueueInv, WellFormed, Ring, Heads
<1> QED
  BY <1>1, QueueInvariance, PTL

(* Turns are taken, for any number of tenants: none is served twice, its   *)
(* bucket staying filled, while the head of another that always fits waits *)
(* (dequeue, takeAt, removeById).                                          *)
THEOREM TurnsTaken ==
    ASSUME TenantsAssigned PROVE QueueSpec => []TurnsAreTaken
<1>1. QueueInv => TurnsAreTaken
  BY DEF QueueInv, OneTurn, TurnsAreTaken
<1> QED
  BY <1>1, QueueInvariance, PTL

-----------------------------------------------------------------------------
(* A set of numbers has a least one.                                       *)
LEMMA LeastNumber ==
    ASSUME NEW T \in SUBSET Nat, T # {}
    PROVE  \E x \in T : \A y \in T : x <= y
<1> DEFINE I == {0..n : n \in T}
           R == StrictSubsetOrdering(Nat)
<1>1. I \subseteq FiniteSubsetsOf(Nat)
  <2>1. \A n \in Nat : IsFiniteSet(0..n) /\ 0..n \in SUBSET Nat
    BY FS_Interval
  <2> QED
    BY <2>1 DEF FiniteSubsetsOf
<1>2. I # {} /\ \A y \in T : 0..y \in I
  OBVIOUS
<1>3. IsWellFoundedOn(R, FiniteSubsetsOf(Nat))
  BY FS_StrictSubsetOrderingWellFounded
<1> HIDE DEF R
<1>4. PICK X \in I : \A Y \in I : <<Y, X>> \notin R
  <2> HIDE DEF I
  <2> QED
    BY <1>1, <1>2, <1>3, WFMin
<1>5. PICK x \in T : X = 0..x
  OBVIOUS
<1>6. ASSUME NEW y \in T, y < x PROVE FALSE
  <2>1. x \in 0..x /\ x \notin 0..y
    BY <1>6
  <2>2. 0..y \subseteq 0..x /\ 0..y # 0..x
    BY <1>6, <2>1
  <2>3. <<0..y, X>> \in R
    BY <2>2, <1>5 DEF R, StrictSubsetOrdering
  <2> QED
    BY <2>3, <1>2, <1>4
<1> QED
  BY <1>6

(* When each request arrived.                                              *)
LEMMA ArrivalOf ==
    ASSUME Arrivals, NEW r \in Members(queue)
    PROVE  /\ Arrival(r, arrived) \in Nat
           /\ Arrival(r, arrived) \in DOMAIN arrived
           /\ arrived[Arrival(r, arrived)] = r
<1>1. arrived \in Seq(Requests) /\ r \in ToSet(arrived)
  BY DEF Arrivals
<1>2. \E n \in DOMAIN arrived : arrived[n] = r
  BY <1>1 DEF ToSet
<1> QED
  BY <1>1, <1>2 DEF Arrival

(* The reserved head that waits longest is well defined.                   *)
LEMMA OldestIsLeast ==
    ASSUME TenantsAssigned, QueueInv, Reserved(queue) # {}
    PROVE  LET i == Oldest(queue, arrived)
           IN  /\ i \in Reserved(queue)
               /\ \A j \in Reserved(queue) :
                     Arrival(HeadAt(queue, i), arrived) <= Arrival(HeadAt(queue, j), arrived)
<1> DEFINE when(j) == Arrival(HeadAt(queue, j), arrived)
           T == {when(j) : j \in Reserved(queue)}
<1>1. \A j \in Reserved(queue) : when(j) \in Nat
  <2>1. \A j \in Reserved(queue) : j \in DOMAIN queue.order
    BY DEF Reserved
  <2>2. \A j \in Reserved(queue) : HeadAt(queue, j) \in Members(queue)
    BY <2>1, HeadOf DEF QueueInv, WellFormed, TenantsAssigned
  <2> QED
    BY <2>2, ArrivalOf DEF QueueInv
<1> HIDE DEF when
<1>2. T \in SUBSET Nat /\ T # {}
  BY <1>1
<1>3. PICK x \in T : \A y \in T : x <= y
  BY <1>2, LeastNumber
<1>4. \E i \in Reserved(queue) : \A j \in Reserved(queue) : when(i) <= when(j)
  BY <1>3
<1> QED
  BY <1>4 DEF Oldest, when

(* What a turn takes when some heads are reserved: the longest waiting of  *)
(* them, so any other reserved head is overtaken by that one only.         *)
LEMMA OvertakenByOldest ==
    ASSUME TenantsAssigned, QueueInv,
           NEW r \in Members(queue), queue.skips[r] >= MaxSkips,
           NEW room \in 1..2, Serve(room),
           NEW x \in Members(queue) \ (Members(queue') \union {r})
    PROVE  /\ queue.skips[x] >= MaxSkips
           /\ Arrival(x, arrived) < Arrival(r, arrived)
<1> DEFINE k == Oldest(queue, arrived)
<1>1. /\ WellFormed(queue, TenantOf) /\ Shape(queue) /\ Ring(queue) /\ Owned(queue, TenantOf)
      /\ Heads(queue) /\ TenantOf \in [Requests -> Tenants]
  BY DEF QueueInv, WellFormed, TenantsAssigned
<1>2. r \in Requests
  <2>1. \A t \in Tenants : queue.bucket[t] \in Seq(Requests)
    BY <1>1 DEF Shape
  <2> QED
    BY <2>1 DEF Members, ToSet
<1>3. AtHead(queue, r)
  <2>1. queue.skips[r] \in Nat
    BY <1>1, <1>2 DEF Shape
  <2> QED
    BY <2>1, <1>1, <1>2, MaxSkipsPositive, AtHeadIs DEF Heads
<1>4. PICK i \in DOMAIN queue.order : HeadAt(queue, i) = r
  BY <1>1, <1>2, <1>3, PlaceOfHead
<1>5. i \in Reserved(queue)
  BY <1>4 DEF Reserved
<1>6. /\ k \in Reserved(queue)
      /\ Arrival(HeadAt(queue, k), arrived) <= Arrival(HeadAt(queue, i), arrived)
  BY <1>5, OldestIsLeast
<1>7. k \in DOMAIN queue.order /\ queue.skips[HeadAt(queue, k)] >= MaxSkips
  BY <1>6 DEF Reserved
<1>8. queue' = Taken(queue, k)
  <2>1. PICK j \in Turns(queue, room, arrived) : queue' = Taken(queue, j)
    BY DEF Serve
  <2>2. j = k
    BY <2>1, <1>5, TurnsArePlaces
  <2> QED
    BY <2>1, <2>2
<1> HIDE DEF k
<1>9. x = HeadAt(queue, k)
  <2>1. Members(queue') = Members(queue) \ {HeadAt(queue, k)}
    BY <1>1, <1>7, <1>8, TakenWellFormed
  <2> QED
    BY <2>1
<1>10. Arrival(x, arrived) # Arrival(r, arrived)
  <2>1. arrived[Arrival(x, arrived)] = x /\ arrived[Arrival(r, arrived)] = r
    BY ArrivalOf DEF QueueInv
  <2> QED
    BY <2>1
<1>11. Arrival(x, arrived) \in Nat /\ Arrival(r, arrived) \in Nat
  BY ArrivalOf DEF QueueInv
<1> QED
  BY <1>4, <1>6, <1>7, <1>9, <1>10, <1>11

(* A head that was passed MaxSkips times is overtaken only by one passed   *)
(* as often that has waited longer, for any number of tenants and any      *)
(* MaxSkips (dequeue).                                                     *)
THEOREM ReservedStay ==
    ASSUME TenantsAssigned PROVE QueueSpec => ReservedFirst
<1>1. QueueInv =>
         \A r \in Members(queue) :
            queue.skips[r] >= MaxSkips =>
               \A room \in 1..2 : Serve(room) =>
                  \A x \in Members(queue) \ (Members(queue') \union {r}) :
                     /\ queue.skips[x] >= MaxSkips
                     /\ Arrival(x, arrived) < Arrival(r, arrived)
  BY OvertakenByOldest
<1>2. QueueSpec => []QueueInv
  BY QueueInvariance
<1> QED
  BY <1>1, <1>2, PTL DEF ReservedFirst

-----------------------------------------------------------------------------
(***************************************************************************)
(* Loops.  The controller's loops are folds over sequences, and the sums   *)
(* folds over sets.  For a fold to be reasoned about, the recursive        *)
(* function in its definition is shown to exist, by induction on the size  *)
(* of a finite set, once for all rounds of a loop; then every fold over a  *)
(* sequence has a history of states, one per round.  w is what a round     *)
(* reads besides the state.                                                *)
(***************************************************************************)
(* Induction up to n.                                                      *)
LEMMA NumbersUpTo ==
    ASSUME NEW n \in Nat, NEW T, 0 \in T, \A i \in 1..n : i - 1 \in T => i \in T
    PROVE  \A i \in 0..n : i \in T
<1> DEFINE U == {i \in 0..n : i \notin T}
<1> SUFFICES ASSUME U # {} PROVE FALSE
  OBVIOUS
<1>1. U \in SUBSET Nat
  OBVIOUS
<1>2. PICK x \in U : \A y \in U : x <= y
  <2> HIDE DEF U
  <2> QED
    BY <1>1, LeastNumber
<1>3. x # 0 /\ x - 1 \in 0..n /\ x \in 1..n
  BY <1>2
<1>4. x - 1 \notin U
  BY <1>2, <1>3
<1> QED
  BY <1>2, <1>3, <1>4

(* The largest of the first numbers, which the folds take first.           *)
LEMMA LastOfPrefix ==
    ASSUME NEW n \in Nat
    PROVE  /\ IsFiniteSet(1..n)
           /\ \A A \in SUBSET (1..n) : A # {} => Max(A) \in A /\ \A x \in A : x <= Max(A)
           /\ \A i \in 1..n : Max(1..i) = i /\ (1..i) \ {i} = 1..(i - 1) /\ 1..i \in SUBSET (1..n)
<1>1. IsFiniteSet(1..n)
  BY FS_Interval
<1>2. ASSUME NEW A \in SUBSET (1..n), A # {} PROVE Max(A) \in A /\ \A x \in A : x <= Max(A)
  <2> DEFINE B == {n - x : x \in A}
  <2>1. \A x \in A : x \in 1..n /\ n - x \in Nat
    BY <1>2
  <2>9. B \in SUBSET Nat /\ B # {}
    BY <1>2, <2>1
  <2>2. PICK y \in B : \A z \in B : y <= z
    <3> HIDE DEF B
    <3> QED
      BY <2>9, LeastNumber
  <2>3. PICK x \in A : y = n - x
    BY <2>2
  <2>4. \A z \in A : n - x <= n - z
    BY <2>2, <2>3
  <2>5. \A z \in A : x >= z
    BY <2>1, <2>3, <2>4
  <2>6. Max(A) \in A /\ \A z \in A : Max(A) >= z
    BY <2>5 DEF Max
  <2> QED
    BY <2>6
<1>3. ASSUME NEW i \in 1..n
      PROVE  Max(1..i) = i /\ (1..i) \ {i} = 1..(i - 1) /\ 1..i \in SUBSET (1..n)
  <2>1. i \in 1..i /\ \A z \in 1..i : i >= z
    OBVIOUS
  <2>2. \A x \in 1..i : (\A z \in 1..i : x >= z) => x = i
    OBVIOUS
  <2>3. Max(1..i) = i
    BY <2>1, <2>2 DEF Max
  <2> QED
    BY <2>3
<1> QED
  BY <1>1, <1>2, <1>3

(* One round of each loop.                                                 *)
Round(loop, w, d, x) ==
    CASE loop = "settle" -> Settle(d, x)
      [] loop = "fail" -> Fail(d, x)
      [] loop = "delete" -> DeleteLane(d, x)
      [] loop = "serve" -> ServeLane(d, x)
      [] loop = "dispatch" -> DispatchOne(d, x)
      [] loop = "virtual" -> DispatchVirtualOne(d, x)
      [] loop = "requeue" -> Requeued(d, x)
      [] loop = "place" -> VirtuallyPlaced(d, x)
      [] loop = "without" -> Without(d, x)
      [] loop = "join" -> Joined(d, w, x)
      [] loop = "take" -> TakeNext(d, w)
      [] loop = "cost" -> x + d

(* f is the loop over the subsets of S that takes C[A] last of A.           *)
Loop(f, S, C, loop, w, base, s) ==
    /\ f = [A \in SUBSET S |-> f[A]]
    /\ \A A \in SUBSET S :
          f[A] = IF A = {} THEN base ELSE Round(loop, w, f[A \ {C[A]}], s[C[A]])

(* Such a function exists over a finite set, by induction on its size.     *)
LEMMA LoopDefined ==
    ASSUME NEW S, IsFiniteSet(S), NEW C, \A A \in SUBSET S : A # {} => C[A] \in A,
           NEW loop, NEW w, NEW base, NEW s
    PROVE  \E f : Loop(f, S, C, loop, w, base, s)
<1> DEFINE D(k) == {A \in SUBSET S : Cardinality(A) <= k}
           Body(f, A) == IF A = {} THEN base ELSE Round(loop, w, f[A \ {C[A]}], s[C[A]])
           P(k, f) == f = [A \in D(k) |-> f[A]] /\ \A A \in D(k) : f[A] = Body(f, A)
           T == {k \in 0..Cardinality(S) : \E f : P(k, f)}
<1>1. /\ \A A \in SUBSET S : IsFiniteSet(A) /\ Cardinality(A) \in 0..Cardinality(S)
      /\ Cardinality(S) \in Nat
  BY FS_Subset, FS_CardinalityType
<1>2. 0 \in T
  <2>1. \A A \in D(0) : A = {}
    BY <1>1, FS_EmptySet
  <2> DEFINE f == [A \in D(0) |-> base]
  <2>2. P(0, f)
    BY <2>1
  <2> HIDE DEF P
  <2> QED
    BY <2>2, <1>1
<1>3. ASSUME NEW k \in 1..Cardinality(S), k - 1 \in T PROVE k \in T
  <2>1. PICK f : P(k - 1, f)
    BY <1>3
  <2> DEFINE g == [A \in D(k) |-> Body(f, A)]
  <2>2. ASSUME NEW A \in D(k), A # {} PROVE A \ {C[A]} \in D(k) /\ A \ {C[A]} \in D(k - 1)
    <3>1. C[A] \in A /\ Cardinality(A) \in Nat /\ IsFiniteSet(A)
      BY <2>2, <1>1
    <3>2. Cardinality(A \ {C[A]}) = Cardinality(A) - 1
      BY <3>1, FS_RemoveElement
    <3> QED
      BY <3>1, <3>2
  <2>3. \A A \in D(k - 1) : f[A] = g[A]
    <3>1. D(k - 1) \subseteq D(k)
      BY <1>1
    <3> QED
      BY <3>1, <2>1
  <2>4. \A A \in D(k) : Body(g, A) = Body(f, A)
    BY <2>2, <2>3
  <2>5. P(k, g)
    BY <2>4
  <2> HIDE DEF P
  <2> QED
    BY <2>5, <1>1
<1>4. Cardinality(S) \in T
  <2> HIDE DEF T
  <2> QED
    BY <1>1, <1>2, <1>3, NumbersUpTo
<1>5. D(Cardinality(S)) = SUBSET S
  BY <1>1
<1>6. PICK f : P(Cardinality(S), f)
  BY <1>4
<1>7. Loop(f, S, C, loop, w, base, s)
  BY <1>5, <1>6 DEF Loop
<1> QED
  BY <1>7

Lasts(n) == [A \in SUBSET (1..n) |-> Max(A)]

(* The same for the rounds 1 to n.                                         *)
LEMMA LoopExists ==
    ASSUME NEW loop, NEW w, NEW base, NEW s, NEW n \in Nat
    PROVE  \E f : Loop(f, 1..n, Lasts(n), loop, w, base, s)
BY LastOfPrefix, LoopDefined DEF Lasts

(* The states h of a loop over s from base on, and e at its end.           *)
Runs(loop, w, base, s, e) ==
    \E h : /\ h[0] = base
           /\ \A i \in 1..Len(s) : h[i] = Round(loop, w, h[i - 1], s[i])
           /\ e = h[Len(s)]

(* Along the prefixes of a sequence it runs through the states of the      *)
(* loop.                                                                   *)
LEMMA LoopRuns ==
    ASSUME NEW loop, NEW w, NEW base, NEW S, NEW s \in Seq(S), NEW f,
           Loop(f, 1..Len(s), Lasts(Len(s)), loop, w, base, s)
    PROVE  Runs(loop, w, base, s, f[1..Len(s)])
<1> DEFINE n == Len(s)
           h == [i \in 0..n |-> f[1..i]]
<1>1. n \in Nat
  OBVIOUS
<1>0. \A A \in SUBSET (1..n) :
              f[A] = IF A = {} THEN base ELSE Round(loop, w, f[A \ {Max(A)}], s[Max(A)])
  BY DEF Loop, Lasts
<1> HIDE DEF n
<1>2. h[0] = base
  <2>1. 1..0 = {} /\ 1..0 \in SUBSET (1..n) /\ 0 \in 0..n
    BY <1>1
  <2>2. f[1..0] = base
    BY <2>1, <1>0
  <2> QED
    BY <2>1, <2>2
<1>3. ASSUME NEW i \in 1..n PROVE h[i] = Round(loop, w, h[i - 1], s[i])
  <2>1. Max(1..i) = i /\ (1..i) \ {i} = 1..(i - 1) /\ 1..i \in SUBSET (1..n)
    BY <1>1, LastOfPrefix
  <2>2. i \in 0..n /\ i - 1 \in 0..n /\ i \in 1..i
    BY <1>1
  <2>3. f[1..i] = Round(loop, w, f[1..(i - 1)], s[i])
    BY <2>1, <2>2, <1>0
  <2> QED
    BY <2>2, <2>3
<1>4. h[n] = f[1..n] /\ n \in 0..n
  BY <1>1
<1> HIDE DEF h
<1> QED
  BY <1>2, <1>3, <1>4 DEF Runs, n

(* The loops of the controller and of drain, one by one.                   *)
LEMMA SettleRuns ==
    ASSUME NEW d, NEW S, NEW s \in Seq(S)
    PROVE  Runs("settle", 0, d, s, FoldLeft(Settle, d, s))
<1> DEFINE D == SUBSET (1..Len(s))
           f == CHOOSE f : f = [A \in D |-> IF A = {} THEN d ELSE Settle(f[A \ {Max(A)}], s[Max(A)])]
<1>1. DOMAIN s = 1..Len(s) /\ Len(s) \in Nat
  OBVIOUS
<1>2. FoldLeft(Settle, d, s) = f[1..Len(s)]
  BY <1>1 DEF FoldLeft, MapThenFoldSet
<1>3. \A g, x : Round("settle", 0, g, x) = Settle(g, x)
  BY DEF Round
<1>4. PICK g : Loop(g, 1..Len(s), Lasts(Len(s)), "settle", 0, d, s)
  BY <1>1, LoopExists
<1>5. g = [A \in D |-> IF A = {} THEN d ELSE Settle(g[A \ {Max(A)}], s[Max(A)])]
  BY <1>3, <1>4 DEF Loop, Lasts
<1>6. f = [A \in D |-> IF A = {} THEN d ELSE Settle(f[A \ {Max(A)}], s[Max(A)])]
  BY <1>5
<1> HIDE DEF f
<1>7. Loop(f, 1..Len(s), Lasts(Len(s)), "settle", 0, d, s)
  BY <1>3, <1>6 DEF Loop, Lasts
<1> QED
  BY <1>2, <1>7, LoopRuns

(* failQueued over the entries it was given.                               *)
LEMMA FailRuns ==
    ASSUME NEW d, NEW S, NEW s \in Seq(S)
    PROVE  Runs("fail", 0, d, s, FoldLeft(Fail, d, s))
<1> DEFINE D == SUBSET (1..Len(s))
           f == CHOOSE f : f = [A \in D |-> IF A = {} THEN d ELSE Fail(f[A \ {Max(A)}], s[Max(A)])]
<1>1. DOMAIN s = 1..Len(s) /\ Len(s) \in Nat
  OBVIOUS
<1>2. FoldLeft(Fail, d, s) = f[1..Len(s)]
  BY <1>1 DEF FoldLeft, MapThenFoldSet
<1>3. \A g, x : Round("fail", 0, g, x) = Fail(g, x)
  BY DEF Round
<1>4. PICK g : Loop(g, 1..Len(s), Lasts(Len(s)), "fail", 0, d, s)
  BY <1>1, LoopExists
<1>5. g = [A \in D |-> IF A = {} THEN d ELSE Fail(g[A \ {Max(A)}], s[Max(A)])]
  BY <1>3, <1>4 DEF Loop, Lasts
<1>6. f = [A \in D |-> IF A = {} THEN d ELSE Fail(f[A \ {Max(A)}], s[Max(A)])]
  BY <1>5
<1> HIDE DEF f
<1>7. Loop(f, 1..Len(s), Lasts(Len(s)), "fail", 0, d, s)
  BY <1>3, <1>6 DEF Loop, Lasts
<1> QED
  BY <1>2, <1>7, LoopRuns

(* deleteLane over a sequence of lanes.                                    *)
LEMMA DeleteRuns ==
    ASSUME NEW d, NEW S, NEW s \in Seq(S)
    PROVE  Runs("delete", 0, d, s, FoldLeft(DeleteLane, d, s))
<1> DEFINE D == SUBSET (1..Len(s))
           f == CHOOSE f : f = [A \in D |-> IF A = {} THEN d ELSE DeleteLane(f[A \ {Max(A)}], s[Max(A)])]
<1>1. DOMAIN s = 1..Len(s) /\ Len(s) \in Nat
  OBVIOUS
<1>2. FoldLeft(DeleteLane, d, s) = f[1..Len(s)]
  BY <1>1 DEF FoldLeft, MapThenFoldSet
<1>3. \A g, x : Round("delete", 0, g, x) = DeleteLane(g, x)
  BY DEF Round
<1>4. PICK g : Loop(g, 1..Len(s), Lasts(Len(s)), "delete", 0, d, s)
  BY <1>1, LoopExists
<1>5. g = [A \in D |-> IF A = {} THEN d ELSE DeleteLane(g[A \ {Max(A)}], s[Max(A)])]
  BY <1>3, <1>4 DEF Loop, Lasts
<1>6. f = [A \in D |-> IF A = {} THEN d ELSE DeleteLane(f[A \ {Max(A)}], s[Max(A)])]
  BY <1>5
<1> HIDE DEF f
<1>7. Loop(f, 1..Len(s), Lasts(Len(s)), "delete", 0, d, s)
  BY <1>3, <1>6 DEF Loop, Lasts
<1> QED
  BY <1>2, <1>7, LoopRuns

(* One pass over the lanes.                                                *)
LEMMA ServeRuns ==
    ASSUME NEW d, NEW S, NEW s \in Seq(S)
    PROVE  Runs("serve", 0, d, s, FoldLeft(ServeLane, d, s))
<1> DEFINE D == SUBSET (1..Len(s))
           f == CHOOSE f : f = [A \in D |-> IF A = {} THEN d ELSE ServeLane(f[A \ {Max(A)}], s[Max(A)])]
<1>1. DOMAIN s = 1..Len(s) /\ Len(s) \in Nat
  OBVIOUS
<1>2. FoldLeft(ServeLane, d, s) = f[1..Len(s)]
  BY <1>1 DEF FoldLeft, MapThenFoldSet
<1>3. \A g, x : Round("serve", 0, g, x) = ServeLane(g, x)
  BY DEF Round
<1>4. PICK g : Loop(g, 1..Len(s), Lasts(Len(s)), "serve", 0, d, s)
  BY <1>1, LoopExists
<1>5. g = [A \in D |-> IF A = {} THEN d ELSE ServeLane(g[A \ {Max(A)}], s[Max(A)])]
  BY <1>3, <1>4 DEF Loop, Lasts
<1>6. f = [A \in D |-> IF A = {} THEN d ELSE ServeLane(f[A \ {Max(A)}], s[Max(A)])]
  BY <1>5
<1> HIDE DEF f
<1>7. Loop(f, 1..Len(s), Lasts(Len(s)), "serve", 0, d, s)
  BY <1>3, <1>6 DEF Loop, Lasts
<1> QED
  BY <1>2, <1>7, LoopRuns

(* The while loop of dispatch.                                             *)
LEMMA DispatchRuns ==
    ASSUME NEW d, NEW S, NEW s \in Seq(S)
    PROVE  Runs("dispatch", 0, d, s, FoldLeft(DispatchOne, d, s))
<1> DEFINE D == SUBSET (1..Len(s))
           f == CHOOSE f : f = [A \in D |-> IF A = {} THEN d ELSE DispatchOne(f[A \ {Max(A)}], s[Max(A)])]
<1>1. DOMAIN s = 1..Len(s) /\ Len(s) \in Nat
  OBVIOUS
<1>2. FoldLeft(DispatchOne, d, s) = f[1..Len(s)]
  BY <1>1 DEF FoldLeft, MapThenFoldSet
<1>3. \A g, x : Round("dispatch", 0, g, x) = DispatchOne(g, x)
  BY DEF Round
<1>4. PICK g : Loop(g, 1..Len(s), Lasts(Len(s)), "dispatch", 0, d, s)
  BY <1>1, LoopExists
<1>5. g = [A \in D |-> IF A = {} THEN d ELSE DispatchOne(g[A \ {Max(A)}], s[Max(A)])]
  BY <1>3, <1>4 DEF Loop, Lasts
<1>6. f = [A \in D |-> IF A = {} THEN d ELSE DispatchOne(f[A \ {Max(A)}], s[Max(A)])]
  BY <1>5
<1> HIDE DEF f
<1>7. Loop(f, 1..Len(s), Lasts(Len(s)), "dispatch", 0, d, s)
  BY <1>3, <1>6 DEF Loop, Lasts
<1> QED
  BY <1>2, <1>7, LoopRuns

(* The while loop of dispatchVirtual.                                      *)
LEMMA VirtualRuns ==
    ASSUME NEW d, NEW S, NEW s \in Seq(S)
    PROVE  Runs("virtual", 0, d, s, FoldLeft(DispatchVirtualOne, d, s))
<1> DEFINE D == SUBSET (1..Len(s))
           f == CHOOSE f : f = [A \in D |-> IF A = {} THEN d ELSE DispatchVirtualOne(f[A \ {Max(A)}], s[Max(A)])]
<1>1. DOMAIN s = 1..Len(s) /\ Len(s) \in Nat
  OBVIOUS
<1>2. FoldLeft(DispatchVirtualOne, d, s) = f[1..Len(s)]
  BY <1>1 DEF FoldLeft, MapThenFoldSet
<1>3. \A g, x : Round("virtual", 0, g, x) = DispatchVirtualOne(g, x)
  BY DEF Round
<1>4. PICK g : Loop(g, 1..Len(s), Lasts(Len(s)), "virtual", 0, d, s)
  BY <1>1, LoopExists
<1>5. g = [A \in D |-> IF A = {} THEN d ELSE DispatchVirtualOne(g[A \ {Max(A)}], s[Max(A)])]
  BY <1>3, <1>4 DEF Loop, Lasts
<1>6. f = [A \in D |-> IF A = {} THEN d ELSE DispatchVirtualOne(f[A \ {Max(A)}], s[Max(A)])]
  BY <1>5
<1> HIDE DEF f
<1>7. Loop(f, 1..Len(s), Lasts(Len(s)), "virtual", 0, d, s)
  BY <1>3, <1>6 DEF Loop, Lasts
<1> QED
  BY <1>2, <1>7, LoopRuns

(* The waiters under a new configuration.                                  *)
LEMMA RequeueRuns ==
    ASSUME NEW d, NEW S, NEW s \in Seq(S)
    PROVE  Runs("requeue", 0, d, s, FoldLeft(Requeued, d, s))
<1> DEFINE D == SUBSET (1..Len(s))
           f == CHOOSE f : f = [A \in D |-> IF A = {} THEN d ELSE Requeued(f[A \ {Max(A)}], s[Max(A)])]
<1>1. DOMAIN s = 1..Len(s) /\ Len(s) \in Nat
  OBVIOUS
<1>2. FoldLeft(Requeued, d, s) = f[1..Len(s)]
  BY <1>1 DEF FoldLeft, MapThenFoldSet
<1>3. \A g, x : Round("requeue", 0, g, x) = Requeued(g, x)
  BY DEF Round
<1>4. PICK g : Loop(g, 1..Len(s), Lasts(Len(s)), "requeue", 0, d, s)
  BY <1>1, LoopExists
<1>5. g = [A \in D |-> IF A = {} THEN d ELSE Requeued(g[A \ {Max(A)}], s[Max(A)])]
  BY <1>3, <1>4 DEF Loop, Lasts
<1>6. f = [A \in D |-> IF A = {} THEN d ELSE Requeued(f[A \ {Max(A)}], s[Max(A)])]
  BY <1>5
<1> HIDE DEF f
<1>7. Loop(f, 1..Len(s), Lasts(Len(s)), "requeue", 0, d, s)
  BY <1>3, <1>6 DEF Loop, Lasts
<1> QED
  BY <1>2, <1>7, LoopRuns

(* The leases in the rebuilt virtual account.                              *)
LEMMA PlaceRuns ==
    ASSUME NEW d, NEW S, NEW s \in Seq(S)
    PROVE  Runs("place", 0, d, s, FoldLeft(VirtuallyPlaced, d, s))
<1> DEFINE D == SUBSET (1..Len(s))
           f == CHOOSE f : f = [A \in D |-> IF A = {} THEN d ELSE VirtuallyPlaced(f[A \ {Max(A)}], s[Max(A)])]
<1>1. DOMAIN s = 1..Len(s) /\ Len(s) \in Nat
  OBVIOUS
<1>2. FoldLeft(VirtuallyPlaced, d, s) = f[1..Len(s)]
  BY <1>1 DEF FoldLeft, MapThenFoldSet
<1>3. \A g, x : Round("place", 0, g, x) = VirtuallyPlaced(g, x)
  BY DEF Round
<1>4. PICK g : Loop(g, 1..Len(s), Lasts(Len(s)), "place", 0, d, s)
  BY <1>1, LoopExists
<1>5. g = [A \in D |-> IF A = {} THEN d ELSE VirtuallyPlaced(g[A \ {Max(A)}], s[Max(A)])]
  BY <1>3, <1>4 DEF Loop, Lasts
<1>6. f = [A \in D |-> IF A = {} THEN d ELSE VirtuallyPlaced(f[A \ {Max(A)}], s[Max(A)])]
  BY <1>5
<1> HIDE DEF f
<1>7. Loop(f, 1..Len(s), Lasts(Len(s)), "place", 0, d, s)
  BY <1>3, <1>6 DEF Loop, Lasts
<1> QED
  BY <1>2, <1>7, LoopRuns

(* Removal from a sequence of leases.                                      *)
LEMMA WithoutRuns ==
    ASSUME NEW d, NEW S, NEW s \in Seq(S)
    PROVE  Runs("without", 0, d, s, FoldLeft(Without, d, s))
<1> DEFINE D == SUBSET (1..Len(s))
           f == CHOOSE f : f = [A \in D |-> IF A = {} THEN d ELSE Without(f[A \ {Max(A)}], s[Max(A)])]
<1>1. DOMAIN s = 1..Len(s) /\ Len(s) \in Nat
  OBVIOUS
<1>2. FoldLeft(Without, d, s) = f[1..Len(s)]
  BY <1>1 DEF FoldLeft, MapThenFoldSet
<1>3. \A g, x : Round("without", 0, g, x) = Without(g, x)
  BY DEF Round
<1>4. PICK g : Loop(g, 1..Len(s), Lasts(Len(s)), "without", 0, d, s)
  BY <1>1, LoopExists
<1>5. g = [A \in D |-> IF A = {} THEN d ELSE Without(g[A \ {Max(A)}], s[Max(A)])]
  BY <1>3, <1>4 DEF Loop, Lasts
<1>6. f = [A \in D |-> IF A = {} THEN d ELSE Without(f[A \ {Max(A)}], s[Max(A)])]
  BY <1>5
<1> HIDE DEF f
<1>7. Loop(f, 1..Len(s), Lasts(Len(s)), "without", 0, d, s)
  BY <1>3, <1>6 DEF Loop, Lasts
<1> QED
  BY <1>2, <1>7, LoopRuns

JoinAll(w, d, s) == FoldLeft(LAMBDA a, t : Joined(a, w, t), d, s)

(* The lines of updateConfig.                                              *)
LEMMA JoinRuns ==
    ASSUME NEW w, NEW d, NEW S, NEW s \in Seq(S)
    PROVE  Runs("join", w, d, s, JoinAll(w, d, s))
<1> DEFINE D == SUBSET (1..Len(s))
           f == CHOOSE f : f = [A \in D |-> IF A = {} THEN d ELSE Joined(f[A \ {Max(A)}], w, s[Max(A)])]
<1>1. DOMAIN s = 1..Len(s) /\ Len(s) \in Nat
  OBVIOUS
<1>2. JoinAll(w, d, s) = f[1..Len(s)]
  BY <1>1 DEF JoinAll, FoldLeft, MapThenFoldSet
<1>3. \A g, x : Round("join", w, g, x) = Joined(g, w, x)
  BY DEF Round
<1>4. PICK g : Loop(g, 1..Len(s), Lasts(Len(s)), "join", w, d, s)
  BY <1>1, LoopExists
<1>5. g = [A \in D |-> IF A = {} THEN d ELSE Joined(g[A \ {Max(A)}], w, s[Max(A)])]
  BY <1>3, <1>4 DEF Loop, Lasts
<1>6. f = [A \in D |-> IF A = {} THEN d ELSE Joined(f[A \ {Max(A)}], w, s[Max(A)])]
  BY <1>5
<1> HIDE DEF f
<1>7. Loop(f, 1..Len(s), Lasts(Len(s)), "join", w, d, s)
  BY <1>3, <1>6 DEF Loop, Lasts
<1> QED
  BY <1>2, <1>7, LoopRuns

TakeAll(w, d, s) == FoldLeft(LAMBDA a, r : TakeNext(a, w), d, s)

(* drain.                                                                  *)
LEMMA TakeRuns ==
    ASSUME NEW w, NEW d, NEW S, NEW s \in Seq(S)
    PROVE  Runs("take", w, d, s, TakeAll(w, d, s))
<1> DEFINE D == SUBSET (1..Len(s))
           f == CHOOSE f : f = [A \in D |-> IF A = {} THEN d ELSE TakeNext(f[A \ {Max(A)}], w)]
<1>1. DOMAIN s = 1..Len(s) /\ Len(s) \in Nat
  OBVIOUS
<1>2. TakeAll(w, d, s) = f[1..Len(s)]
  BY <1>1 DEF TakeAll, FoldLeft, MapThenFoldSet
<1>3. \A g, x : Round("take", w, g, x) = TakeNext(g, w)
  BY DEF Round
<1>4. PICK g : Loop(g, 1..Len(s), Lasts(Len(s)), "take", w, d, s)
  BY <1>1, LoopExists
<1>5. g = [A \in D |-> IF A = {} THEN d ELSE TakeNext(g[A \ {Max(A)}], w)]
  BY <1>3, <1>4 DEF Loop, Lasts
<1>6. f = [A \in D |-> IF A = {} THEN d ELSE TakeNext(f[A \ {Max(A)}], w)]
  BY <1>5
<1> HIDE DEF f
<1>7. Loop(f, 1..Len(s), Lasts(Len(s)), "take", w, d, s)
  BY <1>3, <1>6 DEF Loop, Lasts
<1> QED
  BY <1>2, <1>7, LoopRuns

-----------------------------------------------------------------------------
(* Induction over the subsets of a finite set.                             *)
LEMMA FiniteInduction ==
    ASSUME NEW S, IsFiniteSet(S), NEW G, {} \in G,
           \A A \in SUBSET S : A # {} /\ (\A x \in A : A \ {x} \in G) => A \in G
    PROVE  \A A \in SUBSET S : A \in G
<1> DEFINE n == Cardinality(S)
           T == {k \in 0..n : \A A \in SUBSET S : Cardinality(A) = k => A \in G}
<1>1. n \in Nat /\ \A A \in SUBSET S : IsFiniteSet(A) /\ Cardinality(A) \in 0..n
  BY FS_Subset, FS_CardinalityType
<1> HIDE DEF n
<1>2. 0 \in T
  BY <1>1, FS_EmptySet
<1>3. ASSUME NEW k \in 1..n, k - 1 \in T PROVE k \in T
  <2>1. SUFFICES ASSUME NEW A \in SUBSET S, Cardinality(A) = k PROVE A \in G
    BY <1>1
  <2>2. A # {}
    <3>1. Cardinality({}) = 0 /\ k # 0
      BY FS_EmptySet
    <3> QED
      BY <2>1, <3>1
  <2>3. \A x \in A : Cardinality(A \ {x}) = k - 1
    BY <2>1, <1>1, FS_RemoveElement
  <2>4. \A x \in A : A \ {x} \in G
    BY <2>3, <1>3
  <2> QED
    BY <2>2, <2>4
<1> HIDE DEF T
<1>4. \A k \in 0..n : k \in T
  BY <1>1, <1>2, <1>3, NumbersUpTo
<1> QED
  BY <1>1, <1>4 DEF T

(* The elements of a sequence, and a sequence of the elements of a set.    *)
LEMMA ElementsFinite ==
    ASSUME NEW S, NEW s \in Seq(S) PROVE IsFiniteSet(ToSet(s)) /\ ToSet(s) \subseteq S
<1> DEFINE f == [i \in 1..Len(s) |-> s[i]]
<1>1. f \in Surjection(1..Len(s), ToSet(s))
  BY DEF Surjection, ToSet
<1>2. IsFiniteSet(1..Len(s))
  BY FS_Interval
<1> HIDE DEF f
<1>3. IsFiniteSet(ToSet(s))
  BY <1>1, <1>2, FS_Surjection
<1>4. ToSet(s) \subseteq S
  BY DEF ToSet
<1> QED
  BY <1>3, <1>4

(* SetToSeq lists a finite set, each element once.                         *)
LEMMA SeqOfSet ==
    ASSUME NEW S, IsFiniteSet(S)
    PROVE  /\ SetToSeq(S) \in Seq(S) /\ Len(SetToSeq(S)) = Cardinality(S)
           /\ ToSet(SetToSeq(S)) = S /\ IsInjective(SetToSeq(S))
<1> DEFINE n == Cardinality(S)
           f == SetToSeq(S)
<1>1. n \in Nat /\ ExistsBijection(1..n, S)
  BY FS_CardinalityType
<1>2. \E g \in [1..n -> S] : IsInjective(g)
  BY <1>1 DEF ExistsBijection, Bijection, Injection, Surjection, IsInjective
<1>3. f \in [1..n -> S] /\ IsInjective(f)
  BY <1>2 DEF SetToSeq
<1> HIDE DEF f, n
<1>4. f \in Injection(1..n, S)
  BY <1>3 DEF Injection, IsInjective
<1>5. IsFiniteSet(1..n) /\ Cardinality(1..n) = n
  BY <1>1, FS_Interval
<1>6. f \in Surjection(1..n, S)
  BY <1>4, <1>5, FS_Injection DEF n
<1>7. f \in Seq(S) /\ Len(f) = n /\ ToSet(f) = S
  BY <1>1, <1>3, <1>6 DEF Surjection, ToSet
<1> QED
  BY <1>3, <1>7 DEF f, n

-----------------------------------------------------------------------------
(* Sums.  A total is a fold over a set that takes any element first.       *)
Total(W, S) == MapThenSumSet(LAMBDA r : W[r], S)
Some(S) == [A \in SUBSET S |-> CHOOSE x \in A : TRUE]
SumLoop(W, S) == CHOOSE f : Loop(f, S, Some(S), "cost", 0, 0, W) /\ Total(W, S) = f[S]

(* A sum is a loop over the set.                                           *)
LEMMA SumRuns ==
    ASSUME NEW W, NEW S, IsFiniteSet(S)
    PROVE  /\ Loop(SumLoop(W, S), S, Some(S), "cost", 0, 0, W)
           /\ Total(W, S) = SumLoop(W, S)[S]
<1> DEFINE D == SUBSET S
           Chosen(A) == CHOOSE x \in A : TRUE
           f == CHOOSE f : f = [A \in D |-> IF A = {} THEN 0 ELSE W[Chosen(A)] + f[A \ {Chosen(A)}]]
<1>1. Total(W, S) = f[S]
  BY DEF Total, MapThenSumSet, MapThenFoldSet
<1>2. \A g, x : Round("cost", 0, g, x) = x + g
  BY DEF Round
<1>3. \A A \in SUBSET S : A # {} => Some(S)[A] \in A
  BY DEF Some
<1>4. PICK g : Loop(g, S, Some(S), "cost", 0, 0, W)
  BY <1>3, LoopDefined
<1>5. g = [A \in D |-> IF A = {} THEN 0 ELSE W[Chosen(A)] + g[A \ {Chosen(A)}]]
  BY <1>2, <1>4 DEF Loop, Some
<1>6. f = [A \in D |-> IF A = {} THEN 0 ELSE W[Chosen(A)] + f[A \ {Chosen(A)}]]
  BY <1>5
<1> HIDE DEF f
<1>7. Loop(f, S, Some(S), "cost", 0, 0, W)
  BY <1>2, <1>6 DEF Loop, Some
<1> QED
  BY <1>1, <1>7 DEF SumLoop

(* The sum over a part is that of a loop over the whole.                   *)
LEMMA SumOfPart ==
    ASSUME NEW W, NEW S, IsFiniteSet(S), NEW f, Loop(f, S, Some(S), "cost", 0, 0, W),
           NEW P \in SUBSET S
    PROVE  Total(W, P) = f[P]
<1>1. IsFiniteSet(P)
  BY FS_Subset
<1> DEFINE g == SumLoop(W, P)
<1>2. Loop(g, P, Some(P), "cost", 0, 0, W) /\ Total(W, P) = g[P]
  BY <1>1, SumRuns
<1> HIDE DEF g
<1> DEFINE G == {A \in SUBSET P : f[A] = g[A]}
           Chosen(A) == CHOOSE x \in A : TRUE
<1>3. \A A \in SUBSET P : /\ f[A] = IF A = {} THEN 0 ELSE Round("cost", 0, f[A \ {Chosen(A)}], W[Chosen(A)])
                          /\ g[A] = IF A = {} THEN 0 ELSE Round("cost", 0, g[A \ {Chosen(A)}], W[Chosen(A)])
  BY <1>2 DEF Loop, Some
<1>4. {} \in G
  BY <1>3
<1>5. \A A \in SUBSET P : A # {} /\ (\A x \in A : A \ {x} \in G) => A \in G
  <2>1. SUFFICES ASSUME NEW A \in SUBSET P, A # {}, \A x \in A : A \ {x} \in G PROVE f[A] = g[A]
    OBVIOUS
  <2>2. Chosen(A) \in A
    BY <2>1
  <2> HIDE DEF Chosen
  <2>3. f[A \ {Chosen(A)}] = g[A \ {Chosen(A)}]
    BY <2>1, <2>2
  <2> QED
    BY <2>1, <2>3, <1>3
<1> HIDE DEF G
<1>6. \A A \in SUBSET P : A \in G
  BY <1>1, <1>4, <1>5, FiniteInduction
<1> QED
  BY <1>2, <1>6 DEF G

(* One step of the sum.                                                    *)
LEMMA TotalStep ==
    ASSUME NEW W, NEW S, IsFiniteSet(S)
    PROVE  Total(W, S) = IF S = {} THEN 0
                          ELSE LET x == CHOOSE x \in S : TRUE IN W[x] + Total(W, S \ {x})
<1> DEFINE x == CHOOSE x \in S : TRUE
           f == SumLoop(W, S)
<1>1. Loop(f, S, Some(S), "cost", 0, 0, W) /\ Total(W, S) = f[S]
  BY SumRuns
<1> HIDE DEF f
<1>2. f[S] = IF S = {} THEN 0 ELSE Round("cost", 0, f[S \ {x}], W[x])
  BY <1>1 DEF Loop, Some
<1>3. Total(W, S \ {x}) = f[S \ {x}]
  BY <1>1, SumOfPart
<1>4. \A g, y : Round("cost", 0, g, y) = y + g
  BY DEF Round
<1> QED
  BY <1>1, <1>2, <1>3, <1>4

(* A sum of numbers is a number.                                           *)
LEMMA TotalNat ==
    ASSUME NEW W, NEW U, \A x \in U : W[x] \in Nat,
           NEW S \in SUBSET U, IsFiniteSet(S)
    PROVE  Total(W, S) \in Nat /\ Total(W, {}) = 0
<1> DEFINE G == {A \in SUBSET S : Total(W, A) \in Nat}
<1>1. Total(W, {}) = 0
  BY FS_EmptySet, TotalStep
<1>2. \A A \in SUBSET S : A # {} /\ (\A x \in A : A \ {x} \in G) => A \in G
  <2>1. SUFFICES ASSUME NEW A \in SUBSET S, A # {}, \A x \in A : A \ {x} \in G
                 PROVE  Total(W, A) \in Nat
    OBVIOUS
  <2> DEFINE x == CHOOSE x \in A : TRUE
  <2>2. x \in A /\ IsFiniteSet(A)
    BY <2>1, FS_Subset
  <2>3. Total(W, A) = W[x] + Total(W, A \ {x})
    BY <2>1, <2>2, TotalStep
  <2> HIDE DEF x
  <2>4. Total(W, A \ {x}) \in Nat /\ W[x] \in Nat
    BY <2>1, <2>2
  <2> QED
    BY <2>3, <2>4
<1> HIDE DEF G
<1>3. \A A \in SUBSET S : A \in G
  <2>1. {} \in G
    BY <1>1 DEF G
  <2> QED
    BY <2>1, <1>2, FiniteInduction
<1> QED
  BY <1>1, <1>3 DEF G

(* Whichever element is taken out.                                         *)
LEMMA TotalWithout ==
    ASSUME NEW W, NEW U, \A x \in U : W[x] \in Nat,
           NEW S \in SUBSET U, IsFiniteSet(S), NEW x \in S
    PROVE  /\ Total(W, S) = W[x] + Total(W, S \ {x})
           /\ Total(W, S \ {x}) = Total(W, S) - W[x]
           /\ Total(W, S \ {x}) \in Nat /\ Total(W, S) \in Nat /\ W[x] \in Nat
           /\ W[x] <= Total(W, S)
<1> DEFINE G == {A \in SUBSET S : \A y \in A : Total(W, A) = W[y] + Total(W, A \ {y})}
<1>1. \A A \in SUBSET S : IsFiniteSet(A) /\ Total(W, A) \in Nat
  BY FS_Subset, TotalNat
<1>2. \A A \in SUBSET S : A # {} /\ (\A y \in A : A \ {y} \in G) => A \in G
  <2>1. SUFFICES ASSUME NEW A \in SUBSET S, A # {}, \A y \in A : A \ {y} \in G, NEW y \in A
                 PROVE  Total(W, A) = W[y] + Total(W, A \ {y})
    OBVIOUS
  <2> DEFINE z == CHOOSE z \in A : TRUE
  <2>2. z \in A
    BY <2>1
  <2>3. Total(W, A) = W[z] + Total(W, A \ {z})
    BY <2>2, <1>1, TotalStep
  <2> HIDE DEF z
  <2>4. CASE y = z
    BY <2>3, <2>4
  <2>5. CASE y # z
    <3>1. Total(W, A \ {z}) = W[y] + Total(W, (A \ {z}) \ {y})
      BY <2>1, <2>2, <2>5
    <3>2. Total(W, A \ {y}) = W[z] + Total(W, (A \ {y}) \ {z})
      BY <2>1, <2>2, <2>5
    <3>3. (A \ {z}) \ {y} = (A \ {y}) \ {z} /\ (A \ {z}) \ {y} \in SUBSET S
      OBVIOUS
    <3>4. Total(W, (A \ {z}) \ {y}) \in Nat /\ W[y] \in Nat /\ W[z] \in Nat
      BY <3>3, <2>2, <1>1
    <3> QED
      BY <3>1, <3>2, <3>3, <3>4, <2>3
  <2> QED
    BY <2>4, <2>5
<1>3. {} \in G
  OBVIOUS
<1> HIDE DEF G
<1>4. \A A \in SUBSET S : A \in G
  BY <1>2, <1>3, FiniteInduction
<1>5. Total(W, S) = W[x] + Total(W, S \ {x})
  BY <1>4 DEF G
<1>6. Total(W, S) \in Nat /\ Total(W, S \ {x}) \in Nat /\ W[x] \in Nat
  BY <1>1
<1> QED
  BY <1>5, <1>6

(* It grows by the weight of whoever joins.                                *)
LEMMA TotalWith ==
    ASSUME NEW W, NEW U, \A x \in U : W[x] \in Nat,
           NEW S \in SUBSET U, IsFiniteSet(S), NEW x \in U, x \notin S
    PROVE  Total(W, S \cup {x}) = Total(W, S) + W[x]
<1>1. /\ S \cup {x} \in SUBSET U /\ IsFiniteSet(S \cup {x})
      /\ (S \cup {x}) \ {x} = S /\ x \in S \cup {x}
  BY FS_AddElement
<1> DEFINE A == S \cup {x}
<1> HIDE DEF A
<1>2. A \in SUBSET U /\ IsFiniteSet(A) /\ A \ {x} = S /\ x \in A
  BY <1>1 DEF A
<1>3. /\ Total(W, A) = W[x] + Total(W, A \ {x}) /\ Total(W, A \ {x}) \in Nat
      /\ W[x] \in Nat
  BY <1>2, TotalWithout
<1> QED
  BY <1>2, <1>3 DEF A

(* So for costs.                                                           *)
LEMMA CostNat ==
    ASSUME NEW S \in SUBSET Requests, IsFiniteSet(S)
    PROVE  TotalCost(S) \in Nat /\ TotalCost({}) = 0
<1>1. \A y \in Requests : Cost[y] \in Nat
  BY CostPositive
<1>2. \A T : Total(Cost, T) = TotalCost(T)
  BY DEF Total, TotalCost
<1> QED
  BY <1>1, <1>2, TotalNat

(* It grows by the cost of whoever joins.                                  *)
LEMMA CostWith ==
    ASSUME NEW S \in SUBSET Requests, IsFiniteSet(S), NEW x \in Requests, x \notin S
    PROVE  TotalCost(S \cup {x}) = TotalCost(S) + Cost[x]
<1>1. \A y \in Requests : Cost[y] \in Nat
  BY CostPositive
<1>2. \A T : Total(Cost, T) = TotalCost(T)
  BY DEF Total, TotalCost
<1> QED
  BY <1>1, <1>2, TotalWith

(* Taking out a request lowers the cost by its own.                        *)
LEMMA CostWithout ==
    ASSUME NEW S \in SUBSET Requests, IsFiniteSet(S), NEW x \in S
    PROVE  /\ TotalCost(S) = Cost[x] + TotalCost(S \ {x})
           /\ TotalCost(S \ {x}) = TotalCost(S) - Cost[x]
           /\ TotalCost(S \ {x}) \in Nat /\ TotalCost(S) \in Nat /\ Cost[x] \in Nat \ {0}
           /\ Cost[x] <= TotalCost(S)
<1> DEFINE A == S \ {x}
<1>1. A \in SUBSET Requests /\ IsFiniteSet(A) /\ x \in Requests /\ x \notin A /\ A \cup {x} = S
  BY FS_RemoveElement
<1> HIDE DEF A
<1>2. TotalCost(S) = TotalCost(A) + Cost[x] /\ TotalCost(A) \in Nat /\ Cost[x] \in Nat \ {0}
  BY <1>1, CostWith, CostNat, CostPositive
<1> QED
  BY <1>2 DEF A

-----------------------------------------------------------------------------
(***************************************************************************)
(* The controller.  Its state is one record, so its invariant is stated of *)
(* a record d, in parts.  Inside a call it may fail to hold: left are the  *)
(* requests that left their line and have no answer yet, open the tenant   *)
(* whose lane exists although nobody waits in it yet or any more.          *)
(***************************************************************************)
Names == {"cfg", "shut", "limit", "ceiling", "pressure", "consumed", "frozen", "completed",
          "loaded", "leases", "spent", "queue", "arrived", "due", "lane", "lanes", "recent",
          "disp", "vqueue", "vcost", "phase"}
Record(d) == d = [x \in Names |-> d[x]]

(* The limits are within the configuration.                                *)
Settings(d) ==
    /\ d.cfg \in Configs \cup FirstConfigs
    /\ d.shut \in BOOLEAN
    /\ d.limit \in d.cfg.min..d.cfg.max
    /\ d.ceiling \in d.cfg.min..d.cfg.max
    /\ d.pressure \in 1..3
    /\ d.consumed \in BOOLEAN
    /\ d.frozen \in BOOLEAN
    /\ d.completed \in BOOLEAN

(* The lines: the shared queue and the lanes, which exist when somebody    *)
(* waits in them, and do not when the configuration has none.              *)
LaneOf(d, t) ==
    /\ IsInjective(d.lane[t])
    /\ \A r \in ToSet(d.lane[t]) : TenantKey[r] = t
    /\ d.cfg.lanes \/ d.lane[t] = <<>>

LaneOrder(d, open) ==
    /\ d.lanes \in Seq(Tenants) /\ IsInjective(d.lanes)
    /\ d.recent \in Seq(Tenants) /\ IsInjective(d.recent)
    /\ ToSet(d.lanes) = {t \in Tenants : d.lane[t] # <<>>} \cup open
    /\ ToSet(d.recent) = ToSet(d.lanes)

Lines(d, open) ==
    /\ WellFormed(d.queue, TenantKey)
    /\ d.lane \in [Tenants -> Seq(Requests)]
    /\ \A t \in Tenants : LaneOf(d, t)
    /\ LaneOrder(d, open)

(* The leases and their cost.                                              *)
Book(d) ==
    /\ d.leases \in Seq(Requests) /\ IsInjective(d.leases)
    /\ d.spent = TotalCost(ToSet(d.leases))
    /\ d.loaded \in BOOLEAN

(* The virtual queue and cost: of leases only.                             *)
Disposed(d, x) == {r \in Requests : d.disp[r] = x}

Shadow(d) ==
    /\ d.disp \in [Requests -> Dispositions]
    /\ \E own \in [Requests -> Tenants] : WellFormed(d.vqueue, own)
    /\ Members(d.vqueue) = Disposed(d, "queued")
    /\ d.vcost = TotalCost(Disposed(d, "active"))
    /\ \A r \in Requests : d.disp[r] # "none" => r \in ToSet(d.leases)

(* Who waits and who holds a lease, and that nobody waits twice.           *)
Answers(d, left) ==
    /\ d.phase \in [Requests -> Phases]
    /\ \A r \in Requests : d.phase[r] = "waiting" <=> r \in Waiters(d) \cup left
    /\ \A r \in Requests : d.phase[r] = "held" <=> r \in ToSet(d.leases)
    /\ left \subseteq Requests /\ left \cap Waiters(d) = {}
    /\ Members(d.queue) \cap LaneWaiters(d) = {}
    /\ d.due \subseteq Waiters(d) \cup left

(* When they came: each once.                                              *)
Times(d, left) ==
    /\ d.arrived \in Seq(Requests) /\ IsInjective(d.arrived)
    /\ ToSet(d.arrived) = Waiters(d) \cup left \cup Members(d.vqueue)

Consistent(d, left, open) ==
    /\ Record(d) /\ Settings(d) /\ Lines(d, open) /\ Book(d) /\ Shadow(d)
    /\ Answers(d, left) /\ Times(d, left)

-----------------------------------------------------------------------------
(* What a step within a call leaves alone.                                 *)
SameSettings(d, e) ==
    /\ e.cfg = d.cfg /\ e.shut = d.shut /\ e.limit = d.limit /\ e.ceiling = d.ceiling
    /\ e.pressure = d.pressure /\ e.consumed = d.consumed /\ e.frozen = d.frozen
    /\ e.completed = d.completed
SameLines(d, e) ==
    e.queue = d.queue /\ e.lane = d.lane /\ e.lanes = d.lanes /\ e.recent = d.recent
SameShadow(d, e) == e.disp = d.disp /\ e.vqueue = d.vqueue /\ e.vcost = d.vcost
SameBook(d, e) == e.leases = d.leases /\ e.spent = d.spent /\ e.loaded = d.loaded
SameAnswers(d, e) == e.arrived = d.arrived /\ e.due = d.due /\ e.phase = d.phase

(* Who does not ask, is not served.                                        *)
Calm(d, e) ==
    \A r \in Requests :
        /\ d.phase[r] = "idle" => e.phase[r] = "idle"
        /\ e.phase[r] = "waiting" => d.phase[r] = "waiting" /\ (r \in d.due => r \in e.due)

(* The parts of the invariant depend on the fields they name.              *)
LEMMA SamePartsKept ==
    ASSUME NEW d, NEW e, NEW open
    PROVE  /\ Settings(d) /\ SameSettings(d, e) => Settings(e)
           /\ Lines(d, open) /\ SameLines(d, e) /\ e.cfg = d.cfg => Lines(e, open)
           /\ SameLines(d, e) => /\ Waiters(e) = Waiters(d) /\ LaneWaiters(e) = LaneWaiters(d)
                                 /\ Members(e.queue) = Members(d.queue)
           /\ Book(d) /\ SameBook(d, e) => Book(e)
           /\ Shadow(d) /\ SameShadow(d, e) /\ ToSet(e.leases) = ToSet(d.leases) => Shadow(e)
           /\ SameShadow(d, e) => Members(e.vqueue) = Members(d.vqueue)
<1>1. Settings(d) /\ SameSettings(d, e) => Settings(e)
  BY DEF Settings, SameSettings
<1>2. Lines(d, open) /\ SameLines(d, e) /\ e.cfg = d.cfg => Lines(e, open)
  BY DEF Lines, LaneOf, LaneOrder, SameLines
<1>3. SameLines(d, e) => /\ Waiters(e) = Waiters(d) /\ LaneWaiters(e) = LaneWaiters(d)
                         /\ Members(e.queue) = Members(d.queue)
  BY DEF Waiters, LaneWaiters, SameLines
<1>4. Book(d) /\ SameBook(d, e) => Book(e)
  BY DEF Book, SameBook
<1>5. Shadow(d) /\ SameShadow(d, e) /\ ToSet(e.leases) = ToSet(d.leases) => Shadow(e)
  BY DEF Shadow, SameShadow, Disposed
<1>6. SameShadow(d, e) => Members(e.vqueue) = Members(d.vqueue)
  BY DEF SameShadow
<1> QED
  BY <1>1, <1>2, <1>3, <1>4, <1>5, <1>6

(* Whoever waits, holds no lease and is not in the virtual queue.          *)
LEMMA VirtualAreHeld ==
    ASSUME NEW d, NEW left, Shadow(d), Answers(d, left), NEW r \in Requests
    PROVE  /\ r \in Members(d.vqueue) => d.phase[r] = "held"
           /\ r \in Waiters(d) \cup left => r \notin ToSet(d.leases) /\ r \notin Members(d.vqueue)
           /\ d.disp[r] # "none" => d.phase[r] = "held"
  BY DEF Shadow, Disposed, Answers

(* Whoever is in a line is a request.                                      *)
LEMMA WaitersAreRequests ==
    ASSUME NEW d, NEW open, Lines(d, open)
    PROVE  Members(d.queue) \subseteq Requests /\ LaneWaiters(d) \subseteq Requests /\ Waiters(d) \subseteq Requests
<1>1. \A t \in Tenants : ToSet(d.queue.bucket[t]) \subseteq Requests
  BY ElementsFinite DEF Lines, WellFormed, Shape
<1>2. \A t \in Tenants : ToSet(d.lane[t]) \subseteq Requests
  BY ElementsFinite DEF Lines
<1> QED
  BY <1>1, <1>2 DEF Members, LaneWaiters, Waiters

(* The settings or the lines change: whoever left a line is in left.       *)
LEMMA LinesMoved ==
    ASSUME NEW d, NEW left, NEW open, Consistent(d, left, open),
           NEW e, NEW gone, NEW now, Record(e), Settings(e), Lines(e, now),
           e.leases = d.leases, e.spent = d.spent, e.loaded \in BOOLEAN,
           SameShadow(d, e), SameAnswers(d, e),
           Waiters(e) \cup gone = Waiters(d) \cup left, gone \cap Waiters(e) = {},
           Members(e.queue) \cap LaneWaiters(e) = {}
    PROVE  Consistent(e, gone, now)
<1>1. Book(e)
  BY DEF Consistent, Book
<1>2. Shadow(e) /\ Members(e.vqueue) = Members(d.vqueue)
  BY SamePartsKept DEF Consistent
<1>3. gone \subseteq Requests
  BY WaitersAreRequests DEF Consistent, Answers
<1>4. Answers(e, gone)
  BY <1>3 DEF Consistent, Answers, SameAnswers
<1>5. Times(e, gone)
  BY <1>2 DEF Consistent, Times, SameAnswers
<1> QED
  BY <1>1, <1>2, <1>4, <1>5 DEF Consistent

(* The virtual account changes.                                            *)
LEMMA ShadowMoved ==
    ASSUME NEW d, NEW left, NEW open, Consistent(d, left, open),
           NEW e, Record(e), SameSettings(d, e), SameLines(d, e), SameBook(d, e), Shadow(e),
           e.phase = d.phase, e.due = d.due, e.arrived \in Seq(Requests), IsInjective(e.arrived),
           ToSet(e.arrived) = Waiters(d) \cup left \cup Members(e.vqueue)
    PROVE  Consistent(e, left, open)
<1>1. /\ Settings(e) /\ Lines(e, open) /\ Book(e)
      /\ Waiters(e) = Waiters(d) /\ LaneWaiters(e) = LaneWaiters(d)
      /\ Members(e.queue) = Members(d.queue)
  BY SamePartsKept DEF Consistent, SameSettings
<1>2. Answers(e, left)
  BY <1>1 DEF Consistent, Answers, SameBook
<1>3. Times(e, left)
  BY <1>1 DEF Times
<1> QED
  BY <1>1, <1>2, <1>3 DEF Consistent

-----------------------------------------------------------------------------
(* Rejection of a request that left its line.                              *)
LEMMA FailFields ==
    ASSUME NEW d, Record(d), d.phase \in [Requests -> Phases], NEW r \in Requests
    PROVE  LET e == Fail(d, r)
           IN  /\ Record(e) /\ SameSettings(d, e) /\ SameLines(d, e) /\ SameShadow(d, e)
               /\ SameBook(d, e) /\ e.due = d.due \ {r} /\ e.arrived = Without(d.arrived, r)
               /\ e.phase = [d.phase EXCEPT ![r] = "idle"]
               /\ e.phase \in [Requests -> Phases] /\ Calm(d, e)
<1> DEFINE e == Fail(d, r)
<1>1. /\ e.due = d.due \ {r} /\ e.arrived = Without(d.arrived, r)
      /\ e.phase = [d.phase EXCEPT ![r] = "idle"]
  BY DEF Fail, Record, Names
<1>2. Record(e) /\ SameSettings(d, e)
  BY DEF Fail, Record, Names, SameSettings
<1>3. SameLines(d, e) /\ SameShadow(d, e) /\ SameBook(d, e)
  BY DEF Fail, Record, Names, SameLines, SameShadow, SameBook
<1>4. e.phase \in [Requests -> Phases] /\ Calm(d, e)
  BY <1>1 DEF Phases, Calm
<1> QED
  BY <1>1, <1>2, <1>3, <1>4

(* A request that has left its line is told that it waits no longer.       *)
LEMMA FailConsistent ==
    ASSUME NEW d, NEW left, NEW open, Consistent(d, left, open), NEW r \in left
    PROVE  /\ Consistent(Fail(d, r), left \ {r}, open)
           /\ SameSettings(d, Fail(d, r)) /\ SameLines(d, Fail(d, r))
           /\ Fail(d, r).phase[r] = "idle"
<1> DEFINE e == Fail(d, r)
<1>1. /\ r \in Requests /\ Record(d) /\ d.phase \in [Requests -> Phases] /\ r \notin Waiters(d)
      /\ r \notin ToSet(d.leases) /\ r \notin Members(d.vqueue)
  BY VirtualAreHeld DEF Consistent, Answers
<1>2. /\ Record(e) /\ SameSettings(d, e) /\ SameLines(d, e) /\ SameShadow(d, e)
      /\ SameBook(d, e) /\ e.due = d.due \ {r} /\ e.arrived = Without(d.arrived, r)
      /\ e.phase = [d.phase EXCEPT ![r] = "idle"]
      /\ e.phase \in [Requests -> Phases]
  BY <1>1, FailFields
<1> HIDE DEF e
<1>3. /\ Settings(e) /\ Lines(e, open) /\ Book(e) /\ Shadow(e)
      /\ Waiters(e) = Waiters(d) /\ LaneWaiters(e) = LaneWaiters(d)
      /\ Members(e.queue) = Members(d.queue) /\ Members(e.vqueue) = Members(d.vqueue)
  BY <1>2, SamePartsKept DEF Consistent, SameSettings, SameBook
<1>4. Answers(e, left \ {r})
  <2>1. \A s \in Requests : s # r => e.phase[s] = d.phase[s]
    BY <1>1, <1>2
  <2>2. e.phase[r] = "idle"
    BY <1>1, <1>2
  <2> QED
    BY <2>1, <2>2, <1>1, <1>2, <1>3 DEF Consistent, Answers, SameBook
<1>5. Times(e, left \ {r})
  <2>1. /\ e.arrived \in Seq(Requests) /\ IsInjective(e.arrived)
        /\ ToSet(e.arrived) = ToSet(d.arrived) \ {r}
    BY <1>2, RemoveFirstElements DEF Consistent, Times, Without
  <2> QED
    BY <2>1, <1>1, <1>3 DEF Consistent, Times
<1>6. e.phase[r] = "idle"
  BY <1>1, <1>2
<1> QED
  BY <1>2, <1>3, <1>4, <1>5, <1>6 DEF e, Consistent

(* A lease for a request that does not wait.                               *)
LEMMA AdmitFields ==
    ASSUME NEW d, Record(d), d.phase \in [Requests -> Phases], NEW r \in Requests
    PROVE  LET e == Admit(d, r)
           IN  /\ Record(e) /\ SameSettings(d, e) /\ SameLines(d, e) /\ SameShadow(d, e)
               /\ e.leases = Append(d.leases, r) /\ e.spent = d.spent + Cost[r] /\ e.loaded = TRUE
               /\ e.arrived = d.arrived /\ e.due = d.due
               /\ e.phase = [d.phase EXCEPT ![r] = "held"]
               /\ e.phase \in [Requests -> Phases]
<1> DEFINE e == Admit(d, r)
<1>1. /\ e.leases = Append(d.leases, r) /\ e.spent = d.spent + Cost[r] /\ e.loaded = TRUE
      /\ e.arrived = d.arrived /\ e.due = d.due
      /\ e.phase = [d.phase EXCEPT ![r] = "held"]
  BY DEF Admit, Record, Names
<1>2. Record(e) /\ SameSettings(d, e)
  BY DEF Admit, Record, Names, SameSettings
<1>3. SameLines(d, e) /\ SameShadow(d, e)
  BY DEF Admit, Record, Names, SameLines, SameShadow
<1>4. e.phase \in [Requests -> Phases]
  BY <1>1 DEF Phases
<1> QED
  BY <1>1, <1>2, <1>3, <1>4

(* A lease for a request that does not wait keeps the invariant.           *)
LEMMA AdmitConsistent ==
    ASSUME NEW d, NEW left, NEW open, Consistent(d, left, open),
           NEW r \in Requests, d.phase[r] = "idle"
    PROVE  LET e == Admit(d, r)
           IN  /\ Consistent(e, left, open) /\ SameSettings(d, e) /\ SameLines(d, e)
               /\ SameShadow(d, e) /\ e.arrived = d.arrived
               /\ ToSet(e.leases) = ToSet(d.leases) \cup {r} /\ e.spent = d.spent + Cost[r]
               /\ e.phase[r] = "held" /\ r \notin ToSet(d.leases) /\ d.disp[r] = "none"
<1> DEFINE e == Admit(d, r)
<1>1. /\ Record(d) /\ d.phase \in [Requests -> Phases]
      /\ r \notin Waiters(d) \cup left /\ r \notin ToSet(d.leases) /\ d.disp[r] = "none"
  BY VirtualAreHeld DEF Consistent, Answers
<1>2. /\ Record(e) /\ SameSettings(d, e) /\ SameLines(d, e) /\ SameShadow(d, e)
      /\ e.leases = Append(d.leases, r) /\ e.spent = d.spent + Cost[r] /\ e.loaded = TRUE
      /\ e.arrived = d.arrived /\ e.due = d.due
      /\ e.phase = [d.phase EXCEPT ![r] = "held"]
      /\ e.phase \in [Requests -> Phases]
  BY <1>1, AdmitFields
<1> HIDE DEF e
<1>3. /\ e.leases \in Seq(Requests) /\ IsInjective(e.leases)
      /\ ToSet(e.leases) = ToSet(d.leases) \cup {r}
  BY <1>1, <1>2, AppendElements DEF Consistent, Book
<1>4. Book(e)
  <2>1. IsFiniteSet(ToSet(d.leases)) /\ ToSet(d.leases) \in SUBSET Requests
    BY ElementsFinite DEF Consistent, Book
  <2>2. TotalCost(ToSet(e.leases)) = TotalCost(ToSet(d.leases)) + Cost[r]
    BY <2>1, <1>1, <1>3, CostWith
  <2> QED
    BY <2>2, <1>2, <1>3 DEF Consistent, Book
<1>5. /\ Settings(e) /\ Lines(e, open)
      /\ Waiters(e) = Waiters(d) /\ LaneWaiters(e) = LaneWaiters(d)
      /\ Members(e.queue) = Members(d.queue) /\ Members(e.vqueue) = Members(d.vqueue)
  BY <1>2, SamePartsKept DEF Consistent, SameSettings
<1>6. Shadow(e)
  BY <1>2, <1>3 DEF Consistent, Shadow, SameShadow, Disposed
<1>7. e.phase[r] = "held" /\ \A s \in Requests : s # r => e.phase[s] = d.phase[s]
  BY <1>1, <1>2
<1>8. Answers(e, left)
  BY <1>1, <1>2, <1>3, <1>5, <1>7 DEF Consistent, Answers
<1>9. Times(e, left)
  BY <1>2, <1>5 DEF Consistent, Times
<1> QED
  BY <1>1, <1>2, <1>3, <1>4, <1>5, <1>6, <1>7, <1>8, <1>9 DEF e, Consistent

(* The answer to a request that left its line with capacity.               *)
LEMMA SettleIs ==
    ASSUME NEW d, Record(d), d.phase \in [Requests -> Phases], NEW r \in Requests
    PROVE  Settle(d, r) = IF r \in d.due THEN Fail(d, r) ELSE Admit(Fail(d, r), r)
<1>1. CASE r \in d.due
  BY <1>1 DEF Settle, Fail, Record, Names
<1>2. CASE r \notin d.due
  <2>1. [[d.phase EXCEPT ![r] = "idle"] EXCEPT ![r] = "held"] = [d.phase EXCEPT ![r] = "held"]
    OBVIOUS
  <2>2. Admit(Fail(d, r), r) = Admit([d EXCEPT !.due = @ \ {r}, !.arrived = Without(@, r)], r)
    BY <2>1 DEF Admit, Fail, Record, Names
  <2> QED
    BY <1>2, <2>2 DEF Settle
<1> QED
  BY <1>1, <1>2

(* A request that has left its line gets its lease, or its deadline has    *)
(* passed.                                                                 *)
LEMMA SettleConsistent ==
    ASSUME NEW d, NEW left, NEW open, Consistent(d, left, open), NEW r \in left
    PROVE  LET e == Settle(d, r)
           IN  /\ Consistent(e, left \ {r}, open) /\ SameSettings(d, e) /\ SameLines(d, e)
               /\ e.vqueue = d.vqueue /\ e.vcost = d.vcost
               /\ r \in d.due => SameBook(d, e)
               /\ r \notin d.due => /\ ToSet(e.leases) = ToSet(d.leases) \cup {r}
                                    /\ e.spent = d.spent + Cost[r] /\ r \notin ToSet(d.leases)
               /\ e.due = d.due \ {r} /\ e.arrived = Without(d.arrived, r)
               /\ e.phase[r] # "waiting" /\ Calm(d, e)
<1> DEFINE f == Fail(d, r)
           e == Settle(d, r)
<1>1. Record(d) /\ d.phase \in [Requests -> Phases] /\ r \in Requests
  BY DEF Consistent, Answers
<1>2. /\ Consistent(f, left \ {r}, open) /\ SameSettings(d, f) /\ SameLines(d, f)
      /\ f.phase[r] = "idle"
  BY FailConsistent
<1>3. /\ SameShadow(d, f) /\ SameBook(d, f) /\ f.due = d.due \ {r} /\ f.arrived = Without(d.arrived, r)
      /\ Calm(d, f) /\ d.phase[r] = "waiting"
  BY <1>1, FailFields DEF Consistent, Answers
<1>4. e = IF r \in d.due THEN f ELSE Admit(f, r)
  BY <1>1, SettleIs
<1> HIDE DEF f, e
<1>5. CASE r \in d.due
  BY <1>2, <1>3, <1>4, <1>5 DEF SameShadow, e
<1>6. CASE r \notin d.due
  <2>1. /\ Consistent(e, left \ {r}, open) /\ SameSettings(f, e) /\ SameLines(f, e)
        /\ SameShadow(f, e) /\ e.arrived = f.arrived
        /\ ToSet(e.leases) = ToSet(f.leases) \cup {r} /\ e.spent = f.spent + Cost[r]
        /\ e.phase[r] = "held" /\ r \notin ToSet(f.leases)
    BY <1>1, <1>2, <1>4, <1>6, AdmitConsistent
  <2>2. e.due = f.due /\ e.phase = [f.phase EXCEPT ![r] = "held"]
    <3>1. Record(f) /\ f.phase \in [Requests -> Phases]
      BY <1>2 DEF Consistent, Answers
    <3> QED
      BY <3>1, <1>1, <1>4, <1>6, AdmitFields
  <2>3. Calm(d, e)
    <3>1. \A x \in Requests : x # r => e.phase[x] = f.phase[x]
      <4>1. f.phase \in [Requests -> Phases]
        BY <1>2 DEF Consistent, Answers
      <4> QED
        BY <4>1, <2>2
    <3> QED
      BY <3>1, <1>3, <2>1, <2>2 DEF Calm
  <2> QED
    BY <1>2, <1>3, <1>6, <2>1, <2>2, <2>3 DEF SameSettings, SameLines, SameShadow, SameBook, e
<1> QED
  BY <1>5, <1>6

(* A request joins those that have no answer yet.                          *)
Asked(d, r) == [d EXCEPT !.arrived = Append(@, r), !.phase[r] = "waiting"]

(* A request that asks is in no line yet.                                  *)
LEMMA AskedConsistent ==
    ASSUME NEW d, NEW left, NEW open, Consistent(d, left, open),
           NEW r \in Requests, d.phase[r] = "idle"
    PROVE  LET e == Asked(d, r)
           IN  /\ Consistent(e, left \cup {r}, open) /\ SameSettings(d, e) /\ SameLines(d, e)
               /\ SameBook(d, e) /\ SameShadow(d, e)
               /\ e.due = d.due /\ e.arrived = Append(d.arrived, r)
               /\ r \notin Waiters(d) \cup left /\ r \notin ToSet(d.arrived)
<1> DEFINE e == Asked(d, r)
<1>1. /\ Record(d) /\ d.phase \in [Requests -> Phases]
      /\ r \notin Waiters(d) \cup left /\ r \notin ToSet(d.leases) /\ r \notin Members(d.vqueue)
  BY VirtualAreHeld DEF Consistent, Answers
<1>2. /\ Record(e) /\ SameSettings(d, e) /\ SameLines(d, e) /\ SameShadow(d, e) /\ SameBook(d, e)
      /\ e.arrived = Append(d.arrived, r) /\ e.due = d.due
      /\ e.phase = [d.phase EXCEPT ![r] = "waiting"]
  <2>1. /\ Record(e) /\ e.arrived = Append(d.arrived, r) /\ e.due = d.due
        /\ e.phase = [d.phase EXCEPT ![r] = "waiting"]
    BY <1>1 DEF Asked, Record, Names
  <2>2. SameSettings(d, e) /\ SameBook(d, e)
    BY <1>1 DEF Asked, Record, Names, SameSettings, SameBook
  <2>3. SameLines(d, e) /\ SameShadow(d, e)
    BY <1>1 DEF Asked, Record, Names, SameLines, SameShadow
  <2> QED
    BY <2>1, <2>2, <2>3
<1> HIDE DEF e
<1>3. /\ e.phase \in [Requests -> Phases] /\ e.phase[r] = "waiting"
      /\ \A s \in Requests : s # r => e.phase[s] = d.phase[s]
  BY <1>1, <1>2 DEF Phases
<1>4. /\ Settings(e) /\ Lines(e, open) /\ Book(e) /\ Shadow(e)
      /\ Waiters(e) = Waiters(d) /\ LaneWaiters(e) = LaneWaiters(d)
      /\ Members(e.queue) = Members(d.queue) /\ Members(e.vqueue) = Members(d.vqueue)
  BY <1>2, SamePartsKept DEF Consistent, SameSettings, SameBook
<1>5. Answers(e, left \cup {r})
  BY <1>1, <1>2, <1>3, <1>4 DEF Consistent, Answers, SameBook
<1>6. r \notin ToSet(d.arrived)
  BY <1>1 DEF Consistent, Times
<1>7. Times(e, left \cup {r})
  <2>1. /\ e.arrived \in Seq(Requests) /\ IsInjective(e.arrived)
        /\ ToSet(e.arrived) = ToSet(d.arrived) \cup {r}
    BY <1>2, <1>6, AppendElements DEF Consistent, Times
  <2> QED
    BY <2>1, <1>4 DEF Consistent, Times
<1> QED
  BY <1>1, <1>2, <1>4, <1>5, <1>6, <1>7 DEF e, Consistent

(* A deadline passes.                                                      *)
LEMMA DueConsistent ==
    ASSUME NEW d, NEW left, NEW open, Consistent(d, left, open), NEW S \in SUBSET (Waiters(d) \cup left)
    PROVE  Consistent([d EXCEPT !.due = S], left, open)
<1> DEFINE e == [d EXCEPT !.due = S]
<1>1. Record(d)
  BY DEF Consistent
<1>2. Record(e) /\ SameSettings(d, e) /\ e.due = S /\ e.arrived = d.arrived /\ e.phase = d.phase
  BY <1>1 DEF Record, Names, SameSettings
<1>3. SameLines(d, e) /\ SameShadow(d, e) /\ SameBook(d, e)
  BY <1>1 DEF Record, Names, SameLines, SameShadow, SameBook
<1> HIDE DEF e
<1>4. /\ Settings(e) /\ Lines(e, open) /\ Book(e) /\ Shadow(e)
      /\ Waiters(e) = Waiters(d) /\ LaneWaiters(e) = LaneWaiters(d)
      /\ Members(e.queue) = Members(d.queue) /\ Members(e.vqueue) = Members(d.vqueue)
  BY <1>2, <1>3, SamePartsKept DEF Consistent, SameSettings, SameBook
<1>5. Answers(e, left) /\ Times(e, left)
  BY <1>2, <1>3, <1>4 DEF Consistent, Answers, Times, SameBook
<1> QED
  BY <1>2, <1>4, <1>5 DEF Consistent, e

-----------------------------------------------------------------------------
(* x came before y, or is y.  b has lost some of the arrivals of a.        *)
Earlier(a, x, y) == \E i, j \in DOMAIN a : a[i] = x /\ a[j] = y /\ i <= j
Shrunk(a, b) == \A x, y : Earlier(b, x, y) => Earlier(a, x, y)

(* Taking one out loses arrivals and reorders none.                        *)
LEMMA ShrunkWithout ==
    ASSUME NEW a \in Seq(Requests), IsInjective(a), NEW r
    PROVE  Shrunk(a, Without(a, r))
<1>1. CASE ~ \E i \in 1..Len(a) : a[i] = r
  BY <1>1 DEF Without, RemoveFirst, Shrunk
<1>2. CASE \E i \in 1..Len(a) : a[i] = r
  <2>1. PICK k \in 1..Len(a) : a[k] = r
    BY <1>2
  <2> DEFINE b == RemoveAt(a, k)
  <2>2. \A i, j \in 1..Len(a) : a[i] = a[j] => i = j
    BY DEF IsInjective
  <2>3. {i \in 1..Len(a) : a[i] = r} = {k}
    BY <2>1, <2>2
  <2>4. Without(a, r) = b
    <3>1. Min({k}) = k
      BY DEF Min
    <3> QED
      BY <1>2, <2>3, <3>1 DEF Without, RemoveFirst, SelectInSeq
  <2>5. /\ b \in Seq(Requests) /\ Len(b) = Len(a) - 1
        /\ \A j \in 1..(Len(a) - 1) : b[j] = IF j < k THEN a[j] ELSE a[j + 1]
    BY RemoveAtElements
  <2> HIDE DEF b
  <2>6. ASSUME NEW i \in DOMAIN b, NEW j \in DOMAIN b, i <= j
        PROVE  Earlier(a, b[i], b[j])
    <3> DEFINE m == IF i < k THEN i ELSE i + 1
               n == IF j < k THEN j ELSE j + 1
    <3>1. /\ m \in DOMAIN a /\ n \in DOMAIN a /\ m <= n
          /\ a[m] = b[i] /\ a[n] = b[j]
      BY <2>5, <2>6
    <3> QED
      BY <3>1 DEF Earlier
  <2>7. Shrunk(a, b)
    BY <2>6 DEF Shrunk, Earlier
  <2> QED
    BY <2>4, <2>7
<1> QED
  BY <1>1, <1>2

(* Losing none loses some.                                                 *)
LEMMA ShrunkSelf == \A a : Shrunk(a, a)
  BY DEF Shrunk

(* Losses add up.                                                          *)
LEMMA ShrunkTwice == \A a, b, z : Shrunk(a, b) /\ Shrunk(b, z) => Shrunk(a, z)
  BY DEF Shrunk

(***************************************************************************)
(* What dispatching may do to the accounts: settings and virtual account   *)
(* stay, arrivals go, and if there is another lease then the active cost   *)
(* is within the limit.                                                    *)
(***************************************************************************)
Serves(d, e) ==
    /\ SameSettings(d, e)
    /\ e.vqueue = d.vqueue /\ e.vcost = d.vcost
    /\ Shrunk(d.arrived, e.arrived)
    /\ Calm(d, e)
    /\ \/ ToSet(e.leases) = ToSet(d.leases) /\ e.spent = d.spent
       \/ e.spent <= e.limit

(* Serving nobody serves.                                                  *)
LEMMA ServesSelf == \A d : Serves(d, d)
  BY ShrunkSelf DEF Serves, SameSettings, Calm

(* Serving twice serves.                                                   *)
LEMMA ServesTwice ==
    ASSUME NEW d, NEW e, NEW f, Serves(d, e), Serves(e, f) PROVE Serves(d, f)
<1>1. SameSettings(d, f)
  BY DEF Serves, SameSettings
<1>2. Shrunk(d.arrived, f.arrived)
  BY ShrunkTwice DEF Serves
<1>3. f.limit = e.limit
  BY DEF Serves, SameSettings
<1>4. Calm(d, f)
  BY DEF Serves, Calm
<1> QED
  BY <1>1, <1>2, <1>3, <1>4 DEF Serves

(* Sets of those that are still to be told, in the order of a line.        *)
Rest(s, i) == {s[j] : j \in (i + 1)..Len(s)}

(* The rest shrinks by one from step to step.                              *)
LEMMA RestOf ==
    ASSUME NEW s \in Seq(Requests), IsInjective(s)
    PROVE  /\ Rest(s, 0) = ToSet(s) /\ Rest(s, Len(s)) = {}
           /\ \A i \in 1..Len(s) : /\ s[i] \in Rest(s, i - 1) /\ s[i] \in Requests
                                   /\ Rest(s, i) = Rest(s, i - 1) \ {s[i]}
           /\ \A i \in 0..Len(s) : Rest(s, i) \subseteq ToSet(s)
<1>1. Rest(s, 0) = ToSet(s) /\ Rest(s, Len(s)) = {}
  BY DEF Rest, ToSet
<1>2. \A i, j \in 1..Len(s) : s[i] = s[j] => i = j
  BY DEF IsInjective
<1>3. ASSUME NEW i \in 1..Len(s)
      PROVE  s[i] \in Rest(s, i - 1) /\ s[i] \in Requests /\ Rest(s, i) = Rest(s, i - 1) \ {s[i]}
  <2>1. i \in ((i - 1) + 1)..Len(s)
    OBVIOUS
  <2>2. ((i - 1) + 1)..Len(s) = {i} \cup (i + 1)..Len(s) /\ i \notin (i + 1)..Len(s)
    OBVIOUS
  <2>3. \A j \in (i + 1)..Len(s) : j \in 1..Len(s) /\ j # i
    OBVIOUS
  <2>4. \A j \in (i + 1)..Len(s) : s[j] # s[i]
    BY <2>3, <1>2
  <2> QED
    BY <2>1, <2>2, <2>4 DEF Rest
<1>4. \A i \in 0..Len(s) : Rest(s, i) \subseteq ToSet(s)
  BY DEF Rest, ToSet
<1> QED
  BY <1>1, <1>3, <1>4

(* Everybody in s is rejected.                                             *)
LEMMA FailAll ==
    ASSUME NEW d, NEW left, NEW open, NEW s \in Seq(Requests), IsInjective(s),
           left \cap ToSet(s) = {}, Consistent(d, left \cup ToSet(s), open)
    PROVE  LET e == FoldLeft(Fail, d, s)
           IN  Consistent(e, left, open) /\ SameLines(d, e) /\ Serves(d, e) /\ SameBook(d, e)
<1> DEFINE e == FoldLeft(Fail, d, s)
           n == Len(s)
           Good(f, i) == /\ Consistent(f, left \cup Rest(s, i), open)
                         /\ SameLines(d, f) /\ Serves(d, f) /\ SameBook(d, f)
<1>1. PICK h : /\ h[0] = d
               /\ \A i \in 1..n : h[i] = Round("fail", 0, h[i - 1], s[i])
               /\ e = h[n]
  BY FailRuns DEF Runs
<1>2. \A f, r : Round("fail", 0, f, r) = Fail(f, r)
  BY DEF Round
<1> DEFINE T == {i \in 0..n : Good(h[i], i)}
<1>3. Good(h[0], 0)
  BY <1>1, RestOf, ServesSelf DEF SameLines, SameBook
<1> HIDE DEF Good
<1>4. 0 \in T
  BY <1>3
<1>5. ASSUME NEW i \in 1..n, i - 1 \in T PROVE i \in T
  <2> DEFINE f == h[i - 1]
             r == s[i]
             g == h[i]
  <2>1. Good(f, i - 1) /\ g = Fail(f, r)
    BY <1>1, <1>2, <1>5
  <2>2. /\ r \in Rest(s, i - 1) /\ r \in Requests /\ Rest(s, i) = Rest(s, i - 1) \ {r}
        /\ r \in ToSet(s)
    BY RestOf DEF ToSet
  <2> HIDE DEF f, r, g
  <2>3. Consistent(f, left \cup Rest(s, i - 1), open) /\ r \in left \cup Rest(s, i - 1)
    BY <2>1, <2>2 DEF Good
  <2>4. /\ Consistent(g, (left \cup Rest(s, i - 1)) \ {r}, open)
        /\ SameSettings(f, g) /\ SameLines(f, g)
    BY <2>1, <2>3, FailConsistent
  <2>5. Record(f) /\ f.phase \in [Requests -> Phases] /\ f.arrived \in Seq(Requests) /\ IsInjective(f.arrived)
    BY <2>3 DEF Consistent, Answers, Times
  <2>6. /\ SameShadow(f, g) /\ SameBook(f, g) /\ g.arrived = Without(f.arrived, r) /\ Calm(f, g)
    BY <2>1, <2>2, <2>5, FailFields
  <2>7. Shrunk(f.arrived, g.arrived)
    BY <2>5, <2>6, ShrunkWithout
  <2>8. Serves(f, g)
    BY <2>4, <2>6, <2>7 DEF Serves, SameShadow, SameBook
  <2>9. Serves(d, g) /\ SameLines(d, g) /\ SameBook(d, g)
    BY <2>1, <2>4, <2>6, <2>8, ServesTwice DEF SameLines, SameBook, Good
  <2>10. (left \cup Rest(s, i - 1)) \ {r} = left \cup Rest(s, i)
    BY <2>2
  <2>11. Good(g, i)
    BY <2>4, <2>9, <2>10 DEF Good
  <2> QED
    BY <2>11 DEF g
<1>6. n \in Nat
  OBVIOUS
<1> HIDE DEF T, n
<1>7. \A i \in 0..n : i \in T
  BY <1>4, <1>5, <1>6, NumbersUpTo
<1>8. Good(h[n], n)
  BY <1>6, <1>7 DEF T
<1>9. Rest(s, n) = {}
  BY RestOf DEF n
<1> HIDE DEF e
<1>10. left \cup {} = left
  OBVIOUS
<1>11. Consistent(e, left, open) /\ SameLines(d, e) /\ Serves(d, e) /\ SameBook(d, e)
  BY <1>1, <1>8, <1>9, <1>10 DEF Good
<1> QED
  BY <1>11 DEF e

-----------------------------------------------------------------------------
(* The lane of one tenant changes from d to e: whoever is no longer in it  *)
(* is in gone, whoever is new in it was in left.                           *)
LEMMA LaneChanged ==
    ASSUME NEW d, NEW left, NEW open, Consistent(d, left, open),
           NEW t \in Tenants, NEW s \in Seq(Requests), IsInjective(s),
           \A r \in ToSet(s) : TenantKey[r] = t, d.cfg.lanes \/ s = <<>>,
           NEW e, Record(e), SameSettings(d, e), SameBook(d, e), SameShadow(d, e),
           SameAnswers(d, e), e.queue = d.queue, e.lane = [d.lane EXCEPT ![t] = s],
           NEW now, LaneOrder(e, now), NEW gone, gone \cap ToSet(s) = {},
           gone \cap Waiters(d) \subseteq ToSet(d.lane[t]),
           gone \cup ToSet(s) = left \cup ToSet(d.lane[t])
    PROVE  /\ Consistent(e, gone, now)
           /\ LaneWaiters(e) = (LaneWaiters(d) \ ToSet(d.lane[t])) \cup ToSet(s)
<1>1. /\ d.lane \in [Tenants -> Seq(Requests)] /\ \A u \in Tenants : LaneOf(d, u)
      /\ WellFormed(d.queue, TenantKey)
      /\ left \cap Waiters(d) = {} /\ Members(d.queue) \cap LaneWaiters(d) = {}
  BY DEF Consistent, Lines, Answers
<1>2. /\ e.lane \in [Tenants -> Seq(Requests)] /\ e.lane[t] = s
      /\ \A u \in Tenants : u # t => e.lane[u] = d.lane[u]
  BY <1>1
<1>3. \A u \in Tenants : LaneOf(e, u)
  <2>1. e.cfg = d.cfg
    BY DEF SameSettings
  <2> QED
    BY <2>1, <1>1, <1>2 DEF LaneOf
<1>4. Lines(e, now)
  BY <1>1, <1>2, <1>3 DEF Lines
<1>5. \A u \in Tenants : u # t => ToSet(d.lane[u]) \cap ToSet(d.lane[t]) = {}
  <2>1. \A u \in Tenants : \A r \in ToSet(d.lane[u]) : TenantKey[r] = u
    BY <1>1 DEF LaneOf
  <2> QED
    BY <2>1
<1>6. ToSet(d.lane[t]) \subseteq LaneWaiters(d)
  BY DEF LaneWaiters
<1>7. LaneWaiters(e) = (LaneWaiters(d) \ ToSet(d.lane[t])) \cup ToSet(s)
  <2>1. ASSUME NEW r PROVE r \in LaneWaiters(e)
                           <=> (r \in ToSet(s) \/ (r \in LaneWaiters(d) /\ r \notin ToSet(d.lane[t])))
    <3>1. r \in LaneWaiters(e) <=> \E u \in Tenants : r \in ToSet(e.lane[u])
      BY DEF LaneWaiters
    <3>2. r \in LaneWaiters(d) <=> \E u \in Tenants : r \in ToSet(d.lane[u])
      BY DEF LaneWaiters
    <3> QED
      BY <3>1, <3>2, <1>2, <1>5
  <2> QED
    BY <2>1
<1>8. Members(e.queue) \cap LaneWaiters(e) = {}
  <2>1. ToSet(s) \cap Members(d.queue) = {}
    BY <1>1, <1>6 DEF Waiters
  <2> QED
    BY <2>1, <1>1, <1>7
<1>9. Waiters(e) \cup gone = Waiters(d) \cup left
  BY <1>6, <1>7 DEF Waiters
<1>10. gone \cap Waiters(e) = {}
  <2>1. gone \cap Members(d.queue) = {}
    BY <1>1, <1>6 DEF Waiters
  <2>2. gone \cap LaneWaiters(e) = {}
    BY <1>6, <1>7 DEF Waiters
  <2> QED
    BY <2>1, <2>2 DEF Waiters
<1>11. Settings(e) /\ e.loaded \in BOOLEAN
  BY SamePartsKept DEF Consistent, Book, SameBook
<1>12. Consistent(e, gone, now)
  BY <1>4, <1>8, <1>9, <1>10, <1>11, LinesMoved DEF SameBook
<1> QED
  BY <1>7, <1>12

(* deleteLane, first half: nobody waits in the lane any more, nobody told. *)
Unlaned(d, t) ==
    [d EXCEPT !.lane[t] = <<>>, !.lanes = Without(@, t), !.recent = Without(@, t)]

(* Unlaned, field by field.                                                *)
LEMMA UnlanedFields ==
    ASSUME NEW d, Record(d), NEW t
    PROVE  LET e == Unlaned(d, t)
           IN  /\ Record(e) /\ SameSettings(d, e) /\ SameBook(d, e) /\ SameShadow(d, e)
               /\ SameAnswers(d, e) /\ e.queue = d.queue /\ e.lane = [d.lane EXCEPT ![t] = <<>>]
               /\ e.lanes = Without(d.lanes, t) /\ e.recent = Without(d.recent, t)
<1> DEFINE e == Unlaned(d, t)
<1>1. /\ Record(e) /\ e.queue = d.queue /\ e.lane = [d.lane EXCEPT ![t] = <<>>]
      /\ e.lanes = Without(d.lanes, t) /\ e.recent = Without(d.recent, t)
  BY DEF Unlaned, Record, Names
<1>2. SameSettings(d, e) /\ SameBook(d, e)
  BY DEF Unlaned, Record, Names, SameSettings, SameBook
<1>3. SameShadow(d, e) /\ SameAnswers(d, e)
  BY DEF Unlaned, Record, Names, SameShadow, SameAnswers
<1> QED
  BY <1>1, <1>2, <1>3

(* deleteLane keeps the invariant and answers everybody in the lane.       *)
LEMMA DeleteLaneConsistent ==
    ASSUME NEW d, NEW left, NEW open, Consistent(d, left, open), NEW t \in Tenants
    PROVE  LET e == DeleteLane(d, t)
           IN  /\ Consistent(e, left, open \ {t}) /\ Serves(d, e) /\ SameBook(d, e)
               /\ e.queue = d.queue /\ e.lane = [d.lane EXCEPT ![t] = <<>>]
               /\ e.lanes = Without(d.lanes, t) /\ e.recent = Without(d.recent, t)
<1> DEFINE b == Unlaned(d, t)
           e == DeleteLane(d, t)
<1>1. e = FoldLeft(Fail, b, d.lane[t])
  BY DEF DeleteLane, Unlaned
<1>2. /\ Record(b) /\ SameSettings(d, b) /\ SameBook(d, b) /\ SameShadow(d, b)
      /\ SameAnswers(d, b) /\ b.queue = d.queue /\ b.lane = [d.lane EXCEPT ![t] = <<>>]
      /\ b.lanes = Without(d.lanes, t) /\ b.recent = Without(d.recent, t)
  BY UnlanedFields DEF Consistent
<1> HIDE DEF b, e
<1>3. d.lane \in [Tenants -> Seq(Requests)] /\ LaneOrder(d, open) /\ LaneOf(d, t)
  BY DEF Consistent, Lines
<1>4. LaneOrder(b, open \ {t})
  <2>1. /\ b.lanes \in Seq(Tenants) /\ IsInjective(b.lanes) /\ ToSet(b.lanes) = ToSet(d.lanes) \ {t}
        /\ b.recent \in Seq(Tenants) /\ IsInjective(b.recent) /\ ToSet(b.recent) = ToSet(d.recent) \ {t}
    BY <1>2, <1>3, RemoveFirstElements DEF LaneOrder, Without
  <2>2. \A u \in Tenants : b.lane[u] # <<>> <=> u # t /\ d.lane[u] # <<>>
    BY <1>2, <1>3
  <2> QED
    BY <2>1, <2>2, <1>3 DEF LaneOrder
<1>5. /\ <<>> \in Seq(Requests) /\ IsInjective(<<>>) /\ ToSet(<<>>) = {}
  BY DEF IsInjective, ToSet
<1>6. left \cap ToSet(d.lane[t]) = {} /\ left \cap Waiters(d) = {} /\ ToSet(d.lane[t]) \subseteq Waiters(d)
  BY DEF Consistent, Answers, Waiters, LaneWaiters
<1>7. Consistent(b, left \cup ToSet(d.lane[t]), open \ {t})
  <2> DEFINE gone == left \cup ToSet(d.lane[t])
             now == open \ {t}
             s == <<>>
  <2>1. /\ gone \cap ToSet(s) = {} /\ gone \cap Waiters(d) \subseteq ToSet(d.lane[t])
        /\ gone \cup ToSet(s) = left \cup ToSet(d.lane[t])
        /\ \A r \in ToSet(s) : TenantKey[r] = t
    BY <1>5, <1>6
  <2>2. LaneOrder(b, now) /\ b.lane = [d.lane EXCEPT ![t] = s] /\ s \in Seq(Requests) /\ IsInjective(s) /\ s = <<>>
    BY <1>2, <1>4, <1>5
  <2> HIDE DEF gone, now, s
  <2>3. Consistent(b, gone, now)
    BY <1>2, <2>1, <2>2, LaneChanged
  <2> QED
    BY <2>3 DEF gone, now
<1>8. d.lane[t] \in Seq(Requests) /\ IsInjective(d.lane[t])
  BY <1>3 DEF LaneOf
<1>9. Consistent(e, left, open \ {t}) /\ SameLines(b, e) /\ Serves(b, e) /\ SameBook(b, e)
  BY <1>1, <1>6, <1>7, <1>8, FailAll
<1>10. Serves(d, b)
  BY <1>2, ShrunkSelf DEF Serves, SameShadow, SameBook, SameAnswers, Calm
<1>11. Serves(d, e)
  BY <1>9, <1>10, ServesTwice
<1> QED
  BY <1>2, <1>9, <1>11 DEF e, SameLines, SameBook

(* removeEmptyLane: no lane is left open.                                  *)
LEMMA RemoveEmptyLaneConsistent ==
    ASSUME NEW d, NEW left, NEW t \in Tenants, NEW open, open \subseteq {t},
           Consistent(d, left, open)
    PROVE  LET e == RemoveEmptyLane(d, t)
           IN  Consistent(e, left, {}) /\ Serves(d, e) /\ SameBook(d, e) /\ e.queue = d.queue
<1>1. CASE d.lane[t] = <<>>
  <2>1. open \ {t} = {}
    OBVIOUS
  <2>2. RemoveEmptyLane(d, t) = DeleteLane(d, t)
    BY <1>1 DEF RemoveEmptyLane
  <2> DEFINE e == DeleteLane(d, t)
  <2>3. Consistent(e, left, open \ {t}) /\ Serves(d, e) /\ SameBook(d, e) /\ e.queue = d.queue
    BY DeleteLaneConsistent
  <2> HIDE DEF e
  <2> QED
    BY <2>1, <2>2, <2>3 DEF e
<1>2. CASE d.lane[t] # <<>>
  <2>1. LaneOrder(d, {})
    BY <1>2 DEF Consistent, Lines, LaneOrder
  <2>2. Consistent(d, left, {})
    BY <2>1 DEF Consistent, Lines
  <2>3. RemoveEmptyLane(d, t) = d
    BY <1>2 DEF RemoveEmptyLane
  <2> QED
    BY <2>2, <2>3, ServesSelf DEF SameBook
<1> QED
  BY <1>1, <1>2

-----------------------------------------------------------------------------
(* getOrCreateLane: the lane is there, and another may be gone for it.     *)
LEMMA GetLaneConsistent ==
    ASSUME NEW d, NEW left, Consistent(d, left, {}), NEW t \in Tenants
    PROVE  LET e == GetLane(d, t)
           IN  Consistent(e, left, {t}) /\ Serves(d, e) /\ SameBook(d, e) /\ e.queue = d.queue
<1> DEFINE new == t \notin ToSet(d.lanes)
           b == IF new /\ Len(d.lanes) >= MaxLanes THEN DeleteLane(d, Head(d.recent)) ELSE d
           l == IF new THEN Append(b.lanes, t) ELSE b.lanes
           m == Append(Without(b.recent, t), t)
           e == GetLane(d, t)
<1>1. e = [b EXCEPT !.lanes = l, !.recent = m]
  BY DEF GetLane
<1>2. LaneOrder(d, {})
  BY DEF Consistent, Lines
<1>3. /\ Consistent(b, left, {}) /\ Serves(d, b) /\ SameBook(d, b) /\ b.queue = d.queue
      /\ t \in ToSet(d.lanes) <=> t \in ToSet(b.lanes)
  <2>1. CASE new /\ Len(d.lanes) >= MaxLanes
    <3> DEFINE u == Head(d.recent)
    <3>1. d.lanes # <<>>
      BY <2>1, <1>2, MaxLanesPositive DEF LaneOrder
    <3>2. ToSet(d.recent) # {} /\ d.recent \in Seq(Tenants)
      BY <3>1, <1>2, EmptyElements DEF LaneOrder
    <3>3. d.recent # <<>>
      BY <3>2 DEF ToSet
    <3>4. u \in Tenants
      BY <3>2, <3>3
    <3> HIDE DEF u
    <3>5. {} \ {u} = {}
      OBVIOUS
    <3>6. /\ Consistent(DeleteLane(d, u), left, {} \ {u}) /\ Serves(d, DeleteLane(d, u))
          /\ SameBook(d, DeleteLane(d, u)) /\ DeleteLane(d, u).queue = d.queue
          /\ DeleteLane(d, u).lanes = Without(d.lanes, u)
      BY <3>4, DeleteLaneConsistent
    <3>7. ToSet(Without(d.lanes, u)) = ToSet(d.lanes) \ {u}
      BY <1>2, RemoveFirstElements DEF LaneOrder, Without
    <3>8. b = DeleteLane(d, u)
      BY <2>1 DEF u
    <3> HIDE DEF b
    <3> QED
      BY <2>1, <3>5, <3>6, <3>7, <3>8
  <2>2. CASE ~(new /\ Len(d.lanes) >= MaxLanes)
    <3>1. b = d
      BY <2>2
    <3> QED
      BY <3>1, ServesSelf DEF SameBook
  <2> QED
    BY <2>1, <2>2
<1> HIDE DEF b
<1>4. Record(b) /\ LaneOrder(b, {})
  BY <1>3 DEF Consistent, Lines
<1>5. /\ l \in Seq(Tenants) /\ IsInjective(l) /\ ToSet(l) = ToSet(b.lanes) \cup {t}
  <2>1. CASE new
    BY <2>1, <1>3, <1>4, AppendElements DEF LaneOrder
  <2>2. CASE ~new
    BY <2>2, <1>3, <1>4 DEF LaneOrder
  <2> QED
    BY <2>1, <2>2
<1>6. /\ m \in Seq(Tenants) /\ IsInjective(m) /\ ToSet(m) = ToSet(b.recent) \cup {t}
  <2> DEFINE w == Without(b.recent, t)
  <2>1. w \in Seq(Tenants) /\ IsInjective(w) /\ ToSet(w) = ToSet(b.recent) \ {t}
    BY <1>4, RemoveFirstElements DEF LaneOrder, Without
  <2> HIDE DEF w
  <2>2. t \notin ToSet(w)
    BY <2>1
  <2> QED
    BY <2>1, <2>2, AppendElements DEF w
<1> HIDE DEF new, l, m, e
<1>7. /\ Record(e) /\ SameSettings(b, e) /\ SameBook(b, e)
      /\ e.lanes = l /\ e.recent = m /\ e.lane = b.lane /\ e.queue = b.queue
  BY <1>1, <1>4 DEF Record, Names, SameSettings, SameBook
<1>8. SameShadow(b, e) /\ SameAnswers(b, e)
  BY <1>1, <1>4 DEF Record, Names, SameShadow, SameAnswers
<1>9. LaneOrder(e, {t})
  BY <1>4, <1>5, <1>6, <1>7 DEF LaneOrder
<1>10. Lines(e, {t})
  <2>1. e.cfg = b.cfg
    BY <1>7 DEF SameSettings
  <2> QED
    BY <2>1, <1>3, <1>7, <1>9 DEF Consistent, Lines, LaneOf
<1>11. Waiters(e) = Waiters(b) /\ LaneWaiters(e) = LaneWaiters(b)
  BY <1>7 DEF Waiters, LaneWaiters
<1>12. Settings(e) /\ e.loaded \in BOOLEAN
  BY <1>3, <1>7, SamePartsKept DEF Consistent, Book, SameBook
<1>13. Consistent(e, left, {t})
  <2>1. left \cap Waiters(b) = {} /\ Members(b.queue) \cap LaneWaiters(b) = {}
    BY <1>3 DEF Consistent, Answers
  <2> QED
    BY <2>1, <1>3, <1>7, <1>8, <1>10, <1>11, <1>12, LinesMoved DEF SameBook
<1>14. Serves(b, e)
  BY <1>7, <1>8, ShrunkSelf DEF Serves, SameShadow, SameBook, SameAnswers, Calm
<1>15. Serves(d, e)
  BY <1>3, <1>14, ServesTwice
<1> QED
  BY <1>3, <1>7, <1>13, <1>15 DEF e, SameBook

(* Everybody in s is answered with capacity for the last: the others have  *)
(* missed their deadline.                                                  *)
LEMMA SettleLine ==
    ASSUME NEW d, NEW left, NEW open, NEW s \in Seq(Requests), IsInjective(s),
           left \cap ToSet(s) = {}, Consistent(d, left \cup ToSet(s), open),
           \A i \in 1..Len(s) : s[i] \in d.due \/ (i = Len(s) /\ Cost[s[i]] <= Room(d))
    PROVE  LET e == FoldLeft(Settle, d, s)
           IN  Consistent(e, left, open) /\ SameLines(d, e) /\ Serves(d, e)
<1> DEFINE e == FoldLeft(Settle, d, s)
           n == Len(s)
           Good(f, i) == /\ Consistent(f, left \cup Rest(s, i), open)
                         /\ SameLines(d, f) /\ Serves(d, f)
                         /\ \A r \in Rest(s, i) : r \in f.due <=> r \in d.due
                         /\ i < n => ToSet(f.leases) = ToSet(d.leases) /\ f.spent = d.spent
<1>1. PICK h : /\ h[0] = d
               /\ \A i \in 1..n : h[i] = Round("settle", 0, h[i - 1], s[i])
               /\ e = h[n]
  BY SettleRuns DEF Runs
<1>2. \A f, r : Round("settle", 0, f, r) = Settle(f, r)
  BY DEF Round
<1> DEFINE T == {i \in 0..n : Good(h[i], i)}
<1>3. Good(h[0], 0)
  BY <1>1, RestOf, ServesSelf DEF SameLines
<1> HIDE DEF Good
<1>4. 0 \in T
  BY <1>3
<1>5. ASSUME NEW i \in 1..n, i - 1 \in T PROVE i \in T
  <2> DEFINE f == h[i - 1]
             r == s[i]
             g == h[i]
  <2>1. Good(f, i - 1) /\ g = Settle(f, r)
    BY <1>1, <1>2, <1>5
  <2>2. /\ r \in Rest(s, i - 1) /\ r \in Requests /\ Rest(s, i) = Rest(s, i - 1) \ {r}
        /\ r \in ToSet(s)
    BY RestOf DEF ToSet
  <2>3. r \in d.due \/ (i = n /\ Cost[r] <= d.limit - d.spent)
    BY DEF Room
  <2>4. i - 1 < n
    OBVIOUS
  <2> HIDE DEF f, r, g
  <2>5. /\ Consistent(f, left \cup Rest(s, i - 1), open) /\ r \in left \cup Rest(s, i - 1)
        /\ SameLines(d, f) /\ Serves(d, f)
        /\ \A x \in Rest(s, i - 1) : x \in f.due <=> x \in d.due
        /\ ToSet(f.leases) = ToSet(d.leases) /\ f.spent = d.spent
    BY <2>1, <2>2, <2>4 DEF Good
  <2> DEFINE all == left \cup Rest(s, i - 1)
  <2> HIDE DEF all
  <2>18. Consistent(f, all, open) /\ r \in all
    BY <2>5 DEF all
  <2>19. /\ Consistent(g, all \ {r}, open) /\ SameSettings(f, g) /\ SameLines(f, g)
         /\ g.vqueue = f.vqueue /\ g.vcost = f.vcost
         /\ r \in f.due => SameBook(f, g)
         /\ r \notin f.due => /\ ToSet(g.leases) = ToSet(f.leases) \cup {r}
                              /\ g.spent = f.spent + Cost[r] /\ r \notin ToSet(f.leases)
         /\ g.due = f.due \ {r} /\ g.arrived = Without(f.arrived, r) /\ Calm(f, g)
    <3> DEFINE a == Settle(f, r)
    <3>1. /\ Consistent(a, all \ {r}, open) /\ SameSettings(f, a) /\ SameLines(f, a)
          /\ a.vqueue = f.vqueue /\ a.vcost = f.vcost
          /\ r \in f.due => SameBook(f, a)
          /\ r \notin f.due => /\ ToSet(a.leases) = ToSet(f.leases) \cup {r}
                               /\ a.spent = f.spent + Cost[r] /\ r \notin ToSet(f.leases)
          /\ a.due = f.due \ {r} /\ a.arrived = Without(f.arrived, r)
          /\ a.phase[r] # "waiting" /\ Calm(f, a)
      BY <2>18, SettleConsistent
    <3> HIDE DEF a
    <3>2. g = a
      BY <2>1 DEF a
    <3> QED
      BY <3>1, <3>2
  <2>6. /\ Consistent(g, (left \cup Rest(s, i - 1)) \ {r}, open)
        /\ SameSettings(f, g) /\ SameLines(f, g)
        /\ g.vqueue = f.vqueue /\ g.vcost = f.vcost
        /\ r \in f.due => SameBook(f, g)
        /\ r \notin f.due => ToSet(g.leases) = ToSet(f.leases) \cup {r} /\ g.spent = f.spent + Cost[r]
        /\ g.due = f.due \ {r} /\ g.arrived = Without(f.arrived, r) /\ Calm(f, g)
    BY <2>19 DEF all
  <2>7. Shrunk(f.arrived, g.arrived)
    BY <2>5, <2>6, ShrunkWithout DEF Consistent, Times
  <2>8. f.limit = d.limit /\ g.limit = d.limit
    BY <2>5, <2>6 DEF Serves, SameSettings
  <2>9. d.limit \in Int /\ d.spent \in Int /\ Cost[r] \in Int
    <3>1. IsFiniteSet(ToSet(f.leases)) /\ ToSet(f.leases) \in SUBSET Requests
      BY <2>5, ElementsFinite DEF Consistent, Book
    <3>2. f.spent \in Nat
      BY <2>5, <3>1, CostNat DEF Consistent, Book
    <3>3. f.limit \in Int
      BY <2>5 DEF Consistent, Settings
    <3> QED
      BY <3>2, <3>3, <2>2, <2>5, <2>8, CostPositive
  <2>10. r \in d.due => ToSet(g.leases) = ToSet(d.leases) /\ g.spent = d.spent
    BY <2>2, <2>5, <2>6 DEF SameBook
  <2>11. r \notin d.due => i = n /\ g.spent <= g.limit
    BY <2>2, <2>3, <2>5, <2>6, <2>8, <2>9
  <2>12. Serves(f, g)
    BY <2>5, <2>6, <2>7, <2>10, <2>11 DEF Serves
  <2>13. Serves(d, g) /\ SameLines(d, g)
    BY <2>5, <2>6, <2>12, ServesTwice DEF SameLines
  <2>14. (left \cup Rest(s, i - 1)) \ {r} = left \cup Rest(s, i)
    BY <2>2
  <2>15. \A x \in Rest(s, i) : x \in g.due <=> x \in d.due
    BY <2>2, <2>5, <2>6
  <2>16. i < n => ToSet(g.leases) = ToSet(d.leases) /\ g.spent = d.spent
    BY <2>10, <2>11
  <2>17. Good(g, i)
    BY <2>6, <2>13, <2>14, <2>15, <2>16 DEF Good
  <2> QED
    BY <2>17 DEF g
<1>6. n \in Nat
  OBVIOUS
<1> HIDE DEF T, n
<1>7. \A i \in 0..n : i \in T
  BY <1>4, <1>5, <1>6, NumbersUpTo
<1>8. Good(h[n], n)
  BY <1>6, <1>7 DEF T
<1>9. Rest(s, n) = {}
  BY RestOf DEF n
<1> HIDE DEF e
<1>10. left \cup {} = left
  OBVIOUS
<1>11. Consistent(e, left, open) /\ SameLines(d, e) /\ Serves(d, e)
  BY <1>1, <1>8, <1>9, <1>10 DEF Good
<1> QED
  BY <1>11 DEF e

-----------------------------------------------------------------------------
(* Numbers that come with all smaller ones.                                *)
LEMMA InitialSegment ==
    ASSUME NEW n \in Nat, NEW L \in SUBSET (1..n), \A k \in L : \A j \in 1..k : j \in L
    PROVE  L = 1..Cardinality(L) /\ Cardinality(L) \in 0..n
<1>1. CASE L = {}
  BY <1>1, FS_EmptySet
<1>2. CASE L # {}
  <2> DEFINE m == Max(L)
  <2>1. m \in L /\ \A x \in L : x <= m
    BY <1>2, LastOfPrefix
  <2> HIDE DEF m
  <2>2. m \in 1..n /\ L = 1..m
    <3>1. m \in 1..n
      BY <2>1
    <3>2. \A x \in L : x \in 1..m
      BY <2>1, <3>1
    <3> QED
      BY <2>1, <3>1, <3>2
  <2>3. Cardinality(1..m) = m
    BY <2>2, FS_Interval
  <2> QED
    BY <2>2, <2>3
<1> QED
  BY <1>1, <1>2

(* A line, cut in two.                                                     *)
LEMMA CutInTwo ==
    ASSUME NEW line \in Seq(Requests), IsInjective(line), NEW n \in 0..Len(line)
    PROVE  LET s == SubSeq(line, 1, n)
               rest == SubSeq(line, n + 1, Len(line))
           IN  /\ s \in Seq(Requests) /\ IsInjective(s) /\ Len(s) = n
               /\ \A i \in 1..n : s[i] = line[i]
               /\ rest \in Seq(Requests) /\ IsInjective(rest)
               /\ ToSet(s) \cap ToSet(rest) = {} /\ ToSet(s) \cup ToSet(rest) = ToSet(line)
<1> DEFINE s == SubSeq(line, 1, n)
           rest == SubSeq(line, n + 1, Len(line))
<1>1. s \in Seq(Requests) /\ Len(s) = n /\ \A i \in 1..n : s[i] = line[i]
  OBVIOUS
<1>2. /\ rest \in Seq(Requests) /\ IsInjective(rest)
      /\ ToSet(rest) = ToSet(line) \ {line[i] : i \in 1..n}
      /\ {line[i] : i \in 1..n} \subseteq ToSet(line)
  BY SuffixElements
<1> HIDE DEF s, rest
<1>3. IsInjective(s)
  BY <1>1 DEF IsInjective
<1>4. ToSet(s) = {line[i] : i \in 1..n}
  BY <1>1 DEF ToSet
<1> QED
  BY <1>1, <1>2, <1>3, <1>4 DEF s, rest

(* dispatchLanes, for one lane: the requests that leave it are the first   *)
(* ones, all of them late save the last, who fits.                         *)
LEMMA ServeLaneConsistent ==
    ASSUME NEW d, Consistent(d, {}, {}), NEW t \in Tenants
    PROVE  LET e == ServeLane(d, t)
           IN  Consistent(e, {}, {}) /\ Serves(d, e) /\ e.queue = d.queue
<1> DEFINE line == d.lane[t]
           n == Len(line)
           fits(k) == Cost[line[k]] <= Room(d)
           late == {k \in DOMAIN line : \A j \in 1..k : fits(j) /\ line[j] \in d.due}
           next == Cardinality(late) + 1
           gone == IF next <= n /\ fits(next) THEN next ELSE next - 1
           s == SubSeq(line, 1, gone)
           rest == SubSeq(line, gone + 1, n)
           b == [d EXCEPT !.lane[t] = rest]
           f == FoldLeft(Settle, b, s)
           e == ServeLane(d, t)
           now == IF line = <<>> THEN {} ELSE {t}
<1>1. e = IF Room(d) <= 0 THEN d ELSE RemoveEmptyLane(f, t)
  BY DEF ServeLane
<1>2. /\ Record(d) /\ line \in Seq(Requests) /\ IsInjective(line) /\ n \in Nat
      /\ d.lane \in [Tenants -> Seq(Requests)]
      /\ \A r \in ToSet(line) : TenantKey[r] = t
      /\ d.cfg.lanes \/ line = <<>>
      /\ LaneOrder(d, {})
  BY DEF Consistent, Lines, LaneOf
<1> HIDE DEF line
<1>3. late = 1..Cardinality(late) /\ Cardinality(late) \in 0..n
  <2>1. late \in SUBSET (1..n) /\ \A k \in late : \A j \in 1..k : j \in late
    BY <1>2
  <2> QED
    <3> HIDE DEF late
    <3> QED
      BY <1>2, <2>1, InitialSegment
<1>4. /\ gone \in 0..n
      /\ \A i \in 1..gone : line[i] \in d.due \/ (i = gone /\ Cost[line[i]] <= Room(d))
  <2>1. \A i \in late : i \in 1..i
    BY <1>2
  <2>2. \A i \in late : line[i] \in d.due
    BY <2>1
  <2> DEFINE m == Cardinality(late)
  <2> HIDE DEF late
  <2>3. m \in 0..n /\ \A i \in 1..m : line[i] \in d.due
    BY <1>3, <2>2
  <2> HIDE DEF m
  <2>4. next = m + 1
    BY DEF m
  <2>5. CASE next <= n /\ fits(next)
    BY <2>3, <2>4, <2>5, <1>2
  <2>6. CASE ~(next <= n /\ fits(next))
    BY <2>3, <2>4, <2>6, <1>2
  <2> QED
    BY <2>5, <2>6
<1> HIDE DEF late, next, fits, gone
<1>5. /\ s \in Seq(Requests) /\ IsInjective(s) /\ Len(s) = gone
      /\ \A i \in 1..gone : s[i] = line[i]
      /\ rest \in Seq(Requests) /\ IsInjective(rest)
      /\ ToSet(s) \cap ToSet(rest) = {} /\ ToSet(s) \cup ToSet(rest) = ToSet(line)
  BY <1>2, <1>4, CutInTwo
<1>6. line = <<>> => rest = <<>>
  <2>1. line = <<>> => ToSet(line) = {}
    BY <1>2, EmptyElements
  <2>2. line = <<>> => ToSet(rest) = {}
    BY <2>1, <1>5
  <2> QED
    BY <2>2, <1>5, EmptyElements
<1> HIDE DEF s, rest, n
<1>7. /\ Record(b) /\ SameSettings(d, b) /\ SameBook(d, b) /\ SameShadow(d, b)
      /\ SameAnswers(d, b) /\ b.queue = d.queue /\ b.lane = [d.lane EXCEPT ![t] = rest]
      /\ b.lanes = d.lanes /\ b.recent = d.recent
  <2>1. /\ Record(b) /\ b.queue = d.queue /\ b.lane = [d.lane EXCEPT ![t] = rest]
        /\ b.lanes = d.lanes /\ b.recent = d.recent
    BY <1>2 DEF Record, Names
  <2>2. SameSettings(d, b) /\ SameBook(d, b)
    BY <1>2 DEF Record, Names, SameSettings, SameBook
  <2>3. SameShadow(d, b) /\ SameAnswers(d, b)
    BY <1>2 DEF Record, Names, SameShadow, SameAnswers
  <2> QED
    BY <2>1, <2>2, <2>3
<1> HIDE DEF b, f
<1>8. LaneOrder(b, now)
  <2>1. \A u \in Tenants : u # t => b.lane[u] = d.lane[u]
    BY <1>7, <1>2
  <2>2. d.lane[t] = line /\ b.lane[t] = rest
    BY <1>7, <1>2 DEF line
  <2>3. {u \in Tenants : b.lane[u] # <<>>} \cup now = {u \in Tenants : d.lane[u] # <<>>}
    <3>1. CASE line = <<>>
      BY <3>1, <2>1, <2>2, <1>6
    <3>2. CASE line # <<>>
      BY <3>2, <2>1, <2>2
    <3> QED
      BY <3>1, <3>2
  <2> QED
    BY <2>3, <1>2, <1>7 DEF LaneOrder
<1>9. Consistent(b, ToSet(s), now)
  <2>1. ToSet(s) \cap ToSet(rest) = {} /\ ToSet(s) \cap Waiters(d) \subseteq ToSet(d.lane[t])
        /\ ToSet(s) \cup ToSet(rest) = {} \cup ToSet(d.lane[t])
    BY <1>5 DEF line
  <2>2. \A r \in ToSet(rest) : TenantKey[r] = t
    BY <1>2, <1>5
  <2>3. d.cfg.lanes \/ rest = <<>>
    BY <1>2, <1>6
  <2> QED
    BY <2>1, <2>2, <2>3, <1>5, <1>7, <1>8, LaneChanged
<1>10. \A i \in 1..Len(s) : s[i] \in b.due \/ (i = Len(s) /\ Cost[s[i]] <= Room(b))
  <2>1. Room(b) = Room(d) /\ b.due = d.due
    BY <1>7 DEF Room, SameSettings, SameBook, SameAnswers
  <2> QED
    BY <2>1, <1>4, <1>5
<1>11. Consistent(f, {}, now) /\ SameLines(b, f) /\ Serves(b, f)
  <2>1. {} \cap ToSet(s) = {} /\ {} \cup ToSet(s) = ToSet(s)
    OBVIOUS
  <2> QED
    BY <2>1, <1>5, <1>9, <1>10, SettleLine DEF f
<1>12. Serves(d, f) /\ f.queue = d.queue
  <2>1. Serves(d, b)
    BY <1>7, ShrunkSelf DEF Serves, SameShadow, SameBook, SameAnswers, Calm
  <2> QED
    BY <2>1, <1>7, <1>11, ServesTwice DEF SameLines
<1> DEFINE g == RemoveEmptyLane(f, t)
<1>13. Consistent(g, {}, {}) /\ Serves(f, g) /\ g.queue = f.queue
  <2>1. now \subseteq {t}
    OBVIOUS
  <2> HIDE DEF now
  <2> QED
    BY <2>1, <1>11, RemoveEmptyLaneConsistent
<1> HIDE DEF g, e
<1>14. Serves(d, g)
  BY <1>12, <1>13, ServesTwice
<1>15. Consistent(e, {}, {}) /\ Serves(d, e) /\ e.queue = d.queue
  <2>1. CASE Room(d) <= 0
    BY <2>1, <1>1, ServesSelf
  <2>2. CASE ~(Room(d) <= 0)
    BY <2>2, <1>1, <1>12, <1>13, <1>14 DEF g
  <2> QED
    BY <2>1, <2>2
<1> QED
  BY <1>15 DEF e

(* dispatchLanes.                                                          *)
LEMMA DispatchLanesConsistent ==
    ASSUME NEW d, Consistent(d, {}, {})
    PROVE  LET e == DispatchLanes(d)
           IN  Consistent(e, {}, {}) /\ Serves(d, e) /\ e.queue = d.queue
<1> DEFINE e == DispatchLanes(d)
           s == d.lanes
           n == Len(s)
           Good(f) == Consistent(f, {}, {}) /\ Serves(d, f) /\ f.queue = d.queue
<1>1. s \in Seq(Tenants)
  BY DEF Consistent, Lines, LaneOrder
<1>2. PICK h : /\ h[0] = d
               /\ \A i \in 1..n : h[i] = Round("serve", 0, h[i - 1], s[i])
               /\ e = h[n]
  <2>1. Runs("serve", 0, d, s, e)
    BY <1>1, ServeRuns DEF DispatchLanes
  <2> QED
    BY <2>1 DEF Runs
<1>3. \A f, t : Round("serve", 0, f, t) = ServeLane(f, t)
  BY DEF Round
<1> HIDE DEF s
<1> DEFINE T == {i \in 0..n : Good(h[i])}
<1>4. 0 \in T
  BY <1>1, <1>2, ServesSelf
<1>5. ASSUME NEW i \in 1..n, i - 1 \in T PROVE i \in T
  <2> DEFINE f == h[i - 1]
             t == s[i]
             g == h[i]
  <2>1. Good(f) /\ g = ServeLane(f, t) /\ t \in Tenants
    BY <1>1, <1>2, <1>3, <1>5
  <2> HIDE DEF f, t, g
  <2>2. Consistent(g, {}, {}) /\ Serves(f, g) /\ g.queue = f.queue
    BY <2>1, ServeLaneConsistent
  <2>3. Good(g)
    BY <2>1, <2>2, ServesTwice
  <2> QED
    BY <2>3 DEF g
<1>6. n \in Nat
  BY <1>1
<1> HIDE DEF T, n, e
<1>7. \A i \in 0..n : i \in T
  BY <1>4, <1>5, <1>6, NumbersUpTo
<1>8. Good(e)
  BY <1>2, <1>6, <1>7 DEF T
<1> QED
  BY <1>8 DEF e

-----------------------------------------------------------------------------
(* Different places have different heads.                                  *)
LEMMA HeadsDiffer ==
    ASSUME NEW own \in [Requests -> Tenants], NEW q, WellFormed(q, own),
           NEW i \in DOMAIN q.order, NEW j \in DOMAIN q.order, HeadAt(q, i) = HeadAt(q, j)
    PROVE  i = j
<1>1. own[HeadAt(q, i)] = q.order[i] /\ own[HeadAt(q, j)] = q.order[j]
  BY HeadOf DEF WellFormed
<1> QED
  BY <1>1 DEF WellFormed, Ring, IsInjective

(* When a request came.                                                    *)
LEMMA ArrivalIn ==
    ASSUME NEW a \in Seq(Requests), IsInjective(a), NEW x \in ToSet(a)
    PROVE  /\ Arrival(x, a) \in DOMAIN a /\ Arrival(x, a) \in Nat /\ a[Arrival(x, a)] = x
           /\ \A y \in ToSet(a) : Earlier(a, x, y) <=> Arrival(x, a) <= Arrival(y, a)
<1>1. \A z \in ToSet(a) : Arrival(z, a) \in DOMAIN a /\ a[Arrival(z, a)] = z
  BY DEF Arrival, ToSet
<1>2. \A i, j \in DOMAIN a : a[i] = a[j] => i = j
  BY DEF IsInjective
<1>3. DOMAIN a \subseteq Nat
  OBVIOUS
<1>4. \A i \in DOMAIN a : a[i] = x => i = Arrival(x, a)
  BY <1>1, <1>2
<1>5. \A y \in ToSet(a), i \in DOMAIN a : a[i] = y => i = Arrival(y, a)
  BY <1>1, <1>2
<1>6. ASSUME NEW y \in ToSet(a)
      PROVE  Earlier(a, x, y) <=> Arrival(x, a) <= Arrival(y, a)
  BY <1>1, <1>4, <1>5 DEF Earlier
<1> QED
  BY <1>1, <1>3, <1>6

(* The reserved head that waits longest: there is one, and only one.       *)
LEMMA OldestIs ==
    ASSUME NEW own \in [Requests -> Tenants], NEW q, WellFormed(q, own), Reserved(q) # {},
           NEW a \in Seq(Requests), IsInjective(a), Members(q) \subseteq ToSet(a)
    PROVE  LET i == Oldest(q, a)
           IN  /\ i \in Reserved(q) /\ i \in DOMAIN q.order
               /\ \A j \in Reserved(q) : Earlier(a, HeadAt(q, i), HeadAt(q, j))
               /\ \A k \in Reserved(q) :
                     (\A j \in Reserved(q) : Earlier(a, HeadAt(q, k), HeadAt(q, j))) => k = i
<1> DEFINE when(j) == Arrival(HeadAt(q, j), a)
           U == {when(j) : j \in Reserved(q)}
           i == Oldest(q, a)
<1>1. \A j \in Reserved(q) : j \in DOMAIN q.order /\ HeadAt(q, j) \in ToSet(a)
  <2>1. \A j \in Reserved(q) : j \in DOMAIN q.order
    BY DEF Reserved
  <2>2. \A j \in Reserved(q) : HeadAt(q, j) \in Members(q)
    BY <2>1, HeadOf DEF WellFormed
  <2> QED
    BY <2>1, <2>2
<1>2. \A j, k \in Reserved(q) :
         /\ when(j) \in Nat /\ a[when(j)] = HeadAt(q, j)
         /\ Earlier(a, HeadAt(q, j), HeadAt(q, k)) <=> when(j) <= when(k)
  BY <1>1, ArrivalIn
<1> HIDE DEF when
<1>3. U \in SUBSET Nat /\ U # {}
  BY <1>2
<1>4. PICK x \in U : \A y \in U : x <= y
  BY <1>3, LeastNumber
<1>5. \E j \in Reserved(q) : \A k \in Reserved(q) : when(j) <= when(k)
  BY <1>4
<1>6. i \in Reserved(q) /\ \A k \in Reserved(q) : when(i) <= when(k)
  BY <1>5 DEF Oldest, when
<1> HIDE DEF i
<1>7. ASSUME NEW k \in Reserved(q), \A j \in Reserved(q) : Earlier(a, HeadAt(q, k), HeadAt(q, j))
      PROVE  k = i
  <2>1. when(k) <= when(i) /\ when(i) <= when(k)
    BY <1>2, <1>6, <1>7
  <2>2. when(k) = when(i)
    BY <2>1, <1>2, <1>6
  <2>3. HeadAt(q, k) = HeadAt(q, i)
    BY <2>2, <1>2, <1>6
  <2> QED
    BY <2>3, <1>1, <1>6, HeadsDiffer
<1> QED
  BY <1>1, <1>2, <1>6, <1>7 DEF i

(***************************************************************************)
(* No turn means that nobody who may be served fits.                       *)
(***************************************************************************)
Blocked(q, room, a) ==
    IF Reserved(q) = {} THEN \A i \in DOMAIN q.order : ~(Cost[HeadAt(q, i)] <= room)
    ELSE ~(Cost[HeadAt(q, Oldest(q, a))] <= room)

(* Nobody has a turn exactly if the queue is blocked.                      *)
LEMMA BlockedIs ==
    ASSUME NEW own \in [Requests -> Tenants], NEW q, WellFormed(q, own), NEW room,
           NEW a \in Seq(Requests), IsInjective(a), Members(q) \subseteq ToSet(a)
    PROVE  Turns(q, room, a) = {} <=> Blocked(q, room, a)
<1> DEFINE fits == {i \in DOMAIN q.order : Cost[HeadAt(q, i)] <= room}
<1>1. CASE Reserved(q) = {}
  <2> DEFINE U == {TurnOf(q, i) : i \in fits}
  <2>1. ASSUME fits # {} PROVE \E i \in fits : \A j \in fits : TurnOf(q, i) <= TurnOf(q, j)
    <3>1. U \in SUBSET Nat /\ U # {}
      <4>1. q.cursor \in Nat /\ q.order \in Seq(Tenants)
        BY DEF WellFormed, Shape
      <4>2. \A i \in DOMAIN q.order : TurnOf(q, i) \in Nat
        BY <4>1 DEF TurnOf
      <4> QED
        BY <4>2, <2>1
    <3>2. PICK x \in U : \A y \in U : x <= y
      <4> HIDE DEF U
      <4> QED
        BY <3>1, LeastNumber
    <3> QED
      BY <3>2
  <2>2. Turns(q, room, a) = {i \in fits : \A j \in fits : TurnOf(q, i) <= TurnOf(q, j)}
    BY <1>1 DEF Turns
  <2> QED
    BY <1>1, <2>1, <2>2 DEF Blocked
<1>2. CASE Reserved(q) # {}
  <2>1. Oldest(q, a) \in DOMAIN q.order
    BY <1>2, OldestIs
  <2>2. Turns(q, room, a) = {Oldest(q, a)} \cap fits
    BY <1>2 DEF Turns
  <2> QED
    BY <1>2, <2>1, <2>2 DEF Blocked
<1> QED
  BY <1>1, <1>2

(* It stays so with less room,                                             *)
LEMMA BlockedLess ==
    ASSUME NEW own \in [Requests -> Tenants], NEW q, WellFormed(q, own),
           NEW room \in Int, NEW less \in Int, less <= room,
           NEW a \in Seq(Requests), IsInjective(a), Members(q) \subseteq ToSet(a),
           Blocked(q, room, a)
    PROVE  Blocked(q, less, a)
<1>1. \A i \in DOMAIN q.order : Cost[HeadAt(q, i)] \in Nat
  BY HeadOf, CostPositive DEF WellFormed
<1>2. CASE Reserved(q) = {}
  BY <1>1, <1>2 DEF Blocked
<1>3. CASE Reserved(q) # {}
  <2>1. Oldest(q, a) \in DOMAIN q.order
    BY <1>3, OldestIs
  <2> DEFINE i == Oldest(q, a)
  <2> HIDE DEF i
  <2>2. Cost[HeadAt(q, i)] \in Nat /\ ~(Cost[HeadAt(q, i)] <= room)
    BY <2>1, <1>1, <1>3 DEF Blocked, i
  <2>3. ~(Cost[HeadAt(q, i)] <= less)
    BY <2>2
  <2> QED
    BY <2>3, <1>3 DEF Blocked, i
<1> QED
  BY <1>2, <1>3

(* when others are no longer among the arrivals,                           *)
LEMMA BlockedShrunk ==
    ASSUME NEW own \in [Requests -> Tenants], NEW q, WellFormed(q, own), NEW room,
           NEW a \in Seq(Requests), IsInjective(a), Members(q) \subseteq ToSet(a),
           NEW b \in Seq(Requests), IsInjective(b), Members(q) \subseteq ToSet(b),
           Shrunk(a, b), Blocked(q, room, a)
    PROVE  Blocked(q, room, b)
<1>1. CASE Reserved(q) = {}
  BY <1>1 DEF Blocked
<1>2. CASE Reserved(q) # {}
  <2> DEFINE i == Oldest(q, b)
  <2>1. i \in Reserved(q) /\ \A j \in Reserved(q) : Earlier(b, HeadAt(q, i), HeadAt(q, j))
    BY <1>2, OldestIs
  <2>2. \A j \in Reserved(q) : Earlier(a, HeadAt(q, i), HeadAt(q, j))
    BY <2>1 DEF Shrunk
  <2> HIDE DEF i
  <2>3. i = Oldest(q, a)
    BY <1>2, <2>1, <2>2, OldestIs
  <2> QED
    BY <1>2, <2>3 DEF Blocked, i
<1> QED
  BY <1>1, <1>2

-----------------------------------------------------------------------------
(* A request that joins is a head only in a bucket of its own.             *)
LEMMA JoinedHeads ==
    ASSUME NEW own \in [Requests -> Tenants], NEW q, WellFormed(q, own),
           NEW r \in Requests, r \notin Members(q)
    PROVE  LET p == Enqueue(q, r, own[r])
           IN  /\ DOMAIN q.order = 1..Len(q.order) /\ Len(q.order) \in Nat
               /\ DOMAIN q.order \subseteq DOMAIN p.order
               /\ \A i \in DOMAIN q.order : HeadAt(p, i) = HeadAt(q, i)
               /\ \A i \in DOMAIN p.order \ DOMAIN q.order :
                     /\ i = Len(q.order) + 1 /\ Len(p.order) = Len(q.order) + 1
                     /\ HeadAt(p, i) = r /\ p.order[i] = own[r] /\ p.bucket[own[r]] = <<r>>
               /\ p.skips = q.skips /\ p.cursor = q.cursor /\ q.skips[r] = 0
               /\ Reserved(p) = Reserved(q)
<1> DEFINE t == own[r]
           b == q.bucket[t]
           p == Enqueue(q, r, t)
<1>1. /\ t \in Tenants /\ Shape(q) /\ Ring(q) /\ Owned(q, own) /\ Heads(q)
      /\ q.bucket \in [Tenants -> Seq(Requests)] /\ q.order \in Seq(Tenants)
      /\ q.skips \in [Requests -> 0..MaxSkips]
  BY DEF WellFormed, Shape
<1>2. /\ p.bucket = [q.bucket EXCEPT ![t] = Append(b, r)]
      /\ p.order = IF b = <<>> THEN Append(q.order, t) ELSE q.order
      /\ p.skips = q.skips /\ p.cursor = q.cursor
  BY <1>1 DEF Enqueue, Shape
<1>3. q.skips[r] = 0
  <2>1. ~IsHead(q, r)
    <3>1. IsHead(q, r) => r \in Members(q)
      <4>1. \A u \in Tenants : q.bucket[u] # <<>> => Head(q.bucket[u]) \in ToSet(q.bucket[u])
        BY <1>1 DEF ToSet
      <4> QED
        BY <4>1 DEF IsHead, Members
    <3> QED
      BY <3>1
  <2>2. q.skips[r] \in Nat
    BY <1>1
  <2> QED
    BY <2>1, <2>2, <1>1 DEF Heads
<1>4. ASSUME NEW i \in DOMAIN q.order PROVE i \in DOMAIN p.order /\ HeadAt(p, i) = HeadAt(q, i)
  <2>1. q.order[i] \in Tenants /\ q.bucket[q.order[i]] # <<>> /\ q.bucket[q.order[i]] \in Seq(Requests)
    BY <1>1, HeadOf
  <2>2. i \in DOMAIN p.order /\ p.order[i] = q.order[i]
    BY <1>1, <1>2
  <2>3. CASE q.order[i] = t
    <3>1. Head(Append(b, r)) = Head(b)
      BY <2>1, <2>3
    <3> QED
      BY <2>2, <2>3, <3>1, <1>1, <1>2 DEF HeadAt
  <2>4. CASE q.order[i] # t
    BY <2>1, <2>2, <2>4, <1>1, <1>2 DEF HeadAt
  <2> QED
    BY <2>2, <2>3, <2>4
<1>5. ASSUME NEW i \in DOMAIN p.order \ DOMAIN q.order
      PROVE  /\ i = Len(q.order) + 1 /\ Len(p.order) = Len(q.order) + 1
             /\ HeadAt(p, i) = r /\ p.order[i] = t /\ p.bucket[t] = <<r>>
  <2>1. b = <<>> /\ p.order = Append(q.order, t)
    BY <1>2
  <2>2. i = Len(q.order) + 1 /\ p.order[i] = t /\ Len(p.order) = Len(q.order) + 1
    BY <2>1, <1>1
  <2>3. p.bucket[t] = <<r>>
    BY <2>1, <1>1, <1>2
  <2> QED
    BY <2>2, <2>3 DEF HeadAt
<1> HIDE DEF p
<1>6. Reserved(p) = Reserved(q)
  <2>1. ASSUME NEW i \in DOMAIN p.order, p.skips[HeadAt(p, i)] >= MaxSkips PROVE i \in DOMAIN q.order
    <3>1. SUFFICES ASSUME i \notin DOMAIN q.order PROVE FALSE
      OBVIOUS
    <3>2. HeadAt(p, i) = r
      BY <3>1, <1>5
    <3> QED
      BY <2>1, <3>2, <1>2, <1>3, MaxSkipsPositive
  <2> QED
    BY <2>1, <1>2, <1>4 DEF Reserved
<1>7. DOMAIN q.order = 1..Len(q.order) /\ Len(q.order) \in Nat
  BY <1>1
<1> QED
  BY <1>2, <1>3, <1>4, <1>5, <1>6, <1>7 DEF p

(* An arrival at the end changes nothing for those before it.              *)
LEMMA EarlierAppend ==
    ASSUME NEW a \in Seq(Requests), NEW r, NEW x, NEW y, Earlier(a, x, y)
    PROVE  Earlier(Append(a, r), x, y)
<1>1. PICK i, j \in DOMAIN a : a[i] = x /\ a[j] = y /\ i <= j
  BY DEF Earlier
<1> DEFINE b == Append(a, r)
<1>2. DOMAIN a \subseteq DOMAIN b /\ b[i] = x /\ b[j] = y
  BY <1>1
<1> QED
  BY <1>1, <1>2 DEF Earlier

(* and when somebody joins who does not fit, unless it is not a head.      *)
LEMMA BlockedJoined ==
    ASSUME NEW own \in [Requests -> Tenants], NEW q, WellFormed(q, own), NEW room,
           NEW a \in Seq(Requests), IsInjective(a), Members(q) \subseteq ToSet(a),
           NEW r \in Requests, r \notin Members(q), r \notin ToSet(a), Blocked(q, room, a),
           \/ ~(Cost[r] <= room)
           \/ Reserved(q) # {}
           \/ DOMAIN Enqueue(q, r, own[r]).order = DOMAIN q.order
    PROVE  Blocked(Enqueue(q, r, own[r]), room, Append(a, r))
<1> DEFINE p == Enqueue(q, r, own[r])
           b == Append(a, r)
<1>1. WellFormed(p, own) /\ Members(p) = Members(q) \cup {r}
  BY EnqueueWellFormed
<1>2. b \in Seq(Requests) /\ IsInjective(b) /\ ToSet(b) = ToSet(a) \cup {r}
  BY AppendElements
<1>3. /\ \A i \in DOMAIN q.order : HeadAt(p, i) = HeadAt(q, i)
      /\ \A i \in DOMAIN p.order \ DOMAIN q.order : HeadAt(p, i) = r
      /\ Reserved(p) = Reserved(q)
  BY JoinedHeads
<1>4. \/ ~(Cost[r] <= room)
      \/ Reserved(q) # {}
      \/ DOMAIN p.order = DOMAIN q.order
  OBVIOUS
<1> DEFINE i == Oldest(q, a)
           k == Oldest(p, b)
<1>5. \A x, y : Earlier(a, x, y) => Earlier(b, x, y)
  BY EarlierAppend
<1> HIDE DEF p, b
<1>6. ASSUME Reserved(q) = {} PROVE Blocked(p, room, b)
  <2>1. \A j \in DOMAIN q.order : ~(Cost[HeadAt(q, j)] <= room)
    BY <1>6 DEF Blocked
  <2>2. \A j \in DOMAIN p.order : ~(Cost[HeadAt(p, j)] <= room)
    BY <2>1, <1>3, <1>4, <1>6
  <2> QED
    BY <2>2, <1>3, <1>6 DEF Blocked
<1>7. ASSUME Reserved(q) # {} PROVE Blocked(p, room, b)
  <2>1. /\ i \in Reserved(q) /\ i \in DOMAIN q.order
        /\ \A j \in Reserved(q) : Earlier(a, HeadAt(q, i), HeadAt(q, j))
    BY <1>7, OldestIs
  <2>2. \A j \in Reserved(q) : j \in DOMAIN q.order
    BY DEF Reserved
  <2> HIDE DEF i
  <2>3. i \in Reserved(p) /\ \A j \in Reserved(p) : Earlier(b, HeadAt(p, i), HeadAt(p, j))
    BY <2>1, <2>2, <1>3, <1>5
  <2>4. Members(p) \subseteq ToSet(b) /\ Reserved(p) # {}
    BY <1>1, <1>2, <1>3, <1>7
  <2>5. i = k
    BY <2>3, <2>4, <1>1, <1>2, OldestIs
  <2> HIDE DEF k
  <2>6. ~(Cost[HeadAt(q, i)] <= room)
    BY <1>7 DEF Blocked, i
  <2>7. ~(Cost[HeadAt(p, k)] <= room)
    BY <2>1, <2>5, <2>6, <1>3
  <2> QED
    BY <2>4, <2>7 DEF Blocked, k
<1>8. Blocked(p, room, b)
  BY <1>6, <1>7
<1> QED
  BY <1>8 DEF p, b

-----------------------------------------------------------------------------
(* No turn for want of capacity, of somebody who waits or of one who fits. *)
Stuck(d) == Room(d) <= 0 \/ Turns(d.queue, Room(d), d.arrived) = {}
Idle(d) == Enforcing(d) => Stuck(d)

(* An empty queue has no turn to give.                                     *)
LEMMA NobodyNoTurn ==
    ASSUME NEW own \in [Requests -> Tenants], NEW q, WellFormed(q, own), Members(q) = {}
    PROVE  DOMAIN q.order = {} /\ \A room, a : Turns(q, room, a) = {}
<1>1. DOMAIN q.order = {}
  BY HeadOf DEF WellFormed
<1> QED
  BY <1>1, TurnsArePlaces

(* What the invariant says of the two queues.                              *)
LEMMA QueueFinite ==
    ASSUME NEW d, NEW left, NEW open, Consistent(d, left, open)
    PROVE  /\ IsFiniteSet(Members(d.queue)) /\ IsFiniteSet(Members(d.vqueue))
           /\ WellFormed(d.queue, TenantKey) /\ TenantKey \in [Requests -> Tenants]
           /\ d.arrived \in Seq(Requests) /\ IsInjective(d.arrived)
           /\ Members(d.queue) \subseteq ToSet(d.arrived)
           /\ Members(d.vqueue) \subseteq ToSet(d.arrived)
           /\ Members(d.queue) \subseteq Requests
           /\ Room(d) \in Int /\ d.limit \in Int /\ d.spent \in Nat /\ d.vcost \in Nat
<1>1. IsFiniteSet(ToSet(d.arrived)) /\ ToSet(d.arrived) \subseteq Requests
  BY ElementsFinite DEF Consistent, Times
<1>2. Members(d.queue) \subseteq ToSet(d.arrived) /\ Members(d.vqueue) \subseteq ToSet(d.arrived)
  BY DEF Consistent, Times, Waiters
<1>3. IsFiniteSet(Members(d.queue)) /\ IsFiniteSet(Members(d.vqueue))
  BY <1>1, <1>2, FS_Subset
<1>4. /\ WellFormed(d.queue, TenantKey) /\ TenantKey \in [Requests -> Tenants]
      /\ d.arrived \in Seq(Requests) /\ IsInjective(d.arrived)
  BY TenantsValid DEF Consistent, Lines, Times
<1>5. IsFiniteSet(ToSet(d.leases)) /\ ToSet(d.leases) \in SUBSET Requests
  BY ElementsFinite DEF Consistent, Book
<1>6. IsFiniteSet(Disposed(d, "active")) /\ Disposed(d, "active") \in SUBSET Requests
  <2>1. Disposed(d, "active") \subseteq ToSet(d.leases)
    BY DEF Consistent, Shadow, Disposed
  <2> QED
    BY <2>1, <1>5, FS_Subset
<1>7. d.spent \in Nat /\ d.vcost \in Nat
  BY <1>5, <1>6, CostNat DEF Consistent, Book, Shadow
<1>8. d.limit \in Int
  BY DEF Consistent, Settings
<1>9. Room(d) \in Int
  BY <1>7, <1>8 DEF Room
<1> QED
  BY <1>1, <1>2, <1>3, <1>4, <1>7, <1>8, <1>9

(* One round of dispatch.                                                  *)
LEMMA DispatchOneConsistent ==
    ASSUME NEW d, Consistent(d, {}, {}), NEW any
    PROVE  LET e == DispatchOne(d, any)
               i == CHOOSE k \in Turns(d.queue, Room(d), d.arrived) : TRUE
           IN  /\ Consistent(e, {}, {}) /\ Serves(d, e) /\ Room(e) <= Room(d)
               /\ Stuck(d) => e = d
               /\ ~Stuck(d) => /\ i \in Turns(d.queue, Room(d), d.arrived) /\ i \in DOMAIN d.queue.order
                               /\ e.queue = Taken(d.queue, i)
                               /\ HeadAt(d.queue, i) \in Members(d.queue)
                               /\ Members(e.queue) = Members(d.queue) \ {HeadAt(d.queue, i)}
<1> DEFINE e == DispatchOne(d, any)
           turns0 == Turns(d.queue, Room(d), d.arrived)
           i == CHOOSE k \in turns0 : TRUE
           r == HeadAt(d.queue, i)
           p == Taken(d.queue, i)
           b == [d EXCEPT !.queue = p]
<1>1. e = IF Stuck(d) THEN d ELSE Settle(b, r)
  BY DEF DispatchOne, Stuck
<1>2. CASE Stuck(d)
  <2>1. Room(d) \in Int
    BY QueueFinite
  <2>2. e = d
    BY <1>1, <1>2
  <2> HIDE DEF e
  <2> QED
    BY <2>1, <2>2, <1>2, ServesSelf DEF e
<1>3. CASE ~Stuck(d)
  <2>1. i \in turns0
    BY <1>3 DEF Stuck
  <2>2. i \in DOMAIN d.queue.order /\ Cost[r] <= Room(d)
    BY <2>1, TurnsArePlaces
  <2>3. /\ WellFormed(d.queue, TenantKey) /\ TenantKey \in [Requests -> Tenants] /\ Record(d)
        /\ Room(d) \in Int /\ d.limit \in Int /\ d.spent \in Nat
    BY QueueFinite DEF Consistent
  <2>4. r \in Members(d.queue) /\ r \in Requests
    BY <2>2, <2>3, HeadOf DEF WellFormed
  <2>5. WellFormed(p, TenantKey) /\ Members(p) = Members(d.queue) \ {r}
    BY <2>2, <2>3, TakenWellFormed
  <2> HIDE DEF i, r, p, turns0
  <2>6. /\ Record(b) /\ b.queue = p /\ b.lane = d.lane /\ b.lanes = d.lanes /\ b.recent = d.recent
    BY <2>3 DEF Record, Names
  <2>7. SameSettings(d, b) /\ SameBook(d, b)
    BY <2>3 DEF Record, Names, SameSettings, SameBook
  <2>8. SameShadow(d, b) /\ SameAnswers(d, b)
    BY <2>3 DEF Record, Names, SameShadow, SameAnswers
  <2> HIDE DEF b
  <2>9. Lines(b, {})
    <3>1. b.cfg = d.cfg
      BY <2>7 DEF SameSettings
    <3> QED
      BY <3>1, <2>5, <2>6, ZenonT(60) DEF Consistent, Lines, LaneOf, LaneOrder
  <2>10. LaneWaiters(b) = LaneWaiters(d) /\ Members(b.queue) = Members(d.queue) \ {r}
    BY <2>5, <2>6 DEF LaneWaiters
  <2>11. Members(d.queue) \cap LaneWaiters(d) = {}
    BY DEF Consistent, Answers
  <2>12. Waiters(b) \cup {r} = Waiters(d) \cup {} /\ {r} \cap Waiters(b) = {}
         /\ Members(b.queue) \cap LaneWaiters(b) = {}
    BY <2>4, <2>10, <2>11 DEF Waiters
  <2>13. Settings(b) /\ b.leases = d.leases /\ b.spent = d.spent /\ b.loaded \in BOOLEAN
    BY <2>7, SamePartsKept DEF Consistent, Book, SameBook
  <2>14. Consistent(b, {r}, {})
    BY <2>6, <2>8, <2>9, <2>12, <2>13, LinesMoved
  <2> DEFINE g == Settle(b, r)
  <2>15. r \in {r}
    OBVIOUS
  <2>16. /\ Consistent(g, {r} \ {r}, {}) /\ SameSettings(b, g) /\ SameLines(b, g)
         /\ g.vqueue = b.vqueue /\ g.vcost = b.vcost
         /\ r \in b.due => SameBook(b, g)
         /\ r \notin b.due => /\ ToSet(g.leases) = ToSet(b.leases) \cup {r}
                              /\ g.spent = b.spent + Cost[r] /\ r \notin ToSet(b.leases)
         /\ g.due = b.due \ {r} /\ g.arrived = Without(b.arrived, r)
         /\ g.phase[r] # "waiting" /\ Calm(b, g)
    BY <2>14, <2>15, SettleConsistent
  <2> HIDE DEF g
  <2>17. {r} \ {r} = {}
    OBVIOUS
  <2>18. Shrunk(b.arrived, g.arrived)
    BY <2>14, <2>16, ShrunkWithout DEF Consistent, Times
  <2>19. r \notin b.due => g.spent <= g.limit
    <3>1. g.limit = d.limit /\ b.spent = d.spent
      BY <2>7, <2>16 DEF SameSettings, SameBook
    <3>2. Cost[r] \in Int /\ Cost[r] <= d.limit - d.spent
      BY <2>2, <2>4, CostPositive DEF Room
    <3> QED
      BY <3>1, <3>2, <2>3, <2>16
  <2>20. Room(g) <= Room(d)
    <3>1. g.limit = d.limit /\ b.spent = d.spent
      BY <2>7, <2>16 DEF SameSettings, SameBook
    <3>2. Cost[r] \in Nat
      BY <2>4, CostPositive
    <3>3. g.spent = d.spent \/ g.spent = d.spent + Cost[r]
      BY <2>16, <3>1 DEF SameBook
    <3> QED
      BY <3>1, <3>2, <3>3, <2>3 DEF Room
  <2>21. Serves(b, g)
    BY <2>16, <2>18, <2>19 DEF Serves, SameBook
  <2>22. Serves(d, b)
    BY <2>7, <2>8, ShrunkSelf DEF Serves, SameShadow, SameBook, SameAnswers, Calm
  <2>23. Serves(d, g)
    BY <2>21, <2>22, ServesTwice
  <2>24. g.queue = p
    BY <2>6, <2>16 DEF SameLines
  <2>25. e = g
    BY <1>1, <1>3 DEF g
  <2> HIDE DEF e
  <2>26. /\ Consistent(e, {}, {}) /\ Serves(d, e) /\ Room(e) <= Room(d) /\ e.queue = p /\ Members(e.queue) = Members(d.queue) \ {r}
    BY <2>5, <2>16, <2>17, <2>20, <2>23, <2>24, <2>25
  <2> QED
    BY <1>3, <2>1, <2>2, <2>4, <2>26 DEF e, i, r, p, turns0
<1> QED
  BY <1>2, <1>3

(* dispatch goes on until nobody has a turn.                               *)
DispatchedAll(d) == FoldLeft(DispatchOne, d, SetToSeq(Members(d.queue)))

(* The whole loop of dispatch, until nobody has a turn that fits.          *)
LEMMA DispatchedAllConsistent ==
    ASSUME NEW d, Consistent(d, {}, {})
    PROVE  LET e == DispatchedAll(d)
           IN  /\ Consistent(e, {}, {}) /\ Serves(d, e) /\ Stuck(e)
               /\ Stuck(d) => e = d
<1> DEFINE e == DispatchedAll(d)
           s == SetToSeq(Members(d.queue))
           n == Len(s)
           Count(f) == Cardinality(Members(f.queue))
           Good(f, i) == /\ Consistent(f, {}, {}) /\ Serves(d, f)
                         /\ Stuck(d) => f = d
                         /\ Stuck(f) \/ Count(f) = n - i
<1>1. IsFiniteSet(Members(d.queue)) /\ Members(d.queue) \subseteq Requests
  BY QueueFinite
<1>2. s \in Seq(Members(d.queue)) /\ n = Cardinality(Members(d.queue))
  BY <1>1, SeqOfSet
<1>3. Runs("dispatch", 0, d, s, e)
  BY <1>2, DispatchRuns DEF DispatchedAll
<1>4. PICK h : /\ h[0] = d
               /\ \A i \in 1..n : h[i] = Round("dispatch", 0, h[i - 1], s[i])
               /\ e = h[n]
  BY <1>3 DEF Runs
<1>5. \A f, x : Round("dispatch", 0, f, x) = DispatchOne(f, x)
  BY DEF Round
<1>6. n \in Nat
  BY <1>2
<1> DEFINE T == {i \in 0..n : Good(h[i], i)}
<1> HIDE DEF e, s, n
<1>7. Good(h[0], 0)
  <2>1. Count(d) = n - 0
    BY <1>2, <1>6
  <2> QED
    BY <2>1, <1>4, ServesSelf
<1> HIDE DEF Good
<1>8. 0 \in T
  BY <1>6, <1>7
<1>9. ASSUME NEW i \in 1..n, i - 1 \in T PROVE i \in T
  <2> DEFINE f == h[i - 1]
             x == s[i]
             g == h[i]
  <2>1. Good(f, i - 1) /\ g = DispatchOne(f, x)
    BY <1>4, <1>5, <1>9
  <2> HIDE DEF f, x, g
  <2>2. Consistent(f, {}, {}) /\ Serves(d, f) /\ (Stuck(d) => f = d) /\ (Stuck(f) \/ Count(f) = n - (i - 1))
    BY <2>1 DEF Good
  <2> DEFINE k == CHOOSE k \in Turns(f.queue, Room(f), f.arrived) : TRUE
             r == HeadAt(f.queue, k)
  <2>3. /\ Consistent(g, {}, {}) /\ Serves(f, g)
        /\ Stuck(f) => g = f
        /\ ~Stuck(f) => /\ k \in Turns(f.queue, Room(f), f.arrived) /\ k \in DOMAIN f.queue.order
                        /\ g.queue = Taken(f.queue, k)
                        /\ r \in Members(f.queue)
                        /\ Members(g.queue) = Members(f.queue) \ {r}
    BY <2>1, <2>2, DispatchOneConsistent
  <2> HIDE DEF k, r
  <2>4. CASE Stuck(f)
    <3>1. g = f
      BY <2>3, <2>4
    <3>2. Good(g, i)
      BY <3>1, <2>2, <2>4 DEF Good
    <3> QED
      BY <3>2 DEF g
  <2>5. CASE ~Stuck(f)
    <3>1. IsFiniteSet(Members(f.queue))
      BY <2>2, QueueFinite
    <3>2. Count(g) = Count(f) - 1
      BY <3>1, <2>3, <2>5, FS_RemoveElement
    <3>3. Count(g) = n - i
      BY <3>2, <2>2, <2>5, <1>6
    <3>4. ~Stuck(d)
      BY <2>2, <2>5
    <3>5. Serves(d, g)
      BY <2>2, <2>3, ServesTwice
    <3>6. Good(g, i)
      BY <3>3, <3>4, <3>5, <2>3 DEF Good
    <3> QED
      BY <3>6 DEF g
  <2> QED
    BY <2>4, <2>5
<1> HIDE DEF T
<1>10. \A i \in 0..n : i \in T
  BY <1>6, <1>8, <1>9, NumbersUpTo
<1>11. Good(e, n)
  BY <1>4, <1>6, <1>10 DEF T
<1>12. Consistent(e, {}, {}) /\ Serves(d, e) /\ (Stuck(d) => e = d) /\ (Stuck(e) \/ Count(e) = 0)
  BY <1>6, <1>11 DEF Good
<1>13. Stuck(e)
  <2>1. SUFFICES ASSUME Count(e) = 0 PROVE Stuck(e)
    BY <1>12
  <2>2. Members(e.queue) = {}
    BY <2>1, <1>12, QueueFinite, FS_EmptySet
  <2>3. Turns(e.queue, Room(e), e.arrived) = {}
    BY <2>2, <1>12, QueueFinite, NobodyNoTurn
  <2> QED
    BY <2>3 DEF Stuck
<1> QED
  BY <1>12, <1>13 DEF e

(* dispatch.                                                               *)
LEMMA DispatchConsistent ==
    ASSUME NEW d, Consistent(d, {}, {})
    PROVE  LET e == Dispatch(d)
           IN  /\ Consistent(e, {}, {}) /\ Serves(d, e) /\ Idle(e)
               /\ Stuck(d) /\ Members(d.queue) # {} => e = d
               /\ Members(DispatchedAll(d).queue) # {} /\ Enforcing(d) => e = DispatchedAll(d)
<1> DEFINE e == Dispatch(d)
           f == DispatchedAll(d)
           g == DispatchLanes(f)
<1>1. e = IF ~Enforcing(d) THEN d ELSE IF Members(f.queue) = {} THEN g ELSE f
  BY DEF Dispatch, DispatchedAll
<1>2. Consistent(f, {}, {}) /\ Serves(d, f) /\ Stuck(f) /\ (Stuck(d) => f = d)
  BY DispatchedAllConsistent
<1> HIDE DEF f
<1>3. Consistent(g, {}, {}) /\ Serves(f, g) /\ g.queue = f.queue
  BY <1>2, DispatchLanesConsistent
<1> HIDE DEF e, g
<1>4. Serves(d, g)
  BY <1>2, <1>3, ServesTwice
<1>5. Members(f.queue) = {} => Stuck(g)
  BY <1>3, QueueFinite, NobodyNoTurn DEF Stuck
<1>6. CASE ~Enforcing(d)
  BY <1>1, <1>6, ServesSelf DEF Idle, e
<1>7. CASE Enforcing(d) /\ Members(f.queue) = {}
  BY <1>1, <1>2, <1>3, <1>4, <1>5, <1>7 DEF Idle, e, f
<1>8. CASE Enforcing(d) /\ Members(f.queue) # {}
  BY <1>1, <1>2, <1>8 DEF Idle, e, f
<1> QED
  BY <1>6, <1>7, <1>8

-----------------------------------------------------------------------------
(* Nobody gets a turn by others leaving the arrivals, or by less room.     *)
LEMMA TurnsStayNone ==
    ASSUME NEW own \in [Requests -> Tenants], NEW q, WellFormed(q, own),
           NEW a \in Seq(Requests), IsInjective(a), Members(q) \subseteq ToSet(a),
           NEW b \in Seq(Requests), IsInjective(b), Members(q) \subseteq ToSet(b), Shrunk(a, b),
           NEW room \in Int, NEW less \in Int, less <= room, Turns(q, room, a) = {}
    PROVE  Turns(q, less, b) = {}
<1>1. Blocked(q, room, a)
  BY BlockedIs
<1>2. Blocked(q, less, a)
  BY <1>1, BlockedLess
<1>3. Blocked(q, less, b)
  BY <1>2, BlockedShrunk
<1> QED
  BY <1>3, BlockedIs

(* A queue in which nobody has a turn stays so with less room and fewer    *)
(* arrivals.                                                               *)
LEMMA StuckStays ==
    ASSUME NEW d, NEW left, NEW open, Consistent(d, left, open),
           NEW e, NEW gone, NEW now, Consistent(e, gone, now),
           e.queue = d.queue, Room(e) <= Room(d), Shrunk(d.arrived, e.arrived), Stuck(d)
    PROVE  Stuck(e)
<1>1. /\ WellFormed(d.queue, TenantKey) /\ TenantKey \in [Requests -> Tenants]
      /\ d.arrived \in Seq(Requests) /\ IsInjective(d.arrived)
      /\ Members(d.queue) \subseteq ToSet(d.arrived) /\ Room(d) \in Int
  BY QueueFinite
<1>2. /\ e.arrived \in Seq(Requests) /\ IsInjective(e.arrived)
      /\ Members(e.queue) \subseteq ToSet(e.arrived) /\ Room(e) \in Int
  BY QueueFinite
<1>3. CASE Room(d) <= 0
  BY <1>1, <1>2, <1>3 DEF Stuck
<1>4. CASE Turns(d.queue, Room(d), d.arrived) = {}
  <2>1. Turns(e.queue, Room(e), e.arrived) = {}
    BY <1>1, <1>2, <1>4, TurnsStayNone
  <2> QED
    BY <2>1 DEF Stuck
<1> QED
  BY <1>3, <1>4 DEF Stuck

(* The same of the virtual queue.                                          *)
VirtualRoom(d) == d.limit - d.vcost
VirtualStuck(d) == VirtualRoom(d) <= 0 \/ Turns(d.vqueue, VirtualRoom(d), d.arrived) = {}

(* What the invariant says of the virtual queue.                           *)
LEMMA VirtualFacts ==
    ASSUME NEW d, NEW left, NEW open, Consistent(d, left, open)
    PROVE  /\ VirtualRoom(d) \in Int
           /\ \E own \in [Requests -> Tenants] : WellFormed(d.vqueue, own)
           /\ d.arrived \in Seq(Requests) /\ IsInjective(d.arrived)
           /\ Members(d.vqueue) \subseteq ToSet(d.arrived)
<1>1. VirtualRoom(d) \in Int
  BY QueueFinite DEF VirtualRoom
<1> QED
  BY <1>1, QueueFinite DEF Consistent, Shadow

(* The same of the virtual queue.                                          *)
LEMMA VirtualStuckStays ==
    ASSUME NEW d, NEW left, NEW open, Consistent(d, left, open),
           NEW e, NEW gone, NEW now, Consistent(e, gone, now),
           e.vqueue = d.vqueue, VirtualRoom(e) <= VirtualRoom(d), Shrunk(d.arrived, e.arrived),
           VirtualStuck(d)
    PROVE  VirtualStuck(e)
<1>1. PICK own \in [Requests -> Tenants] : WellFormed(d.vqueue, own)
  BY VirtualFacts
<1>2. /\ d.arrived \in Seq(Requests) /\ IsInjective(d.arrived)
      /\ Members(d.vqueue) \subseteq ToSet(d.arrived) /\ VirtualRoom(d) \in Int
  BY VirtualFacts
<1>3. /\ e.arrived \in Seq(Requests) /\ IsInjective(e.arrived)
      /\ Members(e.vqueue) \subseteq ToSet(e.arrived) /\ VirtualRoom(e) \in Int
  BY VirtualFacts
<1>4. CASE VirtualRoom(d) <= 0
  BY <1>2, <1>3, <1>4 DEF VirtualStuck
<1>5. CASE Turns(d.vqueue, VirtualRoom(d), d.arrived) = {}
  <2>1. Turns(e.vqueue, VirtualRoom(e), e.arrived) = {}
    BY <1>1, <1>2, <1>3, <1>5, TurnsStayNone
  <2> QED
    BY <2>1 DEF VirtualStuck
<1> QED
  BY <1>4, <1>5 DEF VirtualStuck

-----------------------------------------------------------------------------
(* The disposition of a lease changes, and with it the virtual queue and   *)
(* cost.                                                                   *)
CostIf(p, r) == IF p THEN Cost[r] ELSE 0

(* The virtual account after the disposition of r changes from one to      *)
(* another.                                                                *)
LEMMA DispositionChanged ==
    ASSUME NEW d, Shadow(d), NEW r \in ToSet(d.leases), d.leases \in Seq(Requests),
           NEW x \in Dispositions, NEW own \in [Requests -> Tenants], NEW e,
           e.disp = [d.disp EXCEPT ![r] = x], e.leases = d.leases, WellFormed(e.vqueue, own),
           \A s \in Requests : s \in Members(e.vqueue) <=>
                                  IF s = r THEN x = "queued" ELSE s \in Members(d.vqueue),
           Members(e.vqueue) \subseteq Requests,
           e.vcost = d.vcost - CostIf(d.disp[r] = "active", r) + CostIf(x = "active", r)
    PROVE  Shadow(e)
<1>1. IsFiniteSet(ToSet(d.leases)) /\ ToSet(d.leases) \in SUBSET Requests /\ r \in Requests
  BY ElementsFinite
<1>2. /\ e.disp \in [Requests -> Dispositions] /\ e.disp[r] = x
      /\ \A s \in Requests : s # r => e.disp[s] = d.disp[s]
      /\ d.disp \in [Requests -> Dispositions]
  BY <1>1 DEF Shadow
<1>3. Members(e.vqueue) = Disposed(e, "queued")
  <2>1. \A s \in Requests : s \in Members(d.vqueue) <=> d.disp[s] = "queued"
    BY DEF Shadow, Disposed
  <2>2. \A s \in Requests : s \in Members(e.vqueue) <=> e.disp[s] = "queued"
    BY <2>1, <1>2
  <2> QED
    BY <2>2 DEF Disposed
<1>4. e.vcost = TotalCost(Disposed(e, "active"))
  <2> DEFINE A == Disposed(d, "active")
             B == A \ {r}
             C == Disposed(e, "active")
  <2>1. A \in SUBSET Requests /\ IsFiniteSet(A) /\ d.vcost = TotalCost(A)
    <3>1. A \subseteq ToSet(d.leases)
      BY DEF Shadow, Disposed
    <3> QED
      BY <3>1, <1>1, FS_Subset DEF Shadow
  <2>2. r \in A <=> d.disp[r] = "active"
    BY <1>1 DEF Disposed
  <2>3. C = IF x = "active" THEN B \cup {r} ELSE B
    BY <1>1, <1>2 DEF Disposed
  <2> HIDE DEF A, C
  <2>4. B \in SUBSET Requests /\ IsFiniteSet(B) /\ r \notin B
    BY <2>1, FS_Subset
  <2>5. TotalCost(B) = d.vcost - CostIf(d.disp[r] = "active", r) /\ TotalCost(B) \in Nat
    <3>1. CASE r \in A
      BY <3>1, <2>1, <2>2, CostWithout DEF CostIf
    <3>2. CASE r \notin A
      <4>1. B = A
        BY <3>2
      <4>2. TotalCost(A) \in Nat
        BY <2>1, CostNat
      <4> HIDE DEF B
      <4> QED
        BY <3>2, <4>1, <4>2, <2>1, <2>2 DEF CostIf
    <3> QED
      BY <3>1, <3>2
  <2> HIDE DEF B
  <2>6. TotalCost(C) = TotalCost(B) + CostIf(x = "active", r)
    <3>1. CASE x = "active"
      BY <3>1, <2>3, <2>4, <1>1, CostWith DEF CostIf
    <3>2. CASE x # "active"
      BY <3>2, <2>3, <2>5 DEF CostIf
    <3> QED
      BY <3>1, <3>2
  <2> QED
    BY <2>5, <2>6 DEF C
<1>5. \A s \in Requests : e.disp[s] # "none" => s \in ToSet(e.leases)
  BY <1>2 DEF Shadow
<1> QED
  BY <1>2, <1>3, <1>4, <1>5 DEF Shadow

-----------------------------------------------------------------------------
(* What the virtual account does to the rest: nothing, save that arrivals  *)
(* go.                                                                     *)
Promotes(d, e) ==
    /\ SameSettings(d, e) /\ SameLines(d, e) /\ SameBook(d, e)
    /\ Shrunk(d.arrived, e.arrived) /\ e.phase = d.phase /\ e.due = d.due

(* The same of the virtual account, which may do nothing,                  *)
LEMMA PromotesSelf == \A d : Promotes(d, d)
  BY ShrunkSelf DEF Promotes, SameSettings, SameLines, SameBook

(* or promote twice.                                                       *)
LEMMA PromotesTwice ==
    ASSUME NEW d, NEW e, NEW f, Promotes(d, e), Promotes(e, f) PROVE Promotes(d, f)
<1>1. Shrunk(d.arrived, f.arrived)
  BY ShrunkTwice DEF Promotes
<1> QED
  BY <1>1 DEF Promotes, SameSettings, SameLines, SameBook

(* One round of dispatchVirtual.                                           *)
LEMMA DispatchVirtualOneConsistent ==
    ASSUME NEW d, NEW left, Consistent(d, left, {}), NEW any
    PROVE  LET e == DispatchVirtualOne(d, any)
           IN  /\ Consistent(e, left, {}) /\ Promotes(d, e)
               /\ VirtualStuck(d) => e = d
               /\ ~VirtualStuck(d) => \E r \in Members(d.vqueue) : Members(e.vqueue) = Members(d.vqueue) \ {r}
<1> DEFINE e == DispatchVirtualOne(d, any)
           turns0 == Turns(d.vqueue, VirtualRoom(d), d.arrived)
           i == CHOOSE k \in turns0 : TRUE
           r == HeadAt(d.vqueue, i)
           p == Taken(d.vqueue, i)
           g == [d EXCEPT !.vqueue = p, !.arrived = Without(d.arrived, r),
                          !.disp[r] = "active", !.vcost = @ + Cost[r]]
<1>1. e = IF VirtualStuck(d) THEN d ELSE g
  BY DEF DispatchVirtualOne, VirtualStuck, VirtualRoom
<1>2. CASE VirtualStuck(d)
  BY <1>1, <1>2, PromotesSelf
<1>3. CASE ~VirtualStuck(d)
  <2>1. i \in turns0
    BY <1>3 DEF VirtualStuck
  <2>2. i \in DOMAIN d.vqueue.order
    BY <2>1, TurnsArePlaces
  <2>3. PICK own \in [Requests -> Tenants] : WellFormed(d.vqueue, own)
    BY VirtualFacts
  <2>4. r \in Members(d.vqueue) /\ r \in Requests
    BY <2>2, <2>3, HeadOf DEF WellFormed
  <2>5. WellFormed(p, own) /\ Members(p) = Members(d.vqueue) \ {r}
    BY <2>2, <2>3, TakenWellFormed
  <2>6. Record(d) /\ Shadow(d) /\ d.leases \in Seq(Requests) /\ d.disp \in [Requests -> Dispositions]
    BY DEF Consistent, Book, Shadow
  <2> HIDE DEF i, r, p, turns0
  <2>7. /\ Record(g) /\ g.vqueue = p /\ g.arrived = Without(d.arrived, r)
        /\ g.disp = [d.disp EXCEPT ![r] = "active"] /\ g.vcost = d.vcost + Cost[r]
        /\ g.phase = d.phase /\ g.due = d.due
    BY <2>6 DEF Record, Names
  <2>8. SameSettings(d, g)
    BY <2>6 DEF Record, Names, SameSettings
  <2>9. SameLines(d, g) /\ SameBook(d, g)
    BY <2>6 DEF Record, Names, SameLines, SameBook
  <2> HIDE DEF g
  <2>10. r \in ToSet(d.leases) /\ d.disp[r] = "queued" /\ r \notin Waiters(d) \cup left
    <3>1. d.disp[r] = "queued"
      BY <2>4, <2>6 DEF Shadow, Disposed
    <3> QED
      BY <3>1, <2>4, <2>6, VirtualAreHeld DEF Shadow, Consistent
  <2>11. Shadow(g)
    <3>1. Members(d.vqueue) \subseteq Requests /\ d.vcost \in Nat
      BY QueueFinite DEF Consistent, Shadow, Disposed
    <3>2. \A s \in Requests : s \in Members(g.vqueue) <=>
                                 IF s = r THEN "active" = "queued" ELSE s \in Members(d.vqueue)
      BY <2>5, <2>7
    <3>3. Cost[r] \in Nat
      BY <2>4, CostPositive
    <3>4. g.vcost = d.vcost - CostIf(d.disp[r] = "active", r) + CostIf("active" = "active", r)
      BY <3>1, <3>3, <2>7, <2>10 DEF CostIf
    <3>5. Members(g.vqueue) \subseteq Requests /\ g.leases = d.leases /\ "active" \in Dispositions
          /\ WellFormed(g.vqueue, own)
      BY <3>1, <2>5, <2>7, <2>9 DEF SameBook, Dispositions
    <3> QED
      BY <3>2, <3>4, <3>5, <2>6, <2>7, <2>10, DispositionChanged
  <2>12. /\ g.arrived \in Seq(Requests) /\ IsInjective(g.arrived)
         /\ ToSet(g.arrived) = ToSet(d.arrived) \ {r}
         /\ Shrunk(d.arrived, g.arrived)
    BY <2>7, RemoveFirstElements, ShrunkWithout DEF Consistent, Times, Without
  <2>13. ToSet(g.arrived) = Waiters(d) \cup left \cup Members(g.vqueue)
    BY <2>5, <2>7, <2>10, <2>12 DEF Consistent, Times
  <2>14. Consistent(g, left, {})
    BY <2>7, <2>8, <2>9, <2>11, <2>12, <2>13, ShadowMoved
  <2>15. Promotes(d, g)
    BY <2>7, <2>8, <2>9, <2>12 DEF Promotes
  <2>16. e = g
    BY <1>1, <1>3
  <2> HIDE DEF e
  <2>17. /\ Consistent(e, left, {}) /\ Promotes(d, e)
         /\ \E x \in Members(d.vqueue) : Members(e.vqueue) = Members(d.vqueue) \ {x}
    BY <2>4, <2>5, <2>7, <2>14, <2>15, <2>16
  <2> QED
    BY <1>3, <2>17 DEF e
<1> QED
  BY <1>2, <1>3

(* dispatchVirtual.                                                        *)
LEMMA DispatchVirtualConsistent ==
    ASSUME NEW d, NEW left, Consistent(d, left, {})
    PROVE  LET e == DispatchVirtual(d)
           IN  Consistent(e, left, {}) /\ Promotes(d, e) /\ VirtualStuck(e)
<1> DEFINE e == DispatchVirtual(d)
           s == SetToSeq(Members(d.vqueue))
           n == Len(s)
           Count(f) == Cardinality(Members(f.vqueue))
           Good(f, i) == /\ Consistent(f, left, {}) /\ Promotes(d, f)
                         /\ VirtualStuck(f) \/ Count(f) = n - i
<1>1. IsFiniteSet(Members(d.vqueue))
  BY QueueFinite
<1>2. s \in Seq(Members(d.vqueue)) /\ n = Cardinality(Members(d.vqueue))
  BY <1>1, SeqOfSet
<1>3. Runs("virtual", 0, d, s, e)
  BY <1>2, VirtualRuns DEF DispatchVirtual
<1>4. PICK h : /\ h[0] = d
               /\ \A i \in 1..n : h[i] = Round("virtual", 0, h[i - 1], s[i])
               /\ e = h[n]
  BY <1>3 DEF Runs
<1>5. \A f, x : Round("virtual", 0, f, x) = DispatchVirtualOne(f, x)
  BY DEF Round
<1>6. n \in Nat
  BY <1>2
<1> DEFINE T == {i \in 0..n : Good(h[i], i)}
<1> HIDE DEF e, s, n
<1>7. Good(h[0], 0)
  <2>1. Count(d) = n - 0
    BY <1>2, <1>6
  <2> QED
    BY <2>1, <1>4, PromotesSelf
<1> HIDE DEF Good
<1>8. 0 \in T
  BY <1>6, <1>7
<1>9. ASSUME NEW i \in 1..n, i - 1 \in T PROVE i \in T
  <2> DEFINE f == h[i - 1]
             x == s[i]
             g == h[i]
  <2>1. Good(f, i - 1) /\ g = DispatchVirtualOne(f, x)
    BY <1>4, <1>5, <1>9
  <2> HIDE DEF f, x, g
  <2>2. Consistent(f, left, {}) /\ Promotes(d, f) /\ (VirtualStuck(f) \/ Count(f) = n - (i - 1))
    BY <2>1 DEF Good
  <2>3. /\ Consistent(g, left, {}) /\ Promotes(f, g)
        /\ VirtualStuck(f) => g = f
        /\ ~VirtualStuck(f) => \E r \in Members(f.vqueue) : Members(g.vqueue) = Members(f.vqueue) \ {r}
    BY <2>1, <2>2, DispatchVirtualOneConsistent
  <2>4. Promotes(d, g)
    BY <2>2, <2>3, PromotesTwice
  <2>5. CASE VirtualStuck(f)
    <3>1. Good(g, i)
      BY <2>2, <2>3, <2>5 DEF Good
    <3> QED
      BY <3>1 DEF g
  <2>6. CASE ~VirtualStuck(f)
    <3>1. IsFiniteSet(Members(f.vqueue))
      BY <2>2, QueueFinite
    <3>2. Count(g) = Count(f) - 1
      BY <3>1, <2>3, <2>6, FS_RemoveElement
    <3>3. Count(g) = n - i
      BY <3>2, <2>2, <2>6, <1>6
    <3>4. Good(g, i)
      BY <3>3, <2>3, <2>4 DEF Good
    <3> QED
      BY <3>4 DEF g
  <2> QED
    BY <2>5, <2>6
<1> HIDE DEF T
<1>10. \A i \in 0..n : i \in T
  BY <1>6, <1>8, <1>9, NumbersUpTo
<1>11. Good(e, n)
  BY <1>4, <1>6, <1>10 DEF T
<1>12. Consistent(e, left, {}) /\ Promotes(d, e) /\ (VirtualStuck(e) \/ Count(e) = 0)
  BY <1>6, <1>11 DEF Good
<1>13. VirtualStuck(e)
  <2>1. SUFFICES ASSUME Count(e) = 0 PROVE VirtualStuck(e)
    BY <1>12
  <2>2. Members(e.vqueue) = {}
    BY <2>1, <1>12, QueueFinite, FS_EmptySet
  <2>3. PICK own \in [Requests -> Tenants] : WellFormed(e.vqueue, own)
    BY <1>12, VirtualFacts
  <2>4. Turns(e.vqueue, VirtualRoom(e), e.arrived) = {}
    BY <2>2, <2>3, NobodyNoTurn
  <2> QED
    BY <2>4 DEF VirtualStuck
<1> QED
  BY <1>12, <1>13 DEF e

(* A lease is forgotten by the virtual account.                            *)
LEMMA ForgottenConsistent ==
    ASSUME NEW d, NEW left, Consistent(d, left, {}), NEW r \in ToSet(d.leases)
    PROVE  LET e == Forgotten(d, r)
           IN  Consistent(e, left, {}) /\ Promotes(d, e) /\ e.disp[r] = "none"
<1> DEFINE e == Forgotten(d, r)
           queued == d.disp[r] = "queued"
<1>1. /\ Record(d) /\ Shadow(d) /\ d.leases \in Seq(Requests) /\ d.disp \in [Requests -> Dispositions]
      /\ r \in Requests /\ r \notin Waiters(d) \cup left
      /\ d.vcost \in Nat /\ Cost[r] \in Nat
  <2>1. Record(d) /\ Shadow(d) /\ d.leases \in Seq(Requests) /\ d.disp \in [Requests -> Dispositions]
    BY DEF Consistent, Book, Shadow
  <2>2. r \in Requests
    BY <2>1, ElementsFinite
  <2> QED
    BY <2>1, <2>2, VirtualAreHeld, QueueFinite, CostPositive DEF Consistent
<1>2. /\ Record(e) /\ e.disp = [d.disp EXCEPT ![r] = "none"]
      /\ e.vqueue = IF queued THEN Removed(d.vqueue, r) ELSE d.vqueue
      /\ e.arrived = IF queued THEN Without(d.arrived, r) ELSE d.arrived
      /\ e.vcost = IF d.disp[r] = "active" THEN d.vcost - Cost[r] ELSE d.vcost
      /\ e.phase = d.phase /\ e.due = d.due
      /\ SameSettings(d, e) /\ SameLines(d, e) /\ SameBook(d, e)
  <2>1. CASE d.disp[r] = "active"
    <3>1. e = [[d EXCEPT !.vcost = @ - Cost[r]] EXCEPT !.disp[r] = "none"]
      BY <2>1 DEF Forgotten
    <3> QED
      BY <3>1, <2>1, <1>1, ZenonT(60) DEF Record, Names, SameSettings, SameLines, SameBook
  <2>2. CASE d.disp[r] = "queued"
    <3>1. e = [[d EXCEPT !.vqueue = Removed(d.vqueue, r), !.arrived = Without(@, r)]
                 EXCEPT !.disp[r] = "none"]
      BY <2>2 DEF Forgotten
    <3> QED
      BY <3>1, <2>2, <1>1, ZenonT(60) DEF Record, Names, SameSettings, SameLines, SameBook
  <2>3. CASE d.disp[r] \notin {"active", "queued"}
    <3>1. e = [d EXCEPT !.disp[r] = "none"]
      BY <2>3 DEF Forgotten
    <3> QED
      BY <3>1, <2>3, <1>1 DEF Record, Names, SameSettings, SameLines, SameBook
  <2> QED
    BY <2>1, <2>2, <2>3
<1> HIDE DEF e
<1>3. PICK own \in [Requests -> Tenants] : WellFormed(d.vqueue, own)
  BY VirtualFacts
<1>4. r \in Members(d.vqueue) <=> queued
  BY <1>1 DEF Shadow, Disposed
<1>5. WellFormed(e.vqueue, own) /\ Members(e.vqueue) = Members(d.vqueue) \ {r}
  <2>1. CASE queued
    BY <2>1, <1>1, <1>2, <1>3, <1>4, RemovedWellFormed
  <2>2. CASE ~queued
    BY <2>2, <1>2, <1>3, <1>4
  <2> QED
    BY <2>1, <2>2
<1>6. Shadow(e)
  <2>1. Members(e.vqueue) \subseteq Requests
    BY <1>1, <1>5 DEF Shadow, Disposed
  <2>2. \A s \in Requests : s \in Members(e.vqueue) <=>
                                 IF s = r THEN "none" = "queued" ELSE s \in Members(d.vqueue)
    BY <1>5
  <2>3. e.vcost = d.vcost - CostIf(d.disp[r] = "active", r) + CostIf("none" = "active", r)
    BY <1>1, <1>2 DEF CostIf
  <2>4. e.leases = d.leases /\ "none" \in Dispositions
    BY <1>2 DEF SameBook, Dispositions
  <2> QED
    BY <2>1, <2>2, <2>3, <2>4, <1>1, <1>2, <1>5, DispositionChanged
<1>7. /\ e.arrived \in Seq(Requests) /\ IsInjective(e.arrived)
      /\ ToSet(e.arrived) = Waiters(d) \cup left \cup Members(e.vqueue)
      /\ Shrunk(d.arrived, e.arrived)
  <2>1. /\ d.arrived \in Seq(Requests) /\ IsInjective(d.arrived)
        /\ ToSet(d.arrived) = Waiters(d) \cup left \cup Members(d.vqueue)
    BY DEF Consistent, Times
  <2>2. CASE queued
    <3>1. /\ e.arrived \in Seq(Requests) /\ IsInjective(e.arrived)
          /\ ToSet(e.arrived) = ToSet(d.arrived) \ {r}
          /\ Shrunk(d.arrived, e.arrived)
      BY <2>1, <2>2, <1>2, RemoveFirstElements, ShrunkWithout DEF Without
    <3> QED
      BY <3>1, <2>1, <1>1, <1>5
  <2>3. CASE ~queued
    BY <2>1, <2>3, <1>2, <1>4, <1>5, ShrunkSelf
  <2> QED
    BY <2>2, <2>3
<1>8. Consistent(e, left, {})
  BY <1>2, <1>6, <1>7, ShadowMoved
<1>9. Promotes(d, e) /\ e.disp[r] = "none"
  BY <1>1, <1>2, <1>7 DEF Promotes
<1> QED
  BY <1>8, <1>9 DEF e

-----------------------------------------------------------------------------
(* The queue owner of a request that is not queued is free to choose.      *)
LEMMA NewOwner ==
    ASSUME NEW own \in [Requests -> Tenants], NEW q, WellFormed(q, own),
           NEW r \in Requests, r \notin Members(q), NEW t \in Tenants
    PROVE  LET new == [own EXCEPT ![r] = t]
           IN  new \in [Requests -> Tenants] /\ new[r] = t /\ WellFormed(q, new)
<1> DEFINE new == [own EXCEPT ![r] = t]
<1>1. new \in [Requests -> Tenants] /\ new[r] = t /\ \A s \in Requests : s # r => new[s] = own[s]
  OBVIOUS
<1> HIDE DEF new
<1>2. ASSUME NEW u \in Tenants, NEW s \in ToSet(q.bucket[u]) PROVE new[s] = u
  <2>1. q.bucket[u] \in Seq(Requests)
    BY DEF WellFormed, Shape
  <2>2. s \in Requests /\ s # r
    BY <2>1 DEF ToSet, Members
  <2> QED
    BY <2>2, <1>1 DEF WellFormed, Owned
<1> QED
  BY <1>1, <1>2 DEF WellFormed, Owned, new

(***************************************************************************)
(* A lease gets its place in the virtual account: it is over the limit, it *)
(* fits, or it waits.                                                      *)
(***************************************************************************)
PlacedAs(d, e, r, t) ==
    \/ e = [d EXCEPT !.disp[r] = "rejected"]
    \/ e = [d EXCEPT !.disp[r] = "active", !.vcost = @ + Cost[r]]
    \/ e = VirtuallyQueued(d, r, t) /\ Cost[r] > VirtualRoom(d)

SameButShadow(d, e) ==
    SameSettings(d, e) /\ SameLines(d, e) /\ SameBook(d, e) /\ e.phase = d.phase /\ e.due = d.due

(* Who does not fit and joins the virtual queue has no turn there.         *)
LEMMA VirtuallyQueuedStuck ==
    ASSUME NEW d, NEW left, NEW open, Consistent(d, left, open), NEW own \in [Requests -> Tenants],
           NEW r \in Requests, r \notin Members(d.vqueue), r \notin ToSet(d.arrived),
           WellFormed(d.vqueue, own), Cost[r] > VirtualRoom(d), VirtualStuck(d),
           NEW e, e.vqueue = Enqueue(d.vqueue, r, own[r]), e.arrived = Append(d.arrived, r),
           VirtualRoom(e) = VirtualRoom(d)
    PROVE  VirtualStuck(e)
<1>1. /\ d.arrived \in Seq(Requests) /\ IsInjective(d.arrived)
      /\ Members(d.vqueue) \subseteq ToSet(d.arrived) /\ VirtualRoom(d) \in Int
  BY VirtualFacts
<1> DEFINE room == VirtualRoom(d)
<1>2. CASE room <= 0
  BY <1>2 DEF VirtualStuck
<1>3. CASE Turns(d.vqueue, room, d.arrived) = {}
  <2>1. ~(Cost[r] <= room)
    <3>1. Cost[r] \in Nat
      BY CostPositive
    <3> QED
      BY <3>1, <1>1
  <2> HIDE DEF room
  <2>2. Blocked(d.vqueue, room, d.arrived)
    BY <1>1, <1>3, BlockedIs
  <2>3. Blocked(e.vqueue, room, e.arrived)
    BY <2>1, <2>2, <1>1, BlockedJoined
  <2>4. WellFormed(e.vqueue, own) /\ Members(e.vqueue) = Members(d.vqueue) \cup {r}
    BY EnqueueWellFormed
  <2>5. e.arrived \in Seq(Requests) /\ IsInjective(e.arrived) /\ ToSet(e.arrived) = ToSet(d.arrived) \cup {r}
    BY <1>1, AppendElements
  <2>6. Members(e.vqueue) \subseteq ToSet(e.arrived)
    BY <2>4, <2>5, <1>1
  <2>7. Turns(e.vqueue, room, e.arrived) = {}
    BY <2>3, <2>4, <2>5, <2>6, BlockedIs
  <2> QED
    BY <2>7 DEF VirtualStuck, room
<1> QED
  BY <1>2, <1>3 DEF VirtualStuck

(* A lease that is given a virtual disposition.                            *)
LEMMA PlacedConsistent ==
    ASSUME NEW d, NEW left, Consistent(d, left, {}), NEW r \in ToSet(d.leases), d.disp[r] = "none",
           NEW t \in Tenants, NEW e, PlacedAs(d, e, r, t)
    PROVE  /\ Consistent(e, left, {}) /\ SameButShadow(d, e)
           /\ \A s \in Requests : s # r => e.disp[s] = d.disp[s]
           /\ VirtualStuck(d) => VirtualStuck(e)
<1>1. /\ Record(d) /\ Shadow(d) /\ d.leases \in Seq(Requests) /\ d.disp \in [Requests -> Dispositions]
      /\ r \in Requests /\ r \notin Waiters(d) \cup left
      /\ d.vcost \in Nat /\ d.limit \in Int /\ Cost[r] \in Nat
      /\ d.arrived \in Seq(Requests) /\ IsInjective(d.arrived)
      /\ ToSet(d.arrived) = Waiters(d) \cup left \cup Members(d.vqueue)
      /\ r \notin Members(d.vqueue) /\ r \notin ToSet(d.arrived)
  <2>1. /\ Record(d) /\ Shadow(d) /\ d.leases \in Seq(Requests) /\ d.disp \in [Requests -> Dispositions]
        /\ d.arrived \in Seq(Requests) /\ IsInjective(d.arrived)
        /\ ToSet(d.arrived) = Waiters(d) \cup left \cup Members(d.vqueue)
    BY DEF Consistent, Book, Shadow, Times
  <2>2. r \in Requests
    BY <2>1, ElementsFinite
  <2>3. r \notin Waiters(d) \cup left
    BY <2>1, <2>2, VirtualAreHeld DEF Consistent
  <2>4. r \notin Members(d.vqueue)
    BY <2>2 DEF Consistent, Shadow, Disposed
  <2> QED
    BY <2>1, <2>2, <2>3, <2>4, QueueFinite, CostPositive
<1>2. PICK own \in [Requests -> Tenants] : WellFormed(d.vqueue, own)
  BY VirtualFacts
<1>3. Members(d.vqueue) \subseteq Requests
  BY <1>1 DEF Shadow, Disposed
<1>4. CASE e = [d EXCEPT !.disp[r] = "rejected"] \/ e = [d EXCEPT !.disp[r] = "active", !.vcost = @ + Cost[r]]
  <2>1. PICK x \in {"rejected", "active"} :
           /\ e.disp = [d.disp EXCEPT ![r] = x] /\ e.vqueue = d.vqueue
           /\ e.vcost = IF x = "active" THEN d.vcost + Cost[r] ELSE d.vcost
           /\ e.arrived = d.arrived /\ Record(e) /\ SameButShadow(d, e)
    <3>1. CASE e = [d EXCEPT !.disp[r] = "rejected"]
      <4>1. /\ e.disp = [d.disp EXCEPT ![r] = "rejected"] /\ e.vqueue = d.vqueue
            /\ e.vcost = d.vcost /\ e.arrived = d.arrived /\ Record(e)
        BY <3>1, <1>1 DEF Record, Names
      <4>2. SameButShadow(d, e)
        BY <3>1, <1>1 DEF Record, Names, SameButShadow, SameSettings, SameLines, SameBook
      <4> QED
        BY <4>1, <4>2
    <3>2. CASE e = [d EXCEPT !.disp[r] = "active", !.vcost = @ + Cost[r]]
      <4>1. /\ e.disp = [d.disp EXCEPT ![r] = "active"] /\ e.vqueue = d.vqueue
            /\ e.vcost = d.vcost + Cost[r] /\ e.arrived = d.arrived /\ Record(e)
        BY <3>2, <1>1 DEF Record, Names
      <4>2. SameButShadow(d, e)
        BY <3>2, <1>1 DEF Record, Names, SameButShadow, SameSettings, SameLines, SameBook
      <4> QED
        BY <4>1, <4>2
    <3> QED
      BY <1>4, <3>1, <3>2
  <2>2. Shadow(e)
    <3>1. e.vcost = d.vcost - CostIf(d.disp[r] = "active", r) + CostIf(x = "active", r)
      BY <2>1, <1>1 DEF CostIf
    <3>2. e.leases = d.leases /\ x \in Dispositions /\ x # "queued"
      BY <2>1 DEF SameButShadow, SameBook, Dispositions
    <3> QED
      BY <3>1, <3>2, <2>1, <1>1, <1>2, <1>3, DispositionChanged, SMTT(40)
  <2>3. Consistent(e, left, {})
    BY <2>1, <2>2, <1>1, ShadowMoved DEF SameButShadow
  <2>4. VirtualStuck(d) => VirtualStuck(e)
    <3>1. VirtualRoom(e) <= VirtualRoom(d)
      BY <2>1, <1>1 DEF VirtualRoom, SameButShadow, SameSettings
    <3> QED
      BY <3>1, <2>1, <2>3, ShrunkSelf, VirtualStuckStays
  <2> QED
    BY <2>1, <2>3, <2>4, <1>1
<1>5. CASE e = VirtuallyQueued(d, r, t) /\ Cost[r] > VirtualRoom(d)
  <2> DEFINE new == [own EXCEPT ![r] = t]
  <2>1. new \in [Requests -> Tenants] /\ new[r] = t /\ WellFormed(d.vqueue, new)
    BY <1>1, <1>2, NewOwner
  <2> HIDE DEF new
  <2>2. /\ e.disp = [d.disp EXCEPT ![r] = "queued"] /\ e.vqueue = Enqueue(d.vqueue, r, t)
        /\ e.vcost = d.vcost /\ e.arrived = Append(d.arrived, r) /\ Record(e)
    BY <1>1, <1>5 DEF Record, Names, VirtuallyQueued
  <2>3. SameButShadow(d, e)
    BY <1>1, <1>5 DEF Record, Names, VirtuallyQueued, SameButShadow, SameSettings, SameLines, SameBook
  <2>4. WellFormed(e.vqueue, new) /\ Members(e.vqueue) = Members(d.vqueue) \cup {r}
    BY <2>1, <2>2, <1>1, EnqueueWellFormed
  <2>5. Shadow(e)
    <3>1. e.vcost = d.vcost - CostIf(d.disp[r] = "active", r) + CostIf("queued" = "active", r)
      BY <2>2, <1>1 DEF CostIf
    <3>2. e.leases = d.leases /\ "queued" \in Dispositions
      BY <2>3 DEF SameButShadow, SameBook, Dispositions
    <3>3. \A s \in Requests : s \in Members(e.vqueue) <=>
                                 IF s = r THEN "queued" = "queued" ELSE s \in Members(d.vqueue)
      BY <2>4
    <3>4. Members(e.vqueue) \subseteq Requests
      BY <2>4, <1>1, <1>3
    <3> QED
      BY <3>1, <3>2, <3>3, <3>4, <2>1, <2>2, <2>4, <1>1, DispositionChanged
  <2>6. e.arrived \in Seq(Requests) /\ IsInjective(e.arrived) /\ ToSet(e.arrived) = ToSet(d.arrived) \cup {r}
    BY <2>2, <1>1, AppendElements
  <2>7. ToSet(e.arrived) = Waiters(d) \cup left \cup Members(e.vqueue)
    BY <2>4, <2>6, <1>1
  <2>8. Consistent(e, left, {})
    BY <2>2, <2>3, <2>5, <2>6, <2>7, ShadowMoved DEF SameButShadow
  <2>9. VirtualStuck(d) => VirtualStuck(e)
    <3>1. VirtualRoom(e) = VirtualRoom(d)
      BY <2>2, <2>3 DEF VirtualRoom, SameButShadow, SameSettings
    <3> QED
      BY <3>1, <2>1, <2>2, <1>1, <1>5, VirtuallyQueuedStuck
  <2> QED
    BY <2>2, <2>3, <2>8, <2>9, <1>1
<1> QED
  BY <1>4, <1>5 DEF PlacedAs

-----------------------------------------------------------------------------
(* The arrivals, without those of the virtual queue.                       *)
LEMMA OutOfVirtualIs ==
    ASSUME NEW d, NEW left, NEW open, Consistent(d, left, open)
    PROVE  LET a == OutOfVirtual(d)
           IN  a \in Seq(Requests) /\ IsInjective(a) /\ ToSet(a) = ToSet(d.arrived) \ Members(d.vqueue)
<1> DEFINE a == OutOfVirtual(d)
           S == Members(d.vqueue)
           s == SetToSeq(S)
           n == Len(s)
           Gone(i) == {s[j] : j \in 1..i}
           Good(b, i) == b \in Seq(Requests) /\ IsInjective(b) /\ ToSet(b) = ToSet(d.arrived) \ Gone(i)
<1>1. s \in Seq(S) /\ ToSet(s) = S
  BY QueueFinite, SeqOfSet
<1>2. Runs("without", 0, d.arrived, s, a)
  BY <1>1, WithoutRuns DEF OutOfVirtual
<1>3. PICK h : /\ h[0] = d.arrived
               /\ \A i \in 1..n : h[i] = Round("without", 0, h[i - 1], s[i])
               /\ a = h[n]
  BY <1>2 DEF Runs
<1>4. \A b, x : Round("without", 0, b, x) = Without(b, x)
  BY DEF Round
<1>5. n \in Nat /\ Gone(n) = S /\ Gone(0) = {}
  BY <1>1 DEF ToSet
<1> DEFINE T == {i \in 0..n : Good(h[i], i)}
<1>6. Good(h[0], 0)
  BY <1>3, <1>5 DEF Consistent, Times
<1> HIDE DEF Good, a, s, n
<1>7. 0 \in T
  BY <1>5, <1>6
<1>8. ASSUME NEW i \in 1..n, i - 1 \in T PROVE i \in T
  <2> DEFINE b == h[i - 1]
             x == s[i]
             g == h[i]
  <2>1. Good(b, i - 1) /\ g = Without(b, x)
    BY <1>3, <1>4, <1>8
  <2>2. Gone(i) = Gone(i - 1) \cup {x}
    <3>1. 1..i = 1..(i - 1) \cup {i}
      BY <1>5
    <3> QED
      BY <3>1
  <2> HIDE DEF b, x, g, Gone
  <2>3. g \in Seq(Requests) /\ IsInjective(g) /\ ToSet(g) = ToSet(b) \ {x}
    BY <2>1, RemoveFirstElements DEF Good, Without
  <2>4. Good(g, i)
    BY <2>1, <2>2, <2>3 DEF Good
  <2> QED
    BY <2>4 DEF g
<1> HIDE DEF T
<1>9. \A i \in 0..n : i \in T
  BY <1>5, <1>7, <1>8, NumbersUpTo
<1>10. Good(a, n)
  BY <1>3, <1>5, <1>9 DEF T
<1> QED
  BY <1>5, <1>10 DEF Good, a

(* rebuildVirtualState: the virtual account is emptied,                    *)
Reset(d) ==
    [d EXCEPT !.vqueue = Empty, !.vcost = 0, !.arrived = OutOfVirtual(d),
              !.disp = [r \in Requests |-> "none"]]

(* The virtual account is emptied,                                         *)
LEMMA ResetConsistent ==
    ASSUME NEW d, Consistent(d, {}, {})
    PROVE  LET e == Reset(d)
           IN  /\ Consistent(e, {}, {}) /\ SameButShadow(d, e)
               /\ \A r \in Requests : e.disp[r] = "none"
               /\ VirtualStuck(e)
<1> DEFINE e == Reset(d)
           a == OutOfVirtual(d)
<1>1. /\ Record(d) /\ Shadow(d) /\ ToSet(d.arrived) = Waiters(d) \cup {} \cup Members(d.vqueue)
  BY DEF Consistent, Times
<1>2. a \in Seq(Requests) /\ IsInjective(a) /\ ToSet(a) = ToSet(d.arrived) \ Members(d.vqueue)
  BY OutOfVirtualIs
<1> HIDE DEF a
<1>3. /\ Record(e) /\ e.vqueue = Empty /\ e.vcost = 0 /\ e.arrived = a
      /\ e.disp = [r \in Requests |-> "none"]
  BY <1>1 DEF Reset, Record, Names, a
<1>4. SameButShadow(d, e)
  BY <1>1 DEF Reset, Record, Names, SameButShadow, SameSettings, SameLines, SameBook
<1> HIDE DEF e
<1>5. WellFormed(e.vqueue, TenantKey) /\ Members(e.vqueue) = {} /\ TenantKey \in [Requests -> Tenants]
  BY <1>3, TenantsValid, EmptyWellFormed
<1>6. Shadow(e)
  <2>1. e.disp \in [Requests -> Dispositions] /\ \A r \in Requests : e.disp[r] = "none"
    BY <1>3 DEF Dispositions
  <2>2. Disposed(e, "queued") = {} /\ Disposed(e, "active") = {}
    BY <2>1 DEF Disposed
  <2>3. TotalCost({}) = 0
    BY FS_EmptySet, CostNat
  <2> QED
    BY <2>1, <2>2, <2>3, <1>3, <1>5 DEF Shadow
<1>7. ToSet(e.arrived) = Waiters(d) \cup {} \cup Members(e.vqueue)
  <2>1. Waiters(d) \cap Members(d.vqueue) = {}
    <3>1. Waiters(d) \subseteq Requests
      BY WaitersAreRequests DEF Consistent
    <3> QED
      BY <3>1, VirtualAreHeld DEF Consistent
  <2> QED
    BY <2>1, <1>1, <1>2, <1>3, <1>5
<1>8. Consistent(e, {}, {})
  BY <1>2, <1>3, <1>4, <1>6, <1>7, ShadowMoved DEF SameButShadow
<1>9. Turns(e.vqueue, VirtualRoom(e), e.arrived) = {}
  BY <1>5, NobodyNoTurn
<1> QED
  BY <1>3, <1>4, <1>8, <1>9 DEF VirtualStuck, e

(* Two changes of the virtual account are one.                             *)
LEMMA SameButShadowTwice ==
    ASSUME NEW d, NEW e, NEW f, SameButShadow(d, e), SameButShadow(e, f) PROVE SameButShadow(d, f)
  BY DEF SameButShadow, SameSettings, SameLines, SameBook

(* and in shadow mode filled again with the leases.                        *)
LEMMA RebuiltConsistent ==
    ASSUME NEW d, Consistent(d, {}, {})
    PROVE  LET e == Rebuilt(d)
           IN  Consistent(e, {}, {}) /\ SameButShadow(d, e) /\ VirtualStuck(e)
<1> DEFINE b == Reset(d)
           s == d.leases
           n == Len(s)
           e == FoldLeft(VirtuallyPlaced, b, s)
           Good(f, i) == /\ Consistent(f, {}, {}) /\ SameButShadow(d, f) /\ VirtualStuck(f)
                         /\ \A r \in Rest(s, i) : f.disp[r] = "none"
<1>1. Rebuilt(d) = IF d.cfg.mode = "shadow" THEN e ELSE b
  <2>1. b.cfg = d.cfg
    BY ResetConsistent DEF SameButShadow, SameSettings
  <2> QED
    BY DEF Rebuilt, Reset
<1>2. /\ Consistent(b, {}, {}) /\ SameButShadow(d, b) /\ VirtualStuck(b)
      /\ \A r \in Requests : b.disp[r] = "none"
  BY ResetConsistent
<1>3. s \in Seq(Requests) /\ IsInjective(s) /\ n \in Nat
  BY DEF Consistent, Book
<1>4. /\ Rest(s, 0) = ToSet(s) /\ ToSet(s) \subseteq Requests
      /\ \A i \in 1..n : /\ s[i] \in Rest(s, i - 1) /\ s[i] \in Requests
                         /\ Rest(s, i) = Rest(s, i - 1) \ {s[i]}
      /\ \A i \in 0..n : Rest(s, i) \subseteq ToSet(s)
  BY <1>3, RestOf, ElementsFinite
<1> HIDE DEF b
<1>5. Runs("place", 0, b, s, e)
  BY <1>3, PlaceRuns
<1>6. PICK h : /\ h[0] = b
               /\ \A i \in 1..n : h[i] = Round("place", 0, h[i - 1], s[i])
               /\ e = h[n]
  BY <1>5 DEF Runs
<1>7. \A f, x : Round("place", 0, f, x) = VirtuallyPlaced(f, x)
  BY DEF Round
<1> DEFINE T == {i \in 0..n : Good(h[i], i)}
<1>8. Good(h[0], 0)
  BY <1>2, <1>4, <1>6
<1> HIDE DEF Good, e
<1>9. 0 \in T
  BY <1>3, <1>8
<1>10. ASSUME NEW i \in 1..n, i - 1 \in T PROVE i \in T
  <2> DEFINE f == h[i - 1]
             r == s[i]
             g == h[i]
  <2>1. Good(f, i - 1) /\ g = VirtuallyPlaced(f, r)
    BY <1>6, <1>7, <1>10
  <2>2. /\ r \in Rest(s, i - 1) /\ r \in Requests /\ Rest(s, i) = Rest(s, i - 1) \ {r}
        /\ r \in ToSet(s) /\ Rest(s, i) \subseteq Requests
    BY <1>3, <1>4 DEF ToSet
  <2> HIDE DEF f, r, g
  <2>3. /\ Consistent(f, {}, {}) /\ SameButShadow(d, f) /\ VirtualStuck(f)
        /\ \A x \in Rest(s, i - 1) : f.disp[x] = "none"
    BY <2>1 DEF Good
  <2>4. r \in ToSet(f.leases) /\ f.disp[r] = "none" /\ ExistingTenant \in Tenants
    BY <2>2, <2>3, TenantsValid DEF SameButShadow, SameBook
  <2>5. PlacedAs(f, g, r, ExistingTenant)
    <3>1. f.limit \in Int /\ f.vcost \in Int /\ Cost[r] \in Int
      BY <2>2, <2>3, QueueFinite, CostPositive
    <3>2. ~(Cost[r] <= f.limit - f.vcost) => Cost[r] > VirtualRoom(f)
      BY <3>1 DEF VirtualRoom
    <3> QED
      BY <3>2, <2>1 DEF VirtuallyPlaced, PlacedAs
  <2>6. /\ Consistent(g, {}, {}) /\ SameButShadow(f, g)
        /\ \A x \in Requests : x # r => g.disp[x] = f.disp[x]
        /\ VirtualStuck(f) => VirtualStuck(g)
    BY <2>3, <2>4, <2>5, PlacedConsistent
  <2>7. SameButShadow(d, g)
    BY <2>3, <2>6, SameButShadowTwice
  <2>8. \A x \in Rest(s, i) : g.disp[x] = "none"
    BY <2>2, <2>3, <2>6
  <2>9. Good(g, i)
    BY <2>3, <2>6, <2>7, <2>8 DEF Good
  <2> QED
    BY <2>9 DEF g
<1> HIDE DEF T, n
<1>11. \A i \in 0..n : i \in T
  BY <1>3, <1>9, <1>10, NumbersUpTo
<1>12. Good(e, n)
  BY <1>3, <1>6, <1>11 DEF T
<1>13. Consistent(e, {}, {}) /\ SameButShadow(d, e) /\ VirtualStuck(e)
  BY <1>12 DEF Good
<1> QED
  BY <1>1, <1>2, <1>13

-----------------------------------------------------------------------------
(* Two sequences without a common element, one after the other.            *)
LEMMA JoinedElements ==
    ASSUME NEW a \in Seq(Requests), IsInjective(a), NEW b \in Seq(Requests), IsInjective(b),
           ToSet(a) \cap ToSet(b) = {}
    PROVE  a \o b \in Seq(Requests) /\ IsInjective(a \o b) /\ ToSet(a \o b) = ToSet(a) \cup ToSet(b)
<1> DEFINE z == a \o b
           m == Len(a)
           n == Len(b)
<1>1. /\ z \in Seq(Requests) /\ DOMAIN z = 1..(m + n) /\ m \in Nat /\ n \in Nat
      /\ \A i \in 1..m : z[i] = a[i]
      /\ \A i \in (m + 1)..(m + n) : z[i] = b[i - m] /\ i - m \in 1..n
      /\ DOMAIN a = 1..m /\ DOMAIN b = 1..n
  OBVIOUS
<1> HIDE DEF z, m, n
<1>2. \A i \in DOMAIN z : i \in 1..m \/ i \in (m + 1)..(m + n)
  BY <1>1
<1>3. \A i \in 1..m : z[i] \in ToSet(a)
  BY <1>1 DEF ToSet
<1>4. \A i \in (m + 1)..(m + n) : z[i] \in ToSet(b)
  BY <1>1 DEF ToSet
<1>5. IsInjective(z)
  <2>1. SUFFICES ASSUME NEW i \in DOMAIN z, NEW j \in DOMAIN z, z[i] = z[j] PROVE i = j
    BY DEF IsInjective
  <2>2. CASE i \in 1..m /\ j \in 1..m
    BY <2>1, <2>2, <1>1 DEF IsInjective
  <2>3. CASE i \in (m + 1)..(m + n) /\ j \in (m + 1)..(m + n)
    <3>1. i - m = j - m
      BY <2>1, <2>3, <1>1 DEF IsInjective
    <3> QED
      BY <3>1, <2>3, <1>1
  <2>4. CASE i \in 1..m /\ j \in (m + 1)..(m + n)
    BY <2>1, <2>4, <1>3, <1>4
  <2>5. CASE j \in 1..m /\ i \in (m + 1)..(m + n)
    BY <2>1, <2>5, <1>3, <1>4
  <2> QED
    BY <1>2, <2>2, <2>3, <2>4, <2>5
<1>6. ToSet(z) = ToSet(a) \cup ToSet(b)
  <2>1. \A x \in ToSet(z) : x \in ToSet(a) \cup ToSet(b)
    BY <1>2, <1>3, <1>4 DEF ToSet
  <2>2. \A x \in ToSet(a) : x \in ToSet(z)
    <3>1. \A i \in 1..m : i \in DOMAIN z
      BY <1>1
    <3> QED
      BY <3>1, <1>1 DEF ToSet
  <2>3. \A x \in ToSet(b) : x \in ToSet(z)
    <3>1. \A i \in 1..n : i + m \in (m + 1)..(m + n) /\ i + m \in DOMAIN z /\ (i + m) - m = i
      BY <1>1
    <3>2. \A i \in 1..n : z[i + m] = b[i]
      BY <3>1, <1>1
    <3>3. \A i \in 1..n : b[i] \in ToSet(z)
      BY <3>1, <3>2 DEF ToSet
    <3>4. \A x \in ToSet(b) : \E i \in 1..n : b[i] = x
      BY <1>1 DEF ToSet
    <3> QED
      BY <3>3, <3>4
  <2> QED
    BY <2>1, <2>2, <2>3
<1> QED
  BY <1>1, <1>5, <1>6 DEF z

(* With unlimited room there is a turn.                                    *)
LEMMA UnlimitedTurn ==
    ASSUME NEW own \in [Requests -> Tenants], NEW q, WellFormed(q, own),
           NEW a \in Seq(Requests), IsInjective(a), Members(q) \subseteq ToSet(a), Members(q) # {}
    PROVE  Turns(q, TotalCost(Members(q)), a) # {}
<1> DEFINE room == TotalCost(Members(q))
<1>1. Members(q) \in SUBSET Requests /\ IsFiniteSet(Members(q))
  BY ElementsFinite, FS_Subset
<1>2. ASSUME NEW i \in DOMAIN q.order PROVE Cost[HeadAt(q, i)] <= room
  <2>1. HeadAt(q, i) \in Members(q)
    BY HeadOf DEF WellFormed
  <2> QED
    BY <2>1, <1>1, CostWithout
<1>3. \E i \in DOMAIN q.order : TRUE
  <2>1. PICK t \in Tenants : ToSet(q.bucket[t]) # {}
    BY DEF Members
  <2>2. q.bucket[t] # <<>>
    BY <2>1, EmptyElements DEF WellFormed, Shape
  <2> QED
    BY <2>2, PlaceOf DEF WellFormed
<1>4. ~Blocked(q, room, a)
  <2>1. CASE Reserved(q) = {}
    BY <2>1, <1>2, <1>3 DEF Blocked
  <2>2. CASE Reserved(q) # {}
    <3>1. Oldest(q, a) \in DOMAIN q.order
      BY <2>2, OldestIs
    <3> QED
      BY <2>2, <3>1, <1>2 DEF Blocked
  <2> QED
    BY <2>1, <2>2
<1> QED
  BY <1>4, BlockedIs

(* drain returns everybody once.                                           *)
LEMMA DrainedIs ==
    ASSUME NEW own \in [Requests -> Tenants], NEW q, WellFormed(q, own),
           NEW a \in Seq(Requests), IsInjective(a), Members(q) \subseteq ToSet(a)
    PROVE  LET e == Drained(q, a)
           IN  e \in Seq(Requests) /\ IsInjective(e) /\ ToSet(e) = Members(q)
<1> DEFINE S == Members(q)
           b == [queue |-> q, line |-> <<>>]
           s == SetToSeq(S)
           n == Len(s)
           e == TakeAll(a, b, s)
           Good(f, i) == /\ WellFormed(f.queue, own) /\ f.line \in Seq(Requests) /\ IsInjective(f.line)
                         /\ ToSet(f.line) \cap Members(f.queue) = {}
                         /\ ToSet(f.line) \cup Members(f.queue) = S
                         /\ Cardinality(Members(f.queue)) = n - i
<1>1. IsFiniteSet(S) /\ S \subseteq Requests
  BY ElementsFinite, FS_Subset
<1>2. s \in Seq(S) /\ n = Cardinality(S) /\ n \in Nat
  BY <1>1, SeqOfSet
<1>3. Runs("take", a, b, s, e)
  BY <1>2, TakeRuns
<1>4. PICK h : /\ h[0] = b
               /\ \A i \in 1..n : h[i] = Round("take", a, h[i - 1], s[i])
               /\ e = h[n]
  BY <1>3 DEF Runs
<1>5. \A f, x : Round("take", a, f, x) = TakeNext(f, a)
  BY DEF Round
<1>6. Drained(q, a) = e.line
  BY DEF Drained, TakeAll
<1> DEFINE T == {i \in 0..n : Good(h[i], i)}
<1>7. Good(h[0], 0)
  <2>1. h[0].queue = q /\ h[0].line = <<>>
    <3>1. h[0] = b
      BY <1>4
    <3> QED
      BY <3>1
  <2>2. ToSet(<<>>) = {} /\ IsInjective(<<>>)
    BY DEF ToSet, IsInjective
  <2> QED
    BY <2>1, <2>2, <1>2
<1> HIDE DEF Good, e, s, n, S
<1>8. 0 \in T
  BY <1>2, <1>7
<1>9. ASSUME NEW i \in 1..n, i - 1 \in T PROVE i \in T
  <2> DEFINE f == h[i - 1]
             g == h[i]
             k == CHOOSE k \in Turns(f.queue, TotalCost(Members(f.queue)), a) : TRUE
             r == HeadAt(f.queue, k)
             p == Taken(f.queue, k)
  <2>1. Good(f, i - 1) /\ g = TakeNext(f, a)
    BY <1>4, <1>5, <1>9
  <2> HIDE DEF f, g
  <2>2. g.queue = p /\ g.line = Append(f.line, r)
    BY <2>1 DEF TakeNext
  <2>3. /\ WellFormed(f.queue, own) /\ f.line \in Seq(Requests) /\ IsInjective(f.line)
        /\ ToSet(f.line) \cap Members(f.queue) = {} /\ ToSet(f.line) \cup Members(f.queue) = S
        /\ Cardinality(Members(f.queue)) = n - (i - 1)
    BY <2>1 DEF Good
  <2>4. Members(f.queue) # {} /\ IsFiniteSet(Members(f.queue)) /\ Members(f.queue) \subseteq ToSet(a)
    <3>1. n - (i - 1) # 0
      BY <1>2
    <3>2. Members(f.queue) # {}
      BY <3>1, <2>3, FS_EmptySet
    <3>3. Members(f.queue) \subseteq S
      BY <2>3
    <3> QED
      BY <3>2, <3>3, <1>1, FS_Subset DEF S
  <2>5. k \in Turns(f.queue, TotalCost(Members(f.queue)), a)
    BY <2>3, <2>4, UnlimitedTurn
  <2>6. k \in DOMAIN f.queue.order
    BY <2>5, TurnsArePlaces
  <2>7. r \in Members(f.queue)
    BY <2>3, <2>6, HeadOf DEF WellFormed
  <2>8. WellFormed(p, own) /\ Members(p) = Members(f.queue) \ {r}
    BY <2>3, <2>6, TakenWellFormed
  <2> HIDE DEF k, r, p
  <2>9. r \in Requests /\ r \notin ToSet(f.line)
    BY <2>3, <2>7, <1>1
  <2>10. g.line \in Seq(Requests) /\ IsInjective(g.line) /\ ToSet(g.line) = ToSet(f.line) \cup {r}
    BY <2>2, <2>3, <2>9, AppendElements
  <2>11. Cardinality(Members(g.queue)) = n - i
    <3>1. Cardinality(Members(g.queue)) = Cardinality(Members(f.queue)) - 1
      BY <2>2, <2>4, <2>7, <2>8, FS_RemoveElement
    <3> QED
      BY <3>1, <2>3, <1>2
  <2>12. ToSet(g.line) \cap Members(g.queue) = {} /\ ToSet(g.line) \cup Members(g.queue) = S
    BY <2>2, <2>3, <2>7, <2>8, <2>10
  <2>13. Good(g, i)
    BY <2>2, <2>8, <2>10, <2>11, <2>12 DEF Good
  <2> QED
    BY <2>13 DEF g
<1> HIDE DEF T
<1>10. \A i \in 0..n : i \in T
  BY <1>2, <1>8, <1>9, NumbersUpTo
<1>11. Good(e, n)
  BY <1>2, <1>4, <1>10 DEF T
<1>12. Members(e.queue) = {}
  <2>1. Cardinality(Members(e.queue)) = 0 /\ Members(e.queue) \subseteq S
    BY <1>2, <1>11 DEF Good
  <2> QED
    BY <2>1, <1>1, FS_Subset, FS_EmptySet
<1> QED
  BY <1>6, <1>11, <1>12 DEF Good, S

(* Everybody in the lanes, lane by lane.                                   *)
LEMMA LanesJoined ==
    ASSUME NEW d, NEW left, Consistent(d, left, {})
    PROVE  LET e == JoinAll(d.lane, <<>>, d.lanes)
           IN  e \in Seq(Requests) /\ IsInjective(e) /\ ToSet(e) = LaneWaiters(d)
<1> DEFINE e == JoinAll(d.lane, <<>>, d.lanes)
           s == d.lanes
           n == Len(s)
           In(i) == UNION {ToSet(d.lane[s[j]]) : j \in 1..i}
           Good(f, i) == f \in Seq(Requests) /\ IsInjective(f) /\ ToSet(f) = In(i)
<1>1. /\ s \in Seq(Tenants) /\ n \in Nat /\ IsInjective(s)
      /\ ToSet(s) = {t \in Tenants : d.lane[t] # <<>>} \cup {}
      /\ d.lane \in [Tenants -> Seq(Requests)] /\ \A t \in Tenants : LaneOf(d, t)
  BY DEF Consistent, Lines, LaneOrder
<1>2. Runs("join", d.lane, <<>>, s, e)
  BY <1>1, JoinRuns
<1>3. PICK h : /\ h[0] = <<>>
               /\ \A i \in 1..n : h[i] = Round("join", d.lane, h[i - 1], s[i])
               /\ e = h[n]
  BY <1>2 DEF Runs
<1>4. \A f, t : Round("join", d.lane, f, t) = f \o d.lane[t]
  BY DEF Round, Joined
<1>5. \A i \in 1..n : s[i] \in Tenants
  BY <1>1
<1>6. In(0) = {} /\ \A i \in 1..n : In(i) = In(i - 1) \cup ToSet(d.lane[s[i]])
  <2>1. \A i \in 1..n : 1..i = 1..(i - 1) \cup {i}
    BY <1>1
  <2> QED
    BY <2>1
<1>7. \A i \in 1..n : In(i - 1) \cap ToSet(d.lane[s[i]]) = {}
  <2>1. SUFFICES ASSUME NEW i \in 1..n, NEW j \in 1..(i - 1), NEW r,
                        r \in ToSet(d.lane[s[j]]), r \in ToSet(d.lane[s[i]])
                 PROVE  FALSE
    OBVIOUS
  <2>2. j \in 1..n /\ j # i
    BY <1>1
  <2>3. s[i] \in Tenants /\ s[j] \in Tenants /\ s[i] # s[j]
    BY <2>2, <1>1, <1>5 DEF IsInjective
  <2>4. TenantKey[r] = s[i] /\ TenantKey[r] = s[j]
    BY <2>1, <2>3, <1>1 DEF LaneOf
  <2> QED
    BY <2>3, <2>4
<1>8. In(n) = LaneWaiters(d)
  <2>1. \A t \in Tenants : d.lane[t] # <<>> <=> \E j \in 1..n : s[j] = t
    BY <1>1 DEF ToSet
  <2>2. \A t \in Tenants : d.lane[t] = <<>> => ToSet(d.lane[t]) = {}
    BY DEF ToSet
  <2>3. ASSUME NEW r, NEW t \in Tenants, r \in ToSet(d.lane[t]) PROVE r \in In(n)
    <3>1. d.lane[t] # <<>>
      BY <2>2, <2>3
    <3>2. PICK j \in 1..n : s[j] = t
      BY <2>1, <3>1
    <3> QED
      BY <2>3, <3>2
  <2>4. ASSUME NEW r, NEW j \in 1..n, r \in ToSet(d.lane[s[j]]) PROVE r \in LaneWaiters(d)
    <3>1. s[j] \in Tenants
      BY <1>5
    <3> QED
      BY <2>4, <3>1 DEF LaneWaiters
  <2> QED
    BY <2>3, <2>4, Zenon DEF LaneWaiters
<1> HIDE DEF In, e, s, n
<1> DEFINE T == {i \in 0..n : Good(h[i], i)}
<1>9. Good(h[0], 0)
  BY <1>3, <1>6 DEF ToSet, IsInjective
<1> HIDE DEF Good
<1>10. 0 \in T
  BY <1>1, <1>9
<1>11. ASSUME NEW i \in 1..n, i - 1 \in T PROVE i \in T
  <2> DEFINE f == h[i - 1]
             b == d.lane[s[i]]
             g == h[i]
  <2>1. Good(f, i - 1) /\ g = f \o b
    BY <1>3, <1>4, <1>11
  <2>2. b \in Seq(Requests) /\ IsInjective(b) /\ In(i - 1) \cap ToSet(b) = {}
        /\ In(i) = In(i - 1) \cup ToSet(b)
    BY <1>1, <1>5, <1>6, <1>7 DEF LaneOf
  <2> HIDE DEF f, b, g
  <2>3. g \in Seq(Requests) /\ IsInjective(g) /\ ToSet(g) = In(i)
    BY <2>1, <2>2, JoinedElements DEF Good
  <2> QED
    BY <2>3 DEF Good, g
<1> HIDE DEF T
<1>12. \A i \in 0..n : i \in T
  BY <1>1, <1>10, <1>11, NumbersUpTo
<1>13. Good(e, n)
  BY <1>1, <1>3, <1>12 DEF T
<1> QED
  BY <1>8, <1>13 DEF Good, e, s

(* Line: everybody who waits, once.                                        *)
LEMMA LineIs ==
    ASSUME NEW d, Consistent(d, {}, {})
    PROVE  Line(d) \in Seq(Requests) /\ IsInjective(Line(d)) /\ ToSet(Line(d)) = Waiters(d)
<1> DEFINE a == Drained(d.queue, d.arrived)
           b == JoinAll(d.lane, <<>>, d.lanes)
<1>1. a \in Seq(Requests) /\ IsInjective(a) /\ ToSet(a) = Members(d.queue)
  <2>1. /\ WellFormed(d.queue, TenantKey) /\ TenantKey \in [Requests -> Tenants]
        /\ d.arrived \in Seq(Requests) /\ IsInjective(d.arrived)
        /\ Members(d.queue) \subseteq ToSet(d.arrived)
    BY QueueFinite
  <2> QED
    BY <2>1, DrainedIs
<1>2. b \in Seq(Requests) /\ IsInjective(b) /\ ToSet(b) = LaneWaiters(d)
  BY LanesJoined
<1>3. Line(d) = a \o b
  BY DEF Line, JoinAll
<1> HIDE DEF a, b
<1>4. Members(d.queue) \cap LaneWaiters(d) = {}
  BY DEF Consistent, Answers
<1> QED
  BY <1>1, <1>2, <1>3, <1>4, JoinedElements DEF Waiters

-----------------------------------------------------------------------------
(* The larger and the smaller of two integers.                              *)
LEMMA OfTwo ==
    ASSUME NEW a \in Int, NEW b \in Int
    PROVE  /\ Max({a, b}) \in Int /\ Max({a, b}) >= a /\ Max({a, b}) >= b /\ Max({a, b}) \in {a, b}
           /\ Min({a, b}) \in Int /\ Min({a, b}) <= a /\ Min({a, b}) <= b /\ Min({a, b}) \in {a, b}
<1>1. \E x \in {a, b} : \A y \in {a, b} : x >= y
  OBVIOUS
<1>2. \E x \in {a, b} : \A y \in {a, b} : x <= y
  OBVIOUS
<1> DEFINE m == Max({a, b})
           n == Min({a, b})
<1>3. m \in {a, b} /\ \A y \in {a, b} : m >= y
  BY <1>1 DEF Max
<1>4. n \in {a, b} /\ \A y \in {a, b} : n <= y
  BY <1>2 DEF Min
<1> HIDE DEF m, n
<1>5. m \in Int /\ m >= a /\ m >= b
  BY <1>3
<1>6. n \in Int /\ n <= a /\ n <= b
  BY <1>4
<1> QED
  BY <1>3, <1>4, <1>5, <1>6 DEF m, n

(* A configuration has its bounds in order, and Clamp stays between them.  *)
LEMMA ConfigIs ==
    ASSUME NEW f \in Configs \cup FirstConfigs
    PROVE  /\ f.min \in Nat \ {0} /\ f.max \in Nat \ {0} /\ f.initial \in Nat \ {0} /\ f.min <= f.max
           /\ f.mode \in {"off", "shadow", "enforce"} /\ f.lanes \in BOOLEAN
           /\ \A n \in Int : Clamp(n, f) \in f.min..f.max
<1>1. /\ f.min \in Nat \ {0} /\ f.max \in Nat \ {0} /\ f.initial \in Nat \ {0} /\ f.min <= f.max
      /\ f.mode \in {"off", "shadow", "enforce"} /\ f.lanes \in BOOLEAN
  BY ConfigsValid
<1>2. ASSUME NEW n \in Int PROVE Clamp(n, f) \in f.min..f.max
  <2> DEFINE m == Max({f.min, n})
             k == Min({f.max, m})
  <2>4. f.min \in Int /\ f.max \in Int
    BY <1>1
  <2>1. m \in Int /\ m >= f.min
    BY <2>4, OfTwo
  <2> HIDE DEF m
  <2>2. k \in Int /\ k <= f.max /\ k \in {f.max, m}
    BY <2>1, <2>4, OfTwo
  <2> HIDE DEF k
  <2>3. k \in f.min..f.max
    BY <2>1, <2>2, <1>1
  <2> QED
    BY <2>3 DEF Clamp, k, m
<1> QED
  BY <1>1, <1>2

(* Only the settings change.                                               *)
LEMMA SettingsChanged ==
    ASSUME NEW d, Consistent(d, {}, {}),
           NEW e, Record(e), Settings(e), e.cfg = d.cfg, SameLines(d, e),
           e.leases = d.leases, e.spent = d.spent, e.loaded \in BOOLEAN,
           SameShadow(d, e), SameAnswers(d, e)
    PROVE  Consistent(e, {}, {})
<1>1. /\ Lines(e, {}) /\ Waiters(e) = Waiters(d) /\ LaneWaiters(e) = LaneWaiters(d)
      /\ Members(e.queue) = Members(d.queue)
  BY SamePartsKept DEF Consistent
<1>2. Members(d.queue) \cap LaneWaiters(d) = {}
  BY DEF Consistent, Answers
<1>3. Waiters(e) \cup {} = Waiters(d) \cup {} /\ {} \cap Waiters(e) = {}
      /\ Members(e.queue) \cap LaneWaiters(e) = {}
  BY <1>1, <1>2
<1> QED
  BY <1>1, <1>3, LinesMoved

(* closeAdaptationWindow.                                                  *)
LEMMA WindowClosedConsistent ==
    ASSUME NEW d, Consistent(d, {}, {}), NEW util, NEW steep
    PROVE  LET e == WindowClosed(d, util, steep)
           IN  /\ Consistent(e, {}, {}) /\ SameLines(d, e) /\ SameShadow(d, e) /\ SameAnswers(d, e)
               /\ e.leases = d.leases /\ e.cfg = d.cfg /\ e.shut = d.shut
<1> DEFINE next == IF d.pressure = 3
                   THEN IF d.consumed THEN d.limit ELSE CriticallyDecreased(d.limit)
                   ELSE IF d.pressure = 2 \/ (d.completed /\ steep) THEN Decreased(d.limit)
                   ELSE IF ~d.frozen /\ util = "high" /\ d.completed
                        THEN d.limit + IncreaseStep
                   ELSE d.limit
           limit == Clamp(IF util = "low" THEN Recovered(d, next) ELSE next, d.cfg)
           e == WindowClosed(d, util, steep)
<1>1. /\ Record(d) /\ d.cfg \in Configs \cup FirstConfigs /\ d.shut \in BOOLEAN
      /\ d.limit \in d.cfg.min..d.cfg.max /\ d.ceiling \in d.cfg.min..d.cfg.max
  BY DEF Consistent, Settings
<1>2. d.limit \in Int /\ d.ceiling \in Int
  BY <1>1
<1>3. next \in Int
  <2>1. CriticallyDecreased(d.limit) \in Int /\ Decreased(d.limit) \in Int
    BY <1>2 DEF CriticallyDecreased, Decreased
  <2>2. d.limit + IncreaseStep \in Int
    BY <1>2, IncreaseStepPositive
  <2> QED
    BY <2>1, <2>2, <1>2
<1> HIDE DEF next
<1>4. Recovered(d, next) \in Int
  <2>1. next + IncreaseStep \in Int
    BY <1>3, IncreaseStepPositive
  <2>2. Min({d.ceiling, next + IncreaseStep}) \in Int
    BY <2>1, <1>2, OfTwo
  <2> QED
    BY <2>2, <1>3 DEF Recovered
<1>5. limit \in d.cfg.min..d.cfg.max
  BY <1>1, <1>3, <1>4, ConfigIs
<1>6. e = [d EXCEPT !.limit = limit, !.completed = FALSE, !.frozen = FALSE,
                    !.consumed = FALSE, !.pressure = 1, !.loaded = d.leases # <<>>]
  BY DEF WindowClosed, next
<1> HIDE DEF limit, e
<1>7. /\ Record(e) /\ e.cfg = d.cfg /\ e.shut = d.shut /\ e.limit = limit /\ e.ceiling = d.ceiling
      /\ e.pressure = 1 /\ e.consumed = FALSE /\ e.frozen = FALSE /\ e.completed = FALSE
      /\ e.loaded \in BOOLEAN /\ e.leases = d.leases /\ e.spent = d.spent
  BY <1>1, <1>6 DEF Record, Names
<1>8. SameLines(d, e) /\ SameShadow(d, e) /\ SameAnswers(d, e)
  BY <1>1, <1>6 DEF Record, Names, SameLines, SameShadow, SameAnswers
<1>9. Settings(e)
  <2>1. e.pressure \in 1..3
    BY <1>7
  <2>3. e.consumed \in BOOLEAN /\ e.frozen \in BOOLEAN /\ e.completed \in BOOLEAN
    BY <1>7
  <2>2. /\ e.cfg \in Configs \cup FirstConfigs /\ e.shut \in BOOLEAN
        /\ e.limit \in e.cfg.min..e.cfg.max /\ e.ceiling \in e.cfg.min..e.cfg.max
    BY <1>1, <1>5, <1>7
  <2> QED
    BY <2>1, <2>2, <2>3 DEF Settings
<1>10. Consistent(e, {}, {})
  BY <1>7, <1>8, <1>9, SettingsChanged
<1> QED
  BY <1>7, <1>8, <1>10 DEF e

(* evictIdleLanes.                                                         *)
LEMMA LanesEvictedConsistent ==
    ASSUME NEW d, Consistent(d, {}, {}), NEW m \in 0..Len(d.recent)
    PROVE  LET e == LanesEvicted(d, m)
           IN  Consistent(e, {}, {}) /\ Serves(d, e) /\ SameBook(d, e) /\ e.queue = d.queue
<1> DEFINE s == SubSeq(d.recent, 1, m)
           n == Len(s)
           e == LanesEvicted(d, m)
           Good(f) == Consistent(f, {}, {}) /\ Serves(d, f) /\ SameBook(d, f) /\ f.queue = d.queue
<1>1. s \in Seq(Tenants)
  <2>1. d.recent \in Seq(Tenants)
    BY DEF Consistent, Lines, LaneOrder
  <2> QED
    BY <2>1
<1>2. Runs("delete", 0, d, s, e)
  BY <1>1, DeleteRuns DEF LanesEvicted
<1>3. PICK h : /\ h[0] = d
               /\ \A i \in 1..n : h[i] = Round("delete", 0, h[i - 1], s[i])
               /\ e = h[n]
  BY <1>2 DEF Runs
<1>4. \A f, t : Round("delete", 0, f, t) = DeleteLane(f, t)
  BY DEF Round
<1> HIDE DEF s, e
<1>5. n \in Nat
  BY <1>1
<1> DEFINE T == {i \in 0..n : Good(h[i])}
<1>6. Good(h[0])
  BY <1>3, ServesSelf DEF SameBook
<1>7. 0 \in T
  BY <1>5, <1>6
<1>8. ASSUME NEW i \in 1..n, i - 1 \in T PROVE i \in T
  <2> DEFINE f == h[i - 1]
             t == s[i]
             g == h[i]
  <2>1. Good(f) /\ g = DeleteLane(f, t) /\ t \in Tenants
    BY <1>1, <1>3, <1>4, <1>8
  <2> HIDE DEF f, t, g
  <2>2. {} \ {t} = {}
    OBVIOUS
  <2>3. /\ Consistent(g, {}, {} \ {t}) /\ Serves(f, g) /\ SameBook(f, g) /\ g.queue = f.queue
        /\ g.lane = [f.lane EXCEPT ![t] = <<>>] /\ g.lanes = Without(f.lanes, t)
        /\ g.recent = Without(f.recent, t)
    BY <2>1, DeleteLaneConsistent, ZenonT(60)
  <2>4. Serves(d, g)
    BY <2>1, <2>3, ServesTwice
  <2>5. Good(g)
    BY <2>1, <2>2, <2>3, <2>4 DEF SameBook
  <2> QED
    BY <2>5 DEF g
<1> HIDE DEF T, n, Good
<1>9. \A i \in 0..n : i \in T
  BY <1>5, <1>7, <1>8, NumbersUpTo
<1>10. Good(e)
  BY <1>3, <1>5, <1>9 DEF T
<1> QED
  BY <1>10 DEF Good, e

-----------------------------------------------------------------------------
(* A request without a place joins the shared queue.                       *)
LEMMA EnqueuedConsistent ==
    ASSUME NEW d, NEW left, Consistent(d, left, {}), NEW r \in left
    PROVE  LET g == [d EXCEPT !.queue = Enqueue(d.queue, r, TenantKey[r])]
           IN  /\ Consistent(g, left \ {r}, {}) /\ SameSettings(d, g) /\ SameBook(d, g)
               /\ SameShadow(d, g) /\ SameAnswers(d, g) /\ r \notin Members(d.queue)
               /\ g.queue = Enqueue(d.queue, r, TenantKey[r])
<1> DEFINE q == Enqueue(d.queue, r, TenantKey[r])
           g == [d EXCEPT !.queue = q]
<1>1. /\ Record(d) /\ r \in Requests /\ r \notin Waiters(d)
      /\ Members(d.queue) \cap LaneWaiters(d) = {}
  BY DEF Consistent, Answers
<1>2. /\ WellFormed(d.queue, TenantKey) /\ TenantKey \in [Requests -> Tenants]
      /\ r \notin Members(d.queue) /\ r \notin LaneWaiters(d)
  BY <1>1, QueueFinite DEF Waiters
<1>3. WellFormed(q, TenantKey) /\ Members(q) = Members(d.queue) \cup {r}
  BY <1>2, <1>1, EnqueueWellFormed
<1> HIDE DEF q
<1>4. Record(g) /\ g.queue = q /\ g.lane = d.lane /\ g.lanes = d.lanes /\ g.recent = d.recent
  BY <1>1 DEF Record, Names
<1>5. SameSettings(d, g) /\ SameBook(d, g)
  BY <1>1 DEF Record, Names, SameSettings, SameBook
<1>6. SameShadow(d, g) /\ SameAnswers(d, g)
  BY <1>1 DEF Record, Names, SameShadow, SameAnswers
<1> HIDE DEF g
<1>7. Lines(g, {})
  <2>1. g.cfg = d.cfg
    BY <1>5 DEF SameSettings
  <2>2. Lines(d, {})
    BY DEF Consistent
  <2>3. LaneOrder(g, {})
    BY <2>2, <1>4 DEF Lines, LaneOrder
  <2>4. \A t \in Tenants : LaneOf(g, t)
    BY <2>1, <2>2, <1>4 DEF Lines, LaneOf
  <2>5. g.lane \in [Tenants -> Seq(Requests)]
    BY <2>2, <1>4 DEF Lines
  <2> QED
    BY <2>2, <2>3, <2>4, <2>5, <1>3, <1>4 DEF Lines
<1>8. LaneWaiters(g) = LaneWaiters(d) /\ Members(g.queue) = Members(d.queue) \cup {r}
  BY <1>3, <1>4 DEF LaneWaiters
<1>9. left \cap Waiters(d) = {}
  BY DEF Consistent, Answers
<1> DEFINE gone == left \ {r}
<1>10. Waiters(g) \cup gone = Waiters(d) \cup left /\ gone \cap Waiters(g) = {}
      /\ Members(g.queue) \cap LaneWaiters(g) = {}
  BY <1>2, <1>8, <1>9, <1>1 DEF Waiters
<1>11. Settings(g) /\ g.leases = d.leases /\ g.spent = d.spent /\ g.loaded \in BOOLEAN
  BY <1>5, SamePartsKept DEF Consistent, Book, SameBook
<1> HIDE DEF gone
<1>12. Consistent(g, gone, {})
  BY <1>4, <1>6, <1>7, <1>10, <1>11, LinesMoved
<1> QED
  BY <1>2, <1>4, <1>5, <1>6, <1>12 DEF gone, g, q

(* What updateConfig does with a request that left its line.  In enforce   *)
(* mode it gets no lease there.                                            *)
Requeues(d, e) ==
    SameSettings(d, e) /\ Calm(d, e) /\ (d.cfg.mode = "enforce" => SameBook(d, e))

(* A waiter under the new configuration: a lease, a rejection or a place.  *)
LEMMA RequeuedConsistent ==
    ASSUME NEW d, NEW left, Consistent(d, left, {}), NEW r \in left
    PROVE  LET e == Requeued(d, r)
           IN  Consistent(e, left \ {r}, {}) /\ Requeues(d, e)
<1> DEFINE e == Requeued(d, r)
           b == [d EXCEPT !.due = @ \ {r}]
           q == Enqueue(d.queue, r, TenantKey[r])
           g == [d EXCEPT !.queue = q]
<1>1. /\ Record(d) /\ r \in Requests /\ d.phase[r] = "waiting" /\ r \notin Waiters(d)
      /\ d.due \subseteq Waiters(d) \cup left /\ Members(d.queue) \cap LaneWaiters(d) = {}
  BY DEF Consistent, Answers
<1>2. CASE d.cfg.mode # "enforce"
  <2>1. e = Settle(b, r)
    BY <1>2 DEF Requeued
  <2> DEFINE S == d.due \ {r}
  <2>2. S \in SUBSET (Waiters(d) \cup left)
    BY <1>1
  <2>3. /\ b = [d EXCEPT !.due = S] /\ b.phase = d.phase /\ SameSettings(d, b)
        /\ b.due = d.due \ {r}
    BY <1>1 DEF Record, Names, SameSettings
  <2> HIDE DEF S, b
  <2>4. Consistent(b, left, {})
    BY <2>2, <2>3, DueConsistent
  <2> DEFINE a == Settle(b, r)
  <2>5. /\ Consistent(a, left \ {r}, {}) /\ SameSettings(b, a) /\ SameLines(b, a)
        /\ a.vqueue = b.vqueue /\ a.vcost = b.vcost
        /\ r \in b.due => SameBook(b, a)
        /\ r \notin b.due => /\ ToSet(a.leases) = ToSet(b.leases) \cup {r}
                             /\ a.spent = b.spent + Cost[r] /\ r \notin ToSet(b.leases)
        /\ a.due = b.due \ {r} /\ a.arrived = Without(b.arrived, r)
        /\ a.phase[r] # "waiting" /\ Calm(b, a)
    BY <2>4, SettleConsistent
  <2> HIDE DEF a
  <2>6. e = a
    BY <2>1 DEF a
  <2> HIDE DEF e
  <2>7. Calm(d, e)
    BY <2>3, <2>5, <2>6 DEF Calm
  <2> QED
    BY <1>2, <2>3, <2>5, <2>6, <2>7 DEF Requeues, SameSettings, e
<1>3. CASE e = Fail(d, r)
  <2>1. /\ Consistent(Fail(d, r), left \ {r}, {})
        /\ SameSettings(d, Fail(d, r)) /\ SameLines(d, Fail(d, r))
        /\ Fail(d, r).phase[r] = "idle"
    BY FailConsistent
  <2>2. d.phase \in [Requests -> Phases]
    BY DEF Consistent, Answers
  <2>3. Calm(d, Fail(d, r)) /\ SameBook(d, Fail(d, r))
    BY <1>1, <2>2, FailFields
  <2> QED
    BY <1>3, <2>1, <2>3 DEF Requeues
<1>4. CASE e = g
  <2>1. Consistent(g, left \ {r}, {}) /\ SameSettings(d, g) /\ SameBook(d, g) /\ SameAnswers(d, g)
    BY EnqueuedConsistent
  <2> HIDE DEF e, g
  <2>2. Requeues(d, g)
    BY <2>1 DEF Requeues, SameAnswers, Calm
  <2> QED
    BY <1>4, <2>1, <2>2 DEF e
<1>5. d.cfg.mode # "enforce" \/ e = Fail(d, r) \/ e = g
  BY DEF Requeued
<1> QED
  BY <1>2, <1>3, <1>4, <1>5

(* The same of the requeueing, of nobody                                   *)
LEMMA RequeuesSelf == \A d : Requeues(d, d)
  BY DEF Requeues, SameSettings, SameBook, Calm

(* or of several.                                                          *)
LEMMA RequeuesTwice ==
    ASSUME NEW d, NEW e, NEW f, Requeues(d, e), Requeues(e, f) PROVE Requeues(d, f)
<1>1. SameSettings(d, f) /\ e.cfg = d.cfg
  BY DEF Requeues, SameSettings
<1> QED
  BY <1>1 DEF Requeues, SameBook, Calm

(* and with all of them.                                                   *)
LEMMA RequeueAll ==
    ASSUME NEW d, NEW s \in Seq(Requests), IsInjective(s), Consistent(d, ToSet(s), {})
    PROVE  LET e == FoldLeft(Requeued, d, s)
           IN  Consistent(e, {}, {}) /\ Requeues(d, e)
<1> DEFINE e == FoldLeft(Requeued, d, s)
           n == Len(s)
           Good(f, i) == Consistent(f, Rest(s, i), {}) /\ Requeues(d, f)
<1>1. Runs("requeue", 0, d, s, e)
  BY RequeueRuns
<1>2. PICK h : /\ h[0] = d
               /\ \A i \in 1..n : h[i] = Round("requeue", 0, h[i - 1], s[i])
               /\ e = h[n]
  BY <1>1 DEF Runs
<1>3. \A f, r : Round("requeue", 0, f, r) = Requeued(f, r)
  BY DEF Round
<1>4. /\ n \in Nat /\ Rest(s, 0) = ToSet(s) /\ Rest(s, n) = {}
      /\ \A i \in 1..n : s[i] \in Rest(s, i - 1) /\ Rest(s, i) = Rest(s, i - 1) \ {s[i]}
  BY RestOf
<1> DEFINE T == {i \in 0..n : Good(h[i], i)}
<1>5. Good(h[0], 0)
  BY <1>2, <1>4, RequeuesSelf
<1> HIDE DEF Good, n, e
<1>6. 0 \in T
  BY <1>4, <1>5
<1>7. ASSUME NEW i \in 1..n, i - 1 \in T PROVE i \in T
  <2> DEFINE f == h[i - 1]
             r == s[i]
             g == h[i]
             left == Rest(s, i - 1)
  <2>1. Good(f, i - 1) /\ g = Requeued(f, r) /\ r \in left /\ Rest(s, i) = left \ {r}
    BY <1>2, <1>3, <1>4, <1>7
  <2>2. Consistent(f, left, {}) /\ Requeues(d, f)
    BY <2>1 DEF Good
  <2> HIDE DEF f, r, g, left
  <2>3. Consistent(g, left \ {r}, {}) /\ Requeues(f, g)
    BY <2>1, <2>2, RequeuedConsistent
  <2>4. Good(g, i)
    BY <2>1, <2>2, <2>3, RequeuesTwice DEF Good
  <2> QED
    BY <2>4 DEF g
<1> HIDE DEF T
<1>8. \A i \in 0..n : i \in T
  BY <1>4, <1>6, <1>7, NumbersUpTo
<1>9. Good(e, n)
  BY <1>2, <1>4, <1>8 DEF T
<1> QED
  BY <1>4, <1>9 DEF Good, e

(* The lines are emptied, and the settings new.                            *)
LEMMA UnqueuedConsistent ==
    ASSUME NEW d, Consistent(d, {}, {}), NEW e, Record(e), Settings(e),
           e.queue = Empty, e.lane = [t \in Tenants |-> <<>>], e.lanes = <<>>, e.recent = <<>>,
           e.leases = d.leases, e.spent = d.spent, e.loaded \in BOOLEAN,
           SameShadow(d, e), SameAnswers(d, e)
    PROVE  Consistent(e, Waiters(d), {})
<1>1. WellFormed(e.queue, TenantKey) /\ Members(e.queue) = {}
  BY TenantsValid, EmptyWellFormed
<1>2. ToSet(<<>>) = {} /\ IsInjective(<<>>)
  BY DEF ToSet, IsInjective
<1>3. e.lane \in [Tenants -> Seq(Requests)] /\ \A t \in Tenants : e.lane[t] = <<>>
  OBVIOUS
<1>4. LaneOrder(e, {})
  BY <1>2, <1>3 DEF LaneOrder
<1>5. Lines(e, {})
  BY <1>1, <1>2, <1>3, <1>4 DEF Lines, LaneOf
<1>6. LaneWaiters(e) = {} /\ Waiters(e) = {}
  BY <1>1, <1>2, <1>3 DEF LaneWaiters, Waiters
<1>7. Waiters(e) \cup Waiters(d) = Waiters(d) \cup {} /\ Waiters(d) \cap Waiters(e) = {}
      /\ Members(e.queue) \cap LaneWaiters(e) = {}
  BY <1>1, <1>6
<1> DEFINE gone == Waiters(d)
<1> HIDE DEF gone
<1>8. Waiters(e) \cup gone = Waiters(d) \cup {} /\ gone \cap Waiters(e) = {}
  BY <1>7 DEF gone
<1>9. Consistent(e, gone, {})
  BY <1>5, <1>7, <1>8, LinesMoved
<1> QED
  BY <1>9 DEF gone

-----------------------------------------------------------------------------
(***************************************************************************)
(* The invariant between two calls, and what a call does to the leases.    *)
(***************************************************************************)
Whole(d) == Consistent(d, {}, {}) /\ Idle(d) /\ VirtualStuck(d)

Within(d, e) ==
    Enforcing(e) /\ ~(ToSet(e.leases) \subseteq ToSet(d.leases))
    => \/ e.spent <= e.limit
       \/ Len(e.leases) = 1 /\ e.spent <= e.cfg.max

(* The virtual queue does not notice that others are served,               *)
LEMMA VirtualServed ==
    ASSUME NEW d, NEW left, NEW open, Consistent(d, left, open), NEW e, NEW gone, NEW now,
           Consistent(e, gone, now), Serves(d, e), VirtualStuck(d)
    PROVE  VirtualStuck(e)
<1>1. e.vqueue = d.vqueue /\ VirtualRoom(e) = VirtualRoom(d) /\ Shrunk(d.arrived, e.arrived)
  BY DEF Serves, SameSettings, VirtualRoom
<1>2. VirtualRoom(d) \in Int
  BY VirtualFacts
<1> QED
  BY <1>1, <1>2, VirtualStuckStays

(* After dispatch the whole invariant holds.                               *)
LEMMA Dispatched ==
    ASSUME NEW d, Consistent(d, {}, {}), VirtualStuck(d)
    PROVE  LET e == Dispatch(d) IN Whole(e) /\ Serves(d, e)
<1> DEFINE e == Dispatch(d)
<1>1. Consistent(e, {}, {}) /\ Serves(d, e) /\ Idle(e)
  BY DispatchConsistent
<1> HIDE DEF e
<1>2. VirtualStuck(e)
  BY <1>1, VirtualServed
<1> QED
  BY <1>1, <1>2 DEF Whole, e

(* nor the shared queue the virtual account.                               *)
LEMMA StuckPromoted ==
    ASSUME NEW d, Consistent(d, {}, {}), NEW e, Consistent(e, {}, {}), Promotes(d, e), Idle(d)
    PROVE  Idle(e)
<1>1. /\ e.queue = d.queue /\ Room(e) = Room(d) /\ Shrunk(d.arrived, e.arrived)
      /\ Enforcing(e) = Enforcing(d)
  BY DEF Promotes, SameSettings, SameLines, SameBook, Room, Enforcing
<1>2. Room(d) \in Int
  BY QueueFinite
<1> QED
  BY <1>1, <1>2, StuckStays DEF Idle

(* After dispatchVirtual the whole invariant holds.                        *)
LEMMA Promoted ==
    ASSUME NEW d, Consistent(d, {}, {}), Idle(d)
    PROVE  LET e == DispatchVirtual(d) IN Whole(e) /\ Promotes(d, e)
<1> DEFINE e == DispatchVirtual(d)
<1>1. Consistent(e, {}, {}) /\ Promotes(d, e) /\ VirtualStuck(e)
  BY DispatchVirtualConsistent
<1> HIDE DEF e
<1>2. Idle(e)
  BY <1>1, StuckPromoted
<1> QED
  BY <1>1, <1>2 DEF Whole, e

(* A call that ends with a dispatch.                                       *)
LEMMA WithinServed ==
    ASSUME NEW b, NEW d, ToSet(d.leases) \subseteq ToSet(b.leases), NEW e, Serves(d, e)
    PROVE  Within(b, e)
  BY DEF Within, Serves

-----------------------------------------------------------------------------
(* The constructor.                                                        *)
LEMMA FreshWhole ==
    ASSUME NEW f \in FirstConfigs PROVE Whole(Fresh(f))
<1> DEFINE e == Fresh(f)
<1>1. f \in Configs \cup FirstConfigs /\ Clamp(f.initial, f) \in f.min..f.max
  BY ConfigIs
<1>2. /\ e.cfg = f /\ e.shut = FALSE /\ e.limit = Clamp(f.initial, f)
      /\ e.ceiling = Clamp(f.initial, f) /\ e.pressure = 1 /\ e.consumed = FALSE
      /\ e.frozen = FALSE /\ e.completed = FALSE
  BY DEF Fresh
<1>3. /\ e.loaded = FALSE /\ e.leases = <<>> /\ e.spent = 0 /\ e.queue = Empty
      /\ e.arrived = <<>> /\ e.due = {} /\ e.lane = [t \in Tenants |-> <<>>]
      /\ e.lanes = <<>> /\ e.recent = <<>>
  BY DEF Fresh
<1>4. /\ e.disp = [r \in Requests |-> "none"] /\ e.vqueue = Empty /\ e.vcost = 0
      /\ e.phase = [r \in Requests |-> "idle"] /\ Record(e)
  BY DEF Fresh, Record, Names
<1> HIDE DEF e
<1>5. Settings(e)
  <2>1. e.cfg \in Configs \cup FirstConfigs
    BY <1>1, <1>2
  <2>2. e.limit \in e.cfg.min..e.cfg.max /\ e.ceiling \in e.cfg.min..e.cfg.max
    BY <1>1, <1>2
  <2>3. e.pressure \in 1..3
    BY <1>2
  <2>4. e.shut \in BOOLEAN /\ e.consumed \in BOOLEAN /\ e.frozen \in BOOLEAN /\ e.completed \in BOOLEAN
    BY <1>2
  <2> QED
    BY <2>1, <2>2, <2>3, <2>4 DEF Settings
<1>6. ToSet(<<>>) = {} /\ IsInjective(<<>>)
  BY DEF ToSet, IsInjective
<1>7. WellFormed(Empty, TenantKey) /\ Members(Empty) = {} /\ TenantKey \in [Requests -> Tenants]
  BY TenantsValid, EmptyWellFormed
<1>8. e.lane \in [Tenants -> Seq(Requests)] /\ \A t \in Tenants : e.lane[t] = <<>>
  BY <1>3
<1>9. LaneOrder(e, {})
  BY <1>3, <1>6, <1>8 DEF LaneOrder
<1>10. Lines(e, {})
  BY <1>3, <1>6, <1>7, <1>8, <1>9 DEF Lines, LaneOf
<1>11. TotalCost({}) = 0
  BY CostNat, FS_EmptySet
<1>12. Book(e)
  <2>1. e.leases \in Seq(Requests) /\ IsInjective(e.leases)
    BY <1>3, <1>6
  <2>2. e.spent = TotalCost(ToSet(e.leases))
    BY <1>3, <1>6, <1>11
  <2>3. e.loaded \in BOOLEAN
    BY <1>3
  <2> QED
    BY <2>1, <2>2, <2>3 DEF Book
<1>13. Disposed(e, "queued") = {} /\ Disposed(e, "active") = {}
  BY <1>4 DEF Disposed
<1>14. Shadow(e)
  BY <1>4, <1>7, <1>11, <1>13 DEF Shadow, Dispositions
<1>15. LaneWaiters(e) = {} /\ Waiters(e) = {} /\ Members(e.queue) = {}
  BY <1>3, <1>6, <1>7, <1>8 DEF LaneWaiters, Waiters
<1>16. Answers(e, {})
  BY <1>3, <1>4, <1>6, <1>15 DEF Answers, Phases
<1>17. Times(e, {})
  BY <1>3, <1>4, <1>6, <1>7, <1>15 DEF Times
<1>18. Consistent(e, {}, {})
  BY <1>4, <1>5, <1>10, <1>12, <1>14, <1>16, <1>17 DEF Consistent
<1>19. Stuck(e) /\ VirtualStuck(e)
  BY <1>3, <1>4, <1>7, NobodyNoTurn DEF Stuck, VirtualStuck
<1> QED
  BY <1>18, <1>19 DEF Whole, Idle, e

(* shutdown.                                                               *)
LEMMA ShutdownWhole ==
    ASSUME NEW d, Whole(d)
    PROVE  LET e == FoldLeft(Fail, [Unqueued(d) EXCEPT !.shut = TRUE], Line(d))
           IN  Whole(e) /\ Within(d, e) /\ Calm(d, e)
<1> DEFINE b == [Unqueued(d) EXCEPT !.shut = TRUE]
           s == Line(d)
           e == FoldLeft(Fail, b, s)
<1>1. Consistent(d, {}, {}) /\ Record(d) /\ VirtualStuck(d)
  BY DEF Whole, Consistent
<1>2. s \in Seq(Requests) /\ IsInjective(s) /\ ToSet(s) = Waiters(d)
  BY <1>1, LineIs
<1> HIDE DEF s
<1>3. /\ b.shut = TRUE /\ b.cfg = d.cfg /\ b.limit = d.limit /\ b.ceiling = d.ceiling
      /\ b.pressure = d.pressure /\ b.consumed = d.consumed /\ b.frozen = d.frozen
      /\ b.completed = d.completed
  BY <1>1 DEF Unqueued, Record, Names
<1>4. Record(b) /\ SameBook(d, b) /\ SameShadow(d, b) /\ SameAnswers(d, b)
  BY <1>1 DEF Unqueued, Record, Names, SameBook, SameShadow, SameAnswers
<1>5. /\ b.queue = Empty /\ b.lane = [t \in Tenants |-> <<>>]
      /\ b.lanes = <<>> /\ b.recent = <<>>
  BY <1>1 DEF Unqueued, Record, Names
<1> HIDE DEF b
<1>6. Settings(b)
  BY <1>1, <1>3 DEF Consistent, Settings
<1>7. b.leases = d.leases /\ b.spent = d.spent /\ b.loaded \in BOOLEAN
  BY <1>1, <1>4 DEF SameBook, Consistent, Book
<1>8. Consistent(b, Waiters(d), {})
  BY <1>1, <1>4, <1>5, <1>6, <1>7, UnqueuedConsistent
<1>9. Consistent(b, {} \cup ToSet(s), {})
  <2>1. {} \cup ToSet(s) = Waiters(d)
    BY <1>2
  <2> QED
    BY <1>8, <2>1
<1>10. Consistent(e, {}, {}) /\ Serves(b, e) /\ SameBook(b, e)
  <2>1. {} \cap ToSet(s) = {}
    OBVIOUS
  <2> QED
    BY <1>2, <1>9, <2>1, FailAll
<1> HIDE DEF e
<1>11. ~Enforcing(e)
  BY <1>3, <1>10 DEF Serves, SameSettings, Enforcing
<1>12. VirtualStuck(e)
  <2>1. e.vqueue = d.vqueue /\ VirtualRoom(e) = VirtualRoom(d) /\ Shrunk(d.arrived, e.arrived)
    BY <1>3, <1>4, <1>10 DEF Serves, SameSettings, SameShadow, SameAnswers, VirtualRoom
  <2>2. VirtualRoom(d) \in Int
    BY <1>1, VirtualFacts
  <2> QED
    BY <1>1, <1>10, <2>1, <2>2, VirtualStuckStays
<1>13. Calm(d, e)
  BY <1>4, <1>10 DEF Serves, SameAnswers, Calm
<1> QED
  BY <1>10, <1>11, <1>12, <1>13 DEF Whole, Idle, Within, e, b, s

(* updateConfig.                                                           *)
LEMMA UpdateConfigWhole ==
    ASSUME NEW d, Whole(d), NEW f \in Configs
    PROVE  LET b == [Unqueued(d) EXCEPT
                       !.cfg = f, !.limit = Clamp(@, f), !.ceiling = Clamp(f.initial, f),
                       !.pressure = 1, !.consumed = FALSE, !.frozen = FALSE,
                       !.completed = FALSE, !.loaded = d.leases # <<>>]
               e == Dispatch(Rebuilt(FoldLeft(Requeued, b, Line(d))))
           IN  Whole(e) /\ Within(d, e) /\ Calm(d, e)
<1> DEFINE b == [Unqueued(d) EXCEPT
                   !.cfg = f, !.limit = Clamp(@, f), !.ceiling = Clamp(f.initial, f),
                   !.pressure = 1, !.consumed = FALSE, !.frozen = FALSE,
                   !.completed = FALSE, !.loaded = d.leases # <<>>]
           s == Line(d)
           g == FoldLeft(Requeued, b, s)
           h == Rebuilt(g)
           e == Dispatch(h)
<1>1. Consistent(d, {}, {}) /\ Record(d)
  BY DEF Whole, Consistent
<1>2. s \in Seq(Requests) /\ IsInjective(s) /\ ToSet(s) = Waiters(d)
  BY <1>1, LineIs
<1> HIDE DEF s
<1>3. /\ b.shut = d.shut /\ b.cfg = f /\ b.limit = Clamp(d.limit, f)
      /\ b.ceiling = Clamp(f.initial, f)
      /\ b.pressure = 1 /\ b.consumed = FALSE /\ b.frozen = FALSE
      /\ b.completed = FALSE
  BY <1>1 DEF Unqueued, Record, Names
<1>4. /\ Record(b) /\ b.leases = d.leases /\ b.spent = d.spent /\ b.loaded \in BOOLEAN
      /\ SameShadow(d, b) /\ SameAnswers(d, b)
  <2> DEFINE some == d.leases # <<>>
  <2>1. some \in BOOLEAN
    OBVIOUS
  <2> HIDE DEF some
  <2>2. Record(b) /\ b.leases = d.leases /\ b.spent = d.spent /\ b.loaded = some
    BY <1>1, ZenonT(60) DEF Unqueued, Record, Names, some
  <2>3. SameShadow(d, b) /\ SameAnswers(d, b)
    BY <1>1 DEF Unqueued, Record, Names, SameShadow, SameAnswers
  <2> QED
    BY <2>1, <2>2, <2>3
<1>5. /\ b.queue = Empty /\ b.lane = [t \in Tenants |-> <<>>]
      /\ b.lanes = <<>> /\ b.recent = <<>>
  BY <1>1 DEF Unqueued, Record, Names
<1> HIDE DEF b
<1>6. Settings(b)
  <2>1. d.limit \in Int /\ d.shut \in BOOLEAN
    BY <1>1, QueueFinite DEF Consistent, Settings
  <2>2. f.initial \in Int /\ f \in Configs \cup FirstConfigs
    BY ConfigIs
  <2>3. Clamp(d.limit, f) \in f.min..f.max /\ Clamp(f.initial, f) \in f.min..f.max
    BY <2>1, <2>2, ConfigIs
  <2>4. b.limit \in b.cfg.min..b.cfg.max /\ b.ceiling \in b.cfg.min..b.cfg.max
    BY <2>3, <1>3
  <2>5. b.pressure \in 1..3
    BY <1>3
  <2>6. b.shut \in BOOLEAN /\ b.consumed \in BOOLEAN /\ b.frozen \in BOOLEAN /\ b.completed \in BOOLEAN
    BY <2>1, <1>3
  <2>7. b.cfg \in Configs \cup FirstConfigs
    BY <2>2, <1>3
  <2> QED
    BY <2>4, <2>5, <2>6, <2>7 DEF Settings
<1>7. Consistent(b, ToSet(s), {})
  <2>1. Consistent(b, Waiters(d), {})
    BY <1>1, <1>4, <1>5, <1>6, UnqueuedConsistent
  <2> QED
    BY <2>1, <1>2
<1>8. Consistent(g, {}, {}) /\ Requeues(b, g)
  BY <1>2, <1>7, RequeueAll
<1> HIDE DEF g
<1>9. Consistent(h, {}, {}) /\ SameButShadow(g, h) /\ VirtualStuck(h)
  BY <1>8, RebuiltConsistent
<1> HIDE DEF h
<1>10. Whole(e) /\ Serves(h, e)
  BY <1>9, Dispatched
<1> HIDE DEF e
<1>11. Within(d, e)
  <2>1. SUFFICES ASSUME Enforcing(e) PROVE Within(d, e)
    BY DEF Within
  <2>2. b.cfg.mode = "enforce"
    BY <2>1, <1>8, <1>9, <1>10 DEF Requeues, SameButShadow, Serves, SameSettings, Enforcing
  <2>3. h.leases = d.leases
    BY <2>2, <1>4, <1>8, <1>9 DEF Requeues, SameButShadow, SameBook
  <2> QED
    BY <2>3, <1>10, WithinServed
<1>12. Calm(d, e)
  BY <1>4, <1>8, <1>9, <1>10 DEF Requeues, SameButShadow, Serves, SameAnswers, Calm
<1> QED
  BY <1>10, <1>11, <1>12 DEF e, h, g, b, s

-----------------------------------------------------------------------------
(* Lanes are evicted: nobody else notices.                                 *)
LEMMA LaneTimerWhole ==
    ASSUME NEW d, Whole(d), NEW n \in 0..Len(d.recent)
    PROVE  LET e == LanesEvicted(d, n)
           IN  /\ Whole(e) /\ Serves(d, e) /\ Within(d, e) /\ e.leases = d.leases
<1> DEFINE e == LanesEvicted(d, n)
<1>1. Consistent(d, {}, {}) /\ VirtualStuck(d) /\ Idle(d)
  BY DEF Whole
<1>2. Consistent(e, {}, {}) /\ Serves(d, e) /\ SameBook(d, e) /\ e.queue = d.queue
  BY <1>1, LanesEvictedConsistent
<1> HIDE DEF e
<1>3. /\ Room(e) = Room(d) /\ Shrunk(d.arrived, e.arrived) /\ Enforcing(e) = Enforcing(d)
      /\ e.leases = d.leases
  BY <1>2 DEF Serves, SameSettings, SameBook, Room, Enforcing
<1>4. Room(d) \in Int
  BY <1>1, QueueFinite
<1>5. Idle(e)
  BY <1>1, <1>2, <1>3, <1>4, StuckStays DEF Idle
<1>6. VirtualStuck(e)
  BY <1>1, <1>2, VirtualServed
<1>7. Within(d, e)
  BY <1>3 DEF Within
<1> QED
  BY <1>2, <1>3, <1>5, <1>6, <1>7 DEF Whole, e

(* tick.                                                                   *)
LEMMA TickWhole ==
    ASSUME NEW d, Whole(d), NEW n \in 0..Len(d.recent), NEW util, NEW steep
    PROVE  LET e == DispatchVirtual(Dispatch(WindowClosed(LanesEvicted(d, n), util, steep)))
           IN  Whole(e) /\ Within(d, e) /\ Calm(d, e)
<1> DEFINE a == LanesEvicted(d, n)
           b == WindowClosed(a, util, steep)
           g == Dispatch(b)
           e == DispatchVirtual(g)
<1>1. Whole(a) /\ Serves(d, a) /\ a.leases = d.leases
  BY LaneTimerWhole
<1> HIDE DEF a
<1>2. /\ Consistent(b, {}, {}) /\ SameLines(a, b) /\ SameShadow(a, b) /\ SameAnswers(a, b)
      /\ b.leases = a.leases /\ b.cfg = a.cfg /\ b.shut = a.shut
  BY <1>1, WindowClosedConsistent DEF Whole
<1> HIDE DEF b
<1>3. Consistent(g, {}, {}) /\ Serves(b, g) /\ Idle(g)
  BY <1>2, DispatchConsistent
<1> HIDE DEF g
<1>4. Whole(e) /\ Promotes(g, e)
  BY <1>3, Promoted
<1> HIDE DEF e
<1>5. Within(d, g)
  BY <1>1, <1>2, <1>3, WithinServed
<1>6. Within(d, e)
  BY <1>4, <1>5 DEF Promotes, SameSettings, SameBook, Within, Enforcing
<1>7. Calm(d, e)
  BY <1>1, <1>2, <1>3, <1>4 DEF Serves, SameAnswers, Promotes, Calm
<1> QED
  BY <1>4, <1>6, <1>7 DEF e, g, b, a

(* observePressure.                                                        *)
LEMMA PressureObserved ==
    ASSUME NEW d, Whole(d), NEW p \in 1..3
    PROVE  LET e == [d EXCEPT !.pressure = Max({@, p})]
           IN  Whole(e) /\ Within(d, e) /\ Calm(d, e)
<1> DEFINE e == [d EXCEPT !.pressure = Max({@, p})]
<1>1. Consistent(d, {}, {}) /\ VirtualStuck(d) /\ Idle(d) /\ Record(d)
  BY DEF Whole, Consistent
<1>2. Max({d.pressure, p}) \in 1..3
  <2>1. d.pressure \in Int /\ p \in Int /\ d.pressure \in 1..3
    BY <1>1 DEF Consistent, Settings
  <2> QED
    BY <2>1, OfTwo
<1>3. /\ Record(e) /\ e.cfg = d.cfg /\ e.shut = d.shut /\ e.limit = d.limit /\ e.ceiling = d.ceiling
      /\ e.consumed = d.consumed /\ e.frozen = d.frozen /\ e.completed = d.completed
      /\ e.pressure = Max({d.pressure, p})
  BY <1>1 DEF Record, Names
<1>4. SameLines(d, e) /\ SameBook(d, e) /\ SameShadow(d, e) /\ SameAnswers(d, e)
  BY <1>1 DEF Record, Names, SameLines, SameBook, SameShadow, SameAnswers
<1> HIDE DEF e
<1>5. e.pressure \in 1..3
  BY <1>2, <1>3
<1>6. Settings(e)
  BY <1>1, <1>3, <1>5 DEF Consistent, Settings
<1>7. Consistent(e, {}, {})
  <2>1. e.leases = d.leases /\ e.spent = d.spent /\ e.loaded \in BOOLEAN
    BY <1>1, <1>4 DEF SameBook, Consistent, Book
  <2> QED
    BY <2>1, <1>1, <1>3, <1>4, <1>6, SettingsChanged
<1>8. Idle(e)
  BY <1>1, <1>3, <1>4 DEF Idle, Enforcing, Stuck, Room, SameLines, SameBook, SameAnswers
<1>9. VirtualStuck(e)
  BY <1>1, <1>3, <1>4 DEF VirtualStuck, VirtualRoom, SameShadow, SameAnswers
<1>10. Within(d, e) /\ Calm(d, e)
  BY <1>4 DEF Within, Calm, SameBook, SameAnswers
<1> QED
  BY <1>7, <1>8, <1>9, <1>10 DEF Whole, e

(* observePressure, when the pressure is critical.                         *)
LEMMA LimitCollapses ==
    ASSUME NEW d, Whole(d)
    PROVE  LET e == DispatchVirtual(Dispatch(
                       [d EXCEPT !.limit = Max({d.cfg.min, CriticallyDecreased(@)}),
                                 !.consumed = TRUE]))
           IN  Whole(e) /\ Within(d, e) /\ Calm(d, e)
<1> DEFINE low == Max({d.cfg.min, CriticallyDecreased(d.limit)})
           b == [d EXCEPT !.limit = Max({d.cfg.min, CriticallyDecreased(@)}), !.consumed = TRUE]
           g == Dispatch(b)
           e == DispatchVirtual(g)
<1>1. Consistent(d, {}, {}) /\ Record(d)
  BY DEF Whole, Consistent
<1>2. low \in d.cfg.min..d.cfg.max
  <2>1. /\ d.cfg.min \in Nat /\ d.cfg.max \in Nat /\ d.cfg.min <= d.cfg.max
    BY <1>1, ConfigIs DEF Consistent, Settings
  <2>2. d.limit \in d.cfg.min..d.cfg.max
    BY <1>1 DEF Consistent, Settings
  <2> DEFINE half == CriticallyDecreased(d.limit)
  <2>3. half \in Int /\ half <= d.limit
    BY <2>1, <2>2 DEF CriticallyDecreased
  <2> HIDE DEF half
  <2> DEFINE least == d.cfg.min
             m == Max({least, half})
  <2>4. least \in Int
    BY <2>1
  <2> HIDE DEF least
  <2>5. m \in Int /\ m >= least /\ m \in {least, half}
    BY <2>3, <2>4, OfTwo
  <2> HIDE DEF m
  <2>6. m \in d.cfg.min..d.cfg.max
    BY <2>1, <2>2, <2>3, <2>5 DEF least
  <2> QED
    BY <2>6 DEF m, least, half
<1> HIDE DEF low
<1>3. /\ Record(b) /\ b.cfg = d.cfg /\ b.shut = d.shut /\ b.limit = low /\ b.ceiling = d.ceiling
      /\ b.pressure = d.pressure /\ b.consumed = TRUE /\ b.frozen = d.frozen
      /\ b.completed = d.completed
  BY <1>1 DEF Record, Names, low
<1>4. SameLines(d, b) /\ SameBook(d, b) /\ SameShadow(d, b) /\ SameAnswers(d, b)
  BY <1>1 DEF Record, Names, SameLines, SameBook, SameShadow, SameAnswers
<1> HIDE DEF b
<1>5. Settings(b)
  <2>1. b.limit \in b.cfg.min..b.cfg.max
    BY <1>2, <1>3
  <2>2. b.consumed \in BOOLEAN
    BY <1>3
  <2> QED
    BY <2>1, <2>2, <1>1, <1>3 DEF Consistent, Settings
<1>6. Consistent(b, {}, {})
  <2>1. b.leases = d.leases /\ b.spent = d.spent /\ b.loaded \in BOOLEAN
    BY <1>1, <1>4 DEF SameBook, Consistent, Book
  <2> QED
    BY <2>1, <1>1, <1>3, <1>4, <1>5, SettingsChanged
<1>7. Consistent(g, {}, {}) /\ Serves(b, g) /\ Idle(g)
  BY <1>6, DispatchConsistent
<1> HIDE DEF g
<1>8. Whole(e) /\ Promotes(g, e)
  BY <1>7, Promoted
<1> HIDE DEF e
<1>9. Within(d, g)
  BY <1>4, <1>7, WithinServed DEF SameBook
<1>10. Within(d, e)
  BY <1>8, <1>9 DEF Promotes, SameSettings, SameBook, Within, Enforcing
<1>11. Calm(d, e)
  BY <1>4, <1>7, <1>8 DEF Serves, SameAnswers, Promotes, Calm
<1> QED
  BY <1>8, <1>10, <1>11 DEF e, g, b

(* The deadline of somebody who waits passes.                              *)
LEMMA DeadlineWhole ==
    ASSUME NEW d, Whole(d), NEW r \in Waiters(d)
    PROVE  LET e == [d EXCEPT !.due = @ \union {r}]
           IN  Whole(e) /\ Within(d, e) /\ Calm(d, e)
<1> DEFINE S == d.due \cup {r}
           e == [d EXCEPT !.due = @ \union {r}]
<1>1. Consistent(d, {}, {}) /\ Record(d) /\ d.due \subseteq Waiters(d) \cup {}
  BY DEF Whole, Consistent, Answers
<1>2. S \in SUBSET (Waiters(d) \cup {})
  BY <1>1
<1>3. e = [d EXCEPT !.due = S] /\ d.due \subseteq e.due /\ r \in e.due
  BY <1>1 DEF Record, Names
<1> HIDE DEF S
<1>4. Consistent(e, {}, {})
  BY <1>1, <1>2, <1>3, DueConsistent
<1>5. SameSettings(d, e) /\ SameLines(d, e) /\ SameBook(d, e) /\ SameShadow(d, e)
      /\ e.arrived = d.arrived /\ e.phase = d.phase
  BY <1>1 DEF Record, Names, SameSettings, SameLines, SameBook, SameShadow
<1> HIDE DEF e
<1>6. Idle(e)
  BY <1>5 DEF Whole, Idle, Enforcing, Stuck, Room, SameSettings, SameLines, SameBook
<1>7. VirtualStuck(e)
  BY <1>5 DEF Whole, VirtualStuck, VirtualRoom, SameSettings, SameShadow
<1>8. Within(d, e) /\ Calm(d, e)
  BY <1>3, <1>5 DEF Within, Calm, SameBook
<1> QED
  BY <1>4, <1>6, <1>7, <1>8 DEF Whole, e

-----------------------------------------------------------------------------
(* A lease that is in no account any more goes back.                       *)
Returned(d, r, bad) ==
    [d EXCEPT !.leases = Without(@, r), !.spent = @ - Cost[r],
              !.completed = TRUE, !.frozen = @ \/ bad, !.phase[r] = "idle"]

(* releaseLease, of a lease that has no disposition.                       *)
LEMMA LeaseReturned ==
    ASSUME NEW d, Consistent(d, {}, {}), NEW r \in ToSet(d.leases), d.disp[r] = "none",
           NEW bad \in BOOLEAN
    PROVE  LET e == Returned(d, r, bad)
           IN  /\ Consistent(e, {}, {}) /\ Calm(d, e) /\ e.queue = d.queue
               /\ ToSet(e.leases) = ToSet(d.leases) \ {r}
<1> DEFINE e == Returned(d, r, bad)
           froze == d.frozen \/ bad
<1>1. /\ Record(d) /\ Book(d) /\ Shadow(d) /\ Answers(d, {}) /\ Settings(d)
      /\ d.phase \in [Requests -> Phases]
  BY DEF Consistent, Answers
<1>2. r \in Requests /\ IsFiniteSet(ToSet(d.leases)) /\ ToSet(d.leases) \in SUBSET Requests
  BY <1>1, ElementsFinite DEF Book
<1>3. froze \in BOOLEAN
  OBVIOUS
<1> HIDE DEF froze
<1>4. /\ Record(e) /\ e.leases = Without(d.leases, r) /\ e.spent = d.spent - Cost[r]
      /\ e.completed = TRUE /\ e.frozen = froze /\ e.phase = [d.phase EXCEPT ![r] = "idle"]
  BY <1>1 DEF Record, Names, Returned, froze
<1>5. /\ e.cfg = d.cfg /\ e.shut = d.shut /\ e.limit = d.limit /\ e.ceiling = d.ceiling
      /\ e.pressure = d.pressure /\ e.consumed = d.consumed /\ e.loaded = d.loaded
  BY <1>1 DEF Record, Names, Returned
<1>6. SameLines(d, e) /\ SameShadow(d, e) /\ e.arrived = d.arrived /\ e.due = d.due
  BY <1>1 DEF Record, Names, Returned, SameLines, SameShadow
<1> HIDE DEF e
<1>7. /\ e.leases \in Seq(Requests) /\ IsInjective(e.leases)
      /\ ToSet(e.leases) = ToSet(d.leases) \ {r}
  BY <1>1, <1>4, RemoveFirstElements DEF Book, Without
<1>8. Settings(e)
  <2>1. e.completed \in BOOLEAN /\ e.frozen \in BOOLEAN
    BY <1>3, <1>4
  <2> QED
    BY <2>1, <1>1, <1>5 DEF Settings
<1>9. Book(e)
  <2>1. TotalCost(ToSet(d.leases) \ {r}) = TotalCost(ToSet(d.leases)) - Cost[r]
    BY <1>2, CostWithout
  <2>2. e.spent = TotalCost(ToSet(e.leases))
    BY <2>1, <1>1, <1>4, <1>7 DEF Book
  <2> QED
    BY <2>2, <1>1, <1>5, <1>7 DEF Book
<1>10. Shadow(e) /\ Members(e.vqueue) = Members(d.vqueue)
  BY <1>1, <1>6, <1>7 DEF Shadow, SameShadow, Disposed
<1>11. Lines(e, {}) /\ Waiters(e) = Waiters(d) /\ LaneWaiters(e) = LaneWaiters(d)
       /\ Members(e.queue) = Members(d.queue) /\ e.queue = d.queue
  BY <1>5, <1>6, SamePartsKept DEF Consistent, SameLines
<1>12. r \notin Waiters(d)
  BY <1>1, <1>2 DEF Answers
<1>13. e.phase \in [Requests -> Phases] /\ Calm(d, e)
  BY <1>1, <1>4, <1>6 DEF Phases, Calm
<1>14. Answers(e, {})
  <2>1. \A s \in Requests : s # r => e.phase[s] = d.phase[s]
    BY <1>1, <1>4
  <2>2. e.phase[r] = "idle"
    BY <1>1, <1>2, <1>4
  <2> QED
    BY <2>1, <2>2, <1>1, <1>6, <1>7, <1>11, <1>12, <1>13 DEF Answers
<1>15. Times(e, {})
  BY <1>6, <1>10, <1>11 DEF Consistent, Times
<1> QED
  BY <1>4, <1>7, <1>8, <1>9, <1>10, <1>11, <1>13, <1>14, <1>15 DEF Consistent, e

(* Forgetting and returning a lease commute.                               *)
LEMMA UpdatesCommute ==
    ASSUME NEW d, Record(d), NEW leases, NEW spent, NEW frozen, NEW phase,
           NEW vqueue, NEW vcost, NEW times, NEW disp
    PROVE  LET e == [d EXCEPT !.vqueue = vqueue, !.vcost = vcost, !.arrived = times, !.disp = disp]
           IN  [[d EXCEPT !.leases = leases, !.spent = spent, !.completed = TRUE,
                          !.frozen = frozen, !.phase = phase]
                  EXCEPT !.vqueue = vqueue, !.vcost = vcost, !.arrived = times, !.disp = disp]
               = [e EXCEPT !.leases = leases, !.spent = spent, !.completed = TRUE,
                           !.frozen = frozen, !.phase = phase]
  BY DEF Record, Names

(* Forgotten, field by field.                                              *)
LEMMA ForgottenIs ==
    ASSUME NEW d, Record(d), NEW r
    PROVE  Forgotten(d, r) =
             [d EXCEPT !.vqueue = IF d.disp[r] = "queued" THEN Removed(d.vqueue, r) ELSE d.vqueue,
                       !.vcost = IF d.disp[r] = "active" THEN d.vcost - Cost[r] ELSE d.vcost,
                       !.arrived = IF d.disp[r] = "queued" THEN Without(d.arrived, r) ELSE d.arrived,
                       !.disp = [d.disp EXCEPT ![r] = "none"]]
<1>1. CASE d.disp[r] = "active"
  BY <1>1 DEF Forgotten, Record, Names
<1>2. CASE d.disp[r] = "queued"
  BY <1>2 DEF Forgotten, Record, Names
<1>3. CASE d.disp[r] \notin {"active", "queued"}
  BY <1>3 DEF Forgotten, Record, Names
<1> QED
  BY <1>1, <1>2, <1>3

(* The two halves of a release commute.                                    *)
LEMMA ForgottenReturned ==
    ASSUME NEW d, Record(d), NEW r, NEW bad
    PROVE  Forgotten(Returned(d, r, bad), r) = Returned(Forgotten(d, r), r, bad)
<1> DEFINE vqueue == IF d.disp[r] = "queued" THEN Removed(d.vqueue, r) ELSE d.vqueue
           vcost == IF d.disp[r] = "active" THEN d.vcost - Cost[r] ELSE d.vcost
           times == IF d.disp[r] = "queued" THEN Without(d.arrived, r) ELSE d.arrived
           disp == [d.disp EXCEPT ![r] = "none"]
           leases == Without(d.leases, r)
           spent == d.spent - Cost[r]
           frozen == d.frozen \/ bad
           phase == [d.phase EXCEPT ![r] = "idle"]
           e == [d EXCEPT !.vqueue = vqueue, !.vcost = vcost, !.arrived = times, !.disp = disp]
           g == [d EXCEPT !.leases = leases, !.spent = spent, !.completed = TRUE,
                          !.frozen = frozen, !.phase = phase]
<1>1. Forgotten(d, r) = e
  BY ForgottenIs
<1>2. Returned(d, r, bad) = g
  BY DEF Returned
<1>3. Record(g) /\ g.disp = d.disp /\ g.vqueue = d.vqueue /\ g.vcost = d.vcost /\ g.arrived = d.arrived
  <2> HIDE DEF leases, spent, frozen, phase
  <2> QED
    BY DEF Record, Names
<1>4. Forgotten(g, r) = [g EXCEPT !.vqueue = vqueue, !.vcost = vcost, !.arrived = times, !.disp = disp]
  <2> DEFINE q == IF g.disp[r] = "queued" THEN Removed(g.vqueue, r) ELSE g.vqueue
             n == IF g.disp[r] = "active" THEN g.vcost - Cost[r] ELSE g.vcost
             a == IF g.disp[r] = "queued" THEN Without(g.arrived, r) ELSE g.arrived
             p == [g.disp EXCEPT ![r] = "none"]
  <2> HIDE DEF g
  <2>1. Forgotten(g, r) = [g EXCEPT !.vqueue = q, !.vcost = n, !.arrived = a, !.disp = p]
    BY <1>3, ForgottenIs, ZenonT(60)
  <2>2. q = vqueue /\ n = vcost /\ a = times /\ p = disp
    BY <1>3
  <2> HIDE DEF q, n, a, p, vqueue, vcost, times, disp
  <2> QED
    BY <2>1, <2>2
<1>5. /\ e.leases = d.leases /\ e.spent = d.spent /\ e.frozen = d.frozen /\ e.phase = d.phase
  <2> HIDE DEF vqueue, vcost, times, disp
  <2> QED
    BY DEF Record, Names
<1>6. Returned(e, r, bad) = [e EXCEPT !.leases = leases, !.spent = spent, !.completed = TRUE,
                                      !.frozen = frozen, !.phase = phase]
  <2> HIDE DEF e
  <2> QED
    BY <1>5 DEF Returned
<1> HIDE DEF vqueue, vcost, times, disp, leases, spent, frozen, phase
<1>7. [g EXCEPT !.vqueue = vqueue, !.vcost = vcost, !.arrived = times, !.disp = disp]
      = [e EXCEPT !.leases = leases, !.spent = spent, !.completed = TRUE,
                  !.frozen = frozen, !.phase = phase]
  BY UpdatesCommute
<1> HIDE DEF e, g
<1> QED
  BY <1>1, <1>2, <1>4, <1>6, <1>7

(* releaseLease.                                                           *)
LEMMA ReleaseWhole ==
    ASSUME NEW d, Whole(d), NEW r \in ToSet(d.leases), NEW bad \in BOOLEAN
    PROVE  LET e == Dispatch(VirtualReleased(Returned(d, r, bad), r))
           IN  Whole(e) /\ Within(d, e) /\ Calm(d, e)
<1> DEFINE k == Forgotten(d, r)
           g == Returned(k, r, bad)
           h == DispatchVirtual(g)
           e == Dispatch(h)
<1>1. Consistent(d, {}, {}) /\ Record(d)
  BY DEF Whole, Consistent
<1>2. Consistent(k, {}, {}) /\ Promotes(d, k) /\ k.disp[r] = "none"
  BY <1>1, ForgottenConsistent
<1>3. VirtualReleased(Returned(d, r, bad), r) = h
  BY <1>1, ForgottenReturned DEF VirtualReleased
<1> HIDE DEF k
<1>4. k.leases = d.leases /\ k.phase = d.phase /\ k.due = d.due
  BY <1>2 DEF Promotes, SameBook
<1>5. /\ Consistent(g, {}, {}) /\ Calm(k, g)
      /\ ToSet(g.leases) = ToSet(d.leases) \ {r}
  <2>1. r \in ToSet(k.leases)
    BY <1>4
  <2>2. /\ Consistent(g, {}, {}) /\ Calm(k, g)
        /\ ToSet(g.leases) = ToSet(k.leases) \ {r}
    BY <2>1, <1>2, LeaseReturned
  <2> QED
    BY <2>2, <1>4
<1> HIDE DEF g
<1>6. Consistent(h, {}, {}) /\ Promotes(g, h) /\ VirtualStuck(h)
  BY <1>5, DispatchVirtualConsistent
<1> HIDE DEF h
<1>7. Whole(e) /\ Serves(h, e)
  BY <1>6, Dispatched
<1> HIDE DEF e
<1>8. ToSet(h.leases) \subseteq ToSet(d.leases)
  BY <1>5, <1>6 DEF Promotes, SameBook
<1>9. Within(d, e)
  BY <1>7, <1>8, WithinServed
<1>10. Calm(d, e)
  BY <1>4, <1>5, <1>6, <1>7 DEF Promotes, Serves, Calm
<1> QED
  BY <1>3, <1>7, <1>9, <1>10 DEF e

-----------------------------------------------------------------------------
(* expireEntry: who gives up leaves the shared queue,                      *)
LEMMA QueueLeft ==
    ASSUME NEW d, Consistent(d, {}, {}), NEW r \in Members(d.queue)
    PROVE  LET e == Fail([d EXCEPT !.queue = Removed(d.queue, r)], r)
           IN  Consistent(e, {}, {}) /\ Serves(d, e) /\ SameBook(d, e) /\ e.phase[r] = "idle"
<1> DEFINE q == Removed(d.queue, r)
           b == [d EXCEPT !.queue = q]
           e == Fail(b, r)
<1>1. /\ Record(d) /\ Lines(d, {}) /\ Settings(d) /\ Members(d.queue) \cap LaneWaiters(d) = {}
      /\ r \in Requests /\ d.phase \in [Requests -> Phases]
  BY QueueFinite DEF Consistent, Answers
<1>2. WellFormed(q, TenantKey) /\ Members(q) = Members(d.queue) \ {r}
  BY <1>1, QueueFinite, RemovedWellFormed
<1> HIDE DEF q
<1>3. Record(b) /\ b.queue = q /\ b.lane = d.lane /\ b.lanes = d.lanes /\ b.recent = d.recent
  BY <1>1 DEF Record, Names
<1>4. SameSettings(d, b) /\ SameBook(d, b)
  BY <1>1 DEF Record, Names, SameSettings, SameBook
<1>5. SameShadow(d, b) /\ SameAnswers(d, b)
  BY <1>1 DEF Record, Names, SameShadow, SameAnswers
<1> HIDE DEF b
<1>6. Lines(b, {})
  <2>1. b.cfg = d.cfg
    BY <1>4 DEF SameSettings
  <2>2. LaneOrder(b, {}) /\ b.lane \in [Tenants -> Seq(Requests)]
    BY <1>1, <1>3 DEF Lines, LaneOrder
  <2>3. \A t \in Tenants : LaneOf(b, t)
    BY <1>1, <1>3, <2>1 DEF Lines, LaneOf
  <2> QED
    BY <2>2, <2>3, <1>2, <1>3 DEF Lines
<1>7. LaneWaiters(b) = LaneWaiters(d) /\ Members(b.queue) = Members(d.queue) \ {r}
  BY <1>2, <1>3 DEF LaneWaiters
<1>8. /\ Waiters(b) \cup {r} = Waiters(d) \cup {} /\ {r} \cap Waiters(b) = {}
      /\ Members(b.queue) \cap LaneWaiters(b) = {}
  BY <1>1, <1>7 DEF Waiters
<1>9. Settings(b) /\ b.leases = d.leases /\ b.spent = d.spent /\ b.loaded \in BOOLEAN
  BY <1>1, <1>4, SamePartsKept DEF Consistent, Book, SameBook
<1>10. Consistent(b, {r}, {})
  BY <1>3, <1>5, <1>6, <1>8, <1>9, LinesMoved
<1>11. Consistent(e, {r} \ {r}, {}) /\ e.phase[r] = "idle"
  BY <1>10, FailConsistent
<1>12. b.phase \in [Requests -> Phases] /\ b.arrived = d.arrived /\ d.arrived \in Seq(Requests)
       /\ IsInjective(d.arrived)
  BY <1>1, <1>5, QueueFinite DEF SameAnswers
<1>13. /\ SameSettings(b, e) /\ SameShadow(b, e) /\ SameBook(b, e)
       /\ e.arrived = Without(b.arrived, r) /\ Calm(b, e)
  BY <1>1, <1>3, <1>12, FailFields
<1> HIDE DEF e
<1>14. {r} \ {r} = {}
  OBVIOUS
<1>15. Shrunk(d.arrived, e.arrived)
  BY <1>12, <1>13, ShrunkWithout
<1>16. SameSettings(d, e) /\ SameBook(d, e)
  BY <1>4, <1>13 DEF SameSettings, SameBook
<1>17. Serves(d, e)
  BY <1>5, <1>13, <1>15, <1>16 DEF Serves, SameShadow, SameAnswers, SameBook, Calm
<1> QED
  BY <1>11, <1>14, <1>16, <1>17 DEF e, b, q

(* or the lane, which goes with the last one in it.                        *)
LEMMA LaneLeft ==
    ASSUME NEW d, Consistent(d, {}, {}), NEW r \in LaneWaiters(d)
    PROVE  LET e == RemoveEmptyLane(Fail([d EXCEPT !.lane[TenantKey[r]] = Without(@, r)], r),
                                    TenantKey[r])
           IN  Consistent(e, {}, {}) /\ Serves(d, e) /\ SameBook(d, e) /\ e.phase[r] = "idle"
<1> DEFINE t == TenantKey[r]
           s == Without(d.lane[t], r)
           b == [d EXCEPT !.lane[t] = Without(@, r)]
           g == Fail(b, r)
           e == RemoveEmptyLane(g, t)
<1>1. /\ Record(d) /\ Lines(d, {}) /\ d.phase \in [Requests -> Phases]
      /\ d.lane \in [Tenants -> Seq(Requests)]
  BY DEF Consistent, Answers, Lines
<1>2. t \in Tenants /\ r \in ToSet(d.lane[t]) /\ r \in Requests
  <2>1. PICK u \in Tenants : r \in ToSet(d.lane[u])
    BY DEF LaneWaiters
  <2>2. TenantKey[r] = u
    BY <2>1, <1>1 DEF Lines, LaneOf
  <2>3. ToSet(d.lane[u]) \subseteq Requests
    BY <1>1, ElementsFinite
  <2> QED
    BY <2>1, <2>2, <2>3
<1> HIDE DEF t
<1>3. /\ d.lane[t] \in Seq(Requests) /\ IsInjective(d.lane[t])
      /\ \A x \in ToSet(d.lane[t]) : TenantKey[x] = t
      /\ d.cfg.lanes \/ d.lane[t] = <<>>
  BY <1>1, <1>2 DEF Lines, LaneOf
<1>4. /\ s \in Seq(Requests) /\ IsInjective(s) /\ ToSet(s) = ToSet(d.lane[t]) \ {r}
  BY <1>3, RemoveFirstElements DEF Without
<1>5. ToSet(<<>>) = {}
  BY DEF ToSet
<1>6. d.cfg.lanes /\ d.lane[t] # <<>>
  BY <1>2, <1>3, <1>5
<1>7. b = [d EXCEPT !.lane = [d.lane EXCEPT ![t] = s]]
  OBVIOUS
<1> HIDE DEF s
<1>8. /\ Record(b) /\ b.queue = d.queue /\ b.lane = [d.lane EXCEPT ![t] = s]
      /\ b.lanes = d.lanes /\ b.recent = d.recent
  BY <1>1, <1>7 DEF Record, Names
<1>9. SameSettings(d, b) /\ SameBook(d, b)
  BY <1>1, <1>7 DEF Record, Names, SameSettings, SameBook
<1>10. SameShadow(d, b) /\ SameAnswers(d, b)
  BY <1>1, <1>7 DEF Record, Names, SameShadow, SameAnswers
<1> HIDE DEF b
<1>11. LaneOrder(b, {t})
  <2>1. \A u \in Tenants : u # t => b.lane[u] = d.lane[u]
    BY <1>1, <1>8
  <2>2. {u \in Tenants : b.lane[u] # <<>>} \cup {t} = {u \in Tenants : d.lane[u] # <<>>} \cup {}
    BY <1>2, <1>6, <2>1
  <2> QED
    BY <2>2, <1>1, <1>8 DEF Lines, LaneOrder
<1>12. /\ {r} \cap ToSet(s) = {} /\ {r} \cap Waiters(d) \subseteq ToSet(d.lane[t])
       /\ {r} \cup ToSet(s) = {} \cup ToSet(d.lane[t])
       /\ \A x \in ToSet(s) : TenantKey[x] = t
  BY <1>2, <1>3, <1>4
<1> DEFINE gone == {r}
<1>13. r \in gone /\ gone \ {r} = {}
  OBVIOUS
<1>14. Consistent(b, gone, {t})
  <2> HIDE DEF gone
  <2>1. /\ gone \cap ToSet(s) = {} /\ gone \cap Waiters(d) \subseteq ToSet(d.lane[t])
        /\ gone \cup ToSet(s) = {} \cup ToSet(d.lane[t])
    BY <1>12 DEF gone
  <2>2. d.cfg.lanes \/ s = <<>>
    BY <1>6
  <2> QED
    BY <1>2, <1>4, <1>8, <1>9, <1>10, <1>11, <1>12, <2>1, <2>2, LaneChanged
<1> HIDE DEF gone
<1>15. Consistent(g, gone \ {r}, {t}) /\ g.phase[r] = "idle"
  BY <1>13, <1>14, FailConsistent
<1>16. b.phase \in [Requests -> Phases] /\ b.arrived = d.arrived /\ d.arrived \in Seq(Requests)
       /\ IsInjective(d.arrived)
  BY <1>1, <1>10, QueueFinite DEF SameAnswers
<1>17. /\ SameSettings(b, g) /\ SameShadow(b, g) /\ SameBook(b, g)
       /\ g.arrived = Without(b.arrived, r) /\ Calm(b, g)
  <2>1. r \in Requests /\ Record(b) /\ b.phase \in [Requests -> Phases]
    BY <1>2, <1>8, <1>16
  <2> QED
    BY <2>1, FailFields
<1> HIDE DEF g
<1>18. Shrunk(d.arrived, g.arrived)
  BY <1>16, <1>17, ShrunkWithout
<1>19. SameSettings(d, g) /\ SameBook(d, g)
  BY <1>9, <1>17 DEF SameSettings, SameBook
<1>20. Serves(d, g)
  BY <1>10, <1>17, <1>18, <1>19 DEF Serves, SameShadow, SameAnswers, SameBook, Calm
<1>21. Consistent(g, {}, {t}) /\ {t} \subseteq {t}
  BY <1>13, <1>15
<1>22. Consistent(e, {}, {}) /\ Serves(g, e) /\ SameBook(g, e)
  BY <1>2, <1>21, RemoveEmptyLaneConsistent
<1> HIDE DEF e
<1>23. Serves(d, e)
  BY <1>20, <1>22, ServesTwice
<1>24. SameBook(d, e) /\ e.phase[r] = "idle"
  BY <1>2, <1>15, <1>19, <1>22 DEF SameBook, Serves, Calm
<1> QED
  BY <1>22, <1>23, <1>24 DEF e, g, b, t

(* A waiter that gives up leaves its line, and others may have their turn  *)
(* now.                                                                    *)
LEMMA ExpiredWhole ==
    ASSUME NEW d, Whole(d), NEW r \in Waiters(d)
    PROVE  LET e == Expired(d, r)
           IN  Whole(e) /\ Within(d, e) /\ Calm(d, e) /\ e.phase[r] = "idle"
<1> DEFINE a == Fail([d EXCEPT !.queue = Removed(d.queue, r)], r)
           b == RemoveEmptyLane(Fail([d EXCEPT !.lane[TenantKey[r]] = Without(@, r)], r),
                                TenantKey[r])
           g == IF r \in Members(d.queue) THEN a ELSE b
           e == Dispatch(g)
<1>1. Consistent(d, {}, {}) /\ VirtualStuck(d)
  BY DEF Whole
<1>2. Expired(d, r) = e
  BY DEF Expired
<1>3. r \in Members(d.queue) \/ r \in LaneWaiters(d)
  BY DEF Waiters
<1>4. r \in Members(d.queue) =>
         Consistent(a, {}, {}) /\ Serves(d, a) /\ SameBook(d, a) /\ a.phase[r] = "idle"
  BY <1>1, QueueLeft
<1>5. r \in LaneWaiters(d) =>
         Consistent(b, {}, {}) /\ Serves(d, b) /\ SameBook(d, b) /\ b.phase[r] = "idle"
  BY <1>1, LaneLeft
<1> HIDE DEF a, b
<1>6. Consistent(g, {}, {}) /\ Serves(d, g) /\ SameBook(d, g) /\ g.phase[r] = "idle"
  BY <1>3, <1>4, <1>5
<1> HIDE DEF g
<1>7. VirtualStuck(g)
  BY <1>1, <1>6, VirtualServed
<1>8. Whole(e) /\ Serves(g, e)
  BY <1>6, <1>7, Dispatched
<1> HIDE DEF e
<1>9. Within(d, e)
  BY <1>6, <1>8, WithinServed DEF SameBook
<1>10. Calm(d, e) /\ e.phase[r] = "idle"
  <2>1. r \in Requests
    BY <1>1, WaitersAreRequests DEF Consistent, Lines
  <2> QED
    BY <2>1, <1>6, <1>8 DEF Serves, Calm
<1> QED
  BY <1>2, <1>8, <1>9, <1>10

-----------------------------------------------------------------------------
(* acquire: what is admitted at once leaves less room for those who wait.  *)
LEMMA AdmitWhole ==
    ASSUME NEW d, Whole(d), NEW r \in Requests, d.phase[r] = "idle"
    PROVE  LET e == Admit(d, r)
           IN  /\ Whole(e) /\ SameSettings(d, e) /\ e.leases = Append(d.leases, r)
               /\ e.spent = d.spent + Cost[r] /\ d.spent = TotalCost(ToSet(d.leases))
               /\ ToSet(e.leases) = ToSet(d.leases) \cup {r}
               /\ e.disp[r] = "none" /\ SameShadow(d, e) /\ e.due = d.due
<1> DEFINE e == Admit(d, r)
<1>1. /\ Consistent(d, {}, {}) /\ VirtualStuck(d) /\ Idle(d) /\ Record(d)
      /\ d.phase \in [Requests -> Phases] /\ d.spent = TotalCost(ToSet(d.leases))
  BY DEF Whole, Consistent, Answers, Book
<1>2. /\ Consistent(e, {}, {}) /\ SameSettings(d, e) /\ SameLines(d, e)
      /\ SameShadow(d, e) /\ e.arrived = d.arrived
      /\ ToSet(e.leases) = ToSet(d.leases) \cup {r} /\ e.spent = d.spent + Cost[r]
      /\ d.disp[r] = "none"
  BY <1>1, AdmitConsistent
<1>3. e.leases = Append(d.leases, r) /\ e.due = d.due
  BY <1>1 DEF Admit, Record, Names
<1> HIDE DEF e
<1>4. Cost[r] \in Nat /\ Room(d) \in Int /\ d.spent \in Nat /\ d.limit \in Int
  BY <1>1, QueueFinite, CostPositive
<1>5. Room(e) <= Room(d) /\ e.queue = d.queue /\ Enforcing(e) = Enforcing(d)
  BY <1>2, <1>4 DEF Room, SameSettings, SameLines, Enforcing
<1>6. Shrunk(d.arrived, e.arrived)
  BY <1>2, ShrunkSelf
<1>7. Idle(e)
  BY <1>1, <1>2, <1>5, <1>6, StuckStays DEF Idle
<1>8. VirtualStuck(e)
  BY <1>1, <1>2 DEF VirtualStuck, VirtualRoom, SameSettings, SameShadow
<1>9. e.disp[r] = "none"
  BY <1>2 DEF SameShadow
<1> QED
  BY <1>1, <1>2, <1>3, <1>7, <1>8, <1>9 DEF Whole, e

(* In shadow mode it then gets its place in the virtual account.           *)
LEMMA ShadowWhole ==
    ASSUME NEW d, Whole(d), NEW r \in Requests, d.phase[r] = "idle", d.cfg.mode = "shadow"
    PROVE  LET a == Admit(d, r)
               e == IF Cost[r] > d.limit THEN [a EXCEPT !.disp[r] = "rejected"]
                    ELSE IF d.vcost + Cost[r] <= d.limit
                         THEN [a EXCEPT !.disp[r] = "active", !.vcost = @ + Cost[r]]
                    ELSE IF CanAccept(d.vqueue, r, d.cfg.count, d.cfg.cost)
                         THEN VirtuallyQueued(a, r, TenantKey[r])
                    ELSE [a EXCEPT !.disp[r] = "rejected"]
           IN  Whole(e) /\ ~Enforcing(e) /\ e.due = d.due
<1> DEFINE a == Admit(d, r)
           e == IF Cost[r] > d.limit THEN [a EXCEPT !.disp[r] = "rejected"]
                ELSE IF d.vcost + Cost[r] <= d.limit
                     THEN [a EXCEPT !.disp[r] = "active", !.vcost = @ + Cost[r]]
                ELSE IF CanAccept(d.vqueue, r, d.cfg.count, d.cfg.cost)
                     THEN VirtuallyQueued(a, r, TenantKey[r])
                ELSE [a EXCEPT !.disp[r] = "rejected"]
           t == TenantKey[r]
<1>1. /\ Whole(a) /\ SameSettings(d, a) /\ ToSet(a.leases) = ToSet(d.leases) \cup {r}
      /\ a.disp[r] = "none" /\ SameShadow(d, a) /\ a.due = d.due
  BY AdmitWhole
<1>2. t \in Tenants
  BY TenantsValid
<1>3. d.vcost \in Nat /\ d.limit \in Int /\ Cost[r] \in Nat
  BY QueueFinite, CostPositive DEF Whole
<1> HIDE DEF a
<1>4. ~(d.vcost + Cost[r] <= d.limit) => Cost[r] > VirtualRoom(a)
  BY <1>1, <1>3 DEF VirtualRoom, SameSettings, SameShadow
<1>5. PlacedAs(a, e, r, t)
  BY <1>4 DEF PlacedAs
<1> HIDE DEF e, t
<1>6. Consistent(a, {}, {}) /\ VirtualStuck(a) /\ r \in ToSet(a.leases)
  BY <1>1 DEF Whole
<1>7. Consistent(e, {}, {}) /\ SameButShadow(a, e) /\ VirtualStuck(e)
  BY <1>1, <1>2, <1>5, <1>6, PlacedConsistent
<1>8. ~Enforcing(e) /\ e.due = d.due
  BY <1>1, <1>7 DEF SameButShadow, SameSettings, Enforcing
<1> QED
  BY <1>7, <1>8 DEF Whole, Idle, e, a, t

-----------------------------------------------------------------------------
(* A later arrival is nobody's turn.                                       *)
LEMMA TurnsAppended ==
    ASSUME NEW own \in [Requests -> Tenants], NEW q, WellFormed(q, own), NEW room,
           NEW a \in Seq(Requests), IsInjective(a), Members(q) \subseteq ToSet(a),
           NEW r \in Requests, r \notin ToSet(a), Turns(q, room, a) = {}
    PROVE  Turns(q, room, Append(a, r)) = {}
<1> DEFINE b == Append(a, r)
<1>1. b \in Seq(Requests) /\ IsInjective(b) /\ ToSet(b) = ToSet(a) \cup {r}
  BY AppendElements
<1>2. \A x, y : Earlier(a, x, y) => Earlier(b, x, y)
  BY EarlierAppend
<1> HIDE DEF b
<1>3. Blocked(q, room, a)
  BY BlockedIs
<1>4. ASSUME Reserved(q) # {} PROVE Blocked(q, room, b)
  <2> DEFINE i == Oldest(q, a)
  <2>1. i \in Reserved(q) /\ \A j \in Reserved(q) : Earlier(a, HeadAt(q, i), HeadAt(q, j))
    BY <1>4, OldestIs
  <2> HIDE DEF i
  <2>2. \A j \in Reserved(q) : Earlier(b, HeadAt(q, i), HeadAt(q, j))
    BY <2>1, <1>2
  <2>3. Members(q) \subseteq ToSet(b)
    BY <1>1
  <2>4. i = Oldest(q, b)
    BY <1>1, <1>4, <2>1, <2>2, <2>3, OldestIs
  <2> QED
    BY <1>3, <1>4, <2>4 DEF Blocked, i
<1>5. Blocked(q, room, b)
  BY <1>3, <1>4 DEF Blocked
<1>6. Members(q) \subseteq ToSet(b)
  BY <1>1
<1> QED
  BY <1>1, <1>5, <1>6, BlockedIs DEF b

(* Nobody has a turn where no head fits.                                   *)
LEMMA NoHeadFits ==
    ASSUME NEW own \in [Requests -> Tenants], NEW q, WellFormed(q, own), NEW room,
           NEW a \in Seq(Requests), IsInjective(a), Members(q) \subseteq ToSet(a),
           \A j \in DOMAIN q.order : ~(Cost[HeadAt(q, j)] <= room)
    PROVE  Turns(q, room, a) = {}
<1>1. Reserved(q) # {} => Oldest(q, a) \in DOMAIN q.order
  BY OldestIs
<1>2. Blocked(q, room, a)
  BY <1>1 DEF Blocked
<1> QED
  BY <1>2, BlockedIs

(***************************************************************************)
(* Somebody joins a queue in which nobody has a turn, and gets one: it is  *)
(* the newcomer's, the only head that fits; who stands at the cursor is    *)
(* passed, and afterwards nobody has a turn again.                         *)
(***************************************************************************)
LEMMA NewcomerPasses ==
    ASSUME NEW own \in [Requests -> Tenants], NEW q, WellFormed(q, own), Members(q) # {},
           NEW room \in Int, NEW a \in Seq(Requests), IsInjective(a), Members(q) \subseteq ToSet(a),
           NEW r \in Requests, r \notin Members(q), r \notin ToSet(a), Turns(q, room, a) = {},
           NEW i \in Turns(Enqueue(q, r, own[r]), room, Append(a, r))
    PROVE  LET p == Enqueue(q, r, own[r])
               k == Taken(p, i)
           IN  /\ HeadAt(p, i) = r
               /\ \E w \in Members(q) : k.skips[w] > q.skips[w]
               /\ \A j \in DOMAIN k.order : ~(Cost[HeadAt(k, j)] <= room)
<1> DEFINE p == Enqueue(q, r, own[r])
           k == Taken(p, i)
           n == Len(q.order)
           t == own[r]
           b == Append(a, r)
<1>1. /\ DOMAIN q.order = 1..n /\ n \in Nat
      /\ DOMAIN q.order \subseteq DOMAIN p.order
      /\ \A j \in DOMAIN q.order : HeadAt(p, j) = HeadAt(q, j)
      /\ \A j \in DOMAIN p.order \ DOMAIN q.order :
            /\ j = n + 1 /\ Len(p.order) = n + 1
            /\ HeadAt(p, j) = r /\ p.order[j] = t /\ p.bucket[t] = <<r>>
      /\ p.skips = q.skips /\ p.cursor = q.cursor /\ Reserved(p) = Reserved(q)
  <2>1. /\ DOMAIN q.order = 1..n /\ n \in Nat
        /\ DOMAIN q.order \subseteq DOMAIN p.order
        /\ p.skips = q.skips /\ p.cursor = q.cursor /\ Reserved(p) = Reserved(q)
    BY JoinedHeads
  <2>2. \A j \in DOMAIN q.order : HeadAt(p, j) = HeadAt(q, j)
    BY JoinedHeads
  <2>3. \A j \in DOMAIN p.order \ DOMAIN q.order :
            /\ j = Len(q.order) + 1 /\ Len(p.order) = Len(q.order) + 1
            /\ HeadAt(p, j) = r /\ p.order[j] = t /\ p.bucket[t] = <<r>>
    BY JoinedHeads
  <2> QED
    BY <2>1, <2>2, <2>3
<1>2. WellFormed(p, own) /\ Members(p) = Members(q) \cup {r}
  BY EnqueueWellFormed
<1>3. b \in Seq(Requests) /\ IsInjective(b) /\ ToSet(b) = ToSet(a) \cup {r}
  BY AppendElements
<1> HIDE DEF b, k
<1>4. Blocked(q, room, a)
  BY BlockedIs
<1>5. ~Blocked(p, room, b)
  <2>1. Members(p) \subseteq ToSet(b) /\ i \in Turns(p, room, b)
    BY <1>2, <1>3 DEF b
  <2> QED
    BY <2>1, <1>2, <1>3, BlockedIs
<1>6. Cost[r] <= room /\ Reserved(q) = {} /\ DOMAIN p.order # DOMAIN q.order
  BY <1>4, <1>5, BlockedJoined DEF b
<1>7. \A j \in DOMAIN q.order : ~(Cost[HeadAt(q, j)] <= room)
  BY <1>4, <1>6 DEF Blocked
<1>8. i \in DOMAIN p.order /\ Cost[HeadAt(p, i)] <= room
  BY DEF Turns
<1>9. i \notin DOMAIN q.order
  BY <1>1, <1>7, <1>8
<1>10. /\ i = n + 1 /\ Len(p.order) = n + 1 /\ HeadAt(p, i) = r /\ p.order[i] = t
       /\ p.bucket[t] = <<r>>
  BY <1>1, <1>8, <1>9
<1>11. q.bucket[t] = <<>> /\ t \in Tenants /\ (\A u \in Tenants : u # t => p.bucket[u] = q.bucket[u])
  <2>1. t \in Tenants /\ q.bucket \in [Tenants -> Seq(Requests)] /\ q.order \in Seq(Tenants)
    BY DEF WellFormed, Shape
  <2>2. q.bucket[t] # <<>> => p.order = q.order
    BY DEF Enqueue, WellFormed, Shape
  <2>3. q.bucket[t] = <<>>
    BY <2>2, <1>6
  <2>4. p.bucket = [q.bucket EXCEPT ![t] = Append(@, r)]
    BY DEF Enqueue, WellFormed, Shape
  <2> QED
    BY <2>1, <2>3, <2>4
<1>12. n > 0
  <2>1. q.order \in Seq(Tenants) /\ ToSet(q.order) = {u \in Tenants : q.bucket[u] # <<>>}
    BY DEF WellFormed, Shape, Ring
  <2>2. PICK u \in Tenants : ToSet(q.bucket[u]) # {}
    BY DEF Members
  <2>3. q.bucket[u] # <<>>
    BY <2>2 DEF ToSet
  <2>4. u \in ToSet(q.order)
    BY <2>1, <2>3
  <2> QED
    BY <2>1, <2>4 DEF ToSet
<1>13. q.cursor \in Nat /\ q.cursor < n
  BY <1>12 DEF WellFormed, Shape, Ring
<1> DEFINE m == q.cursor + 1
           w == HeadAt(q, m)
<1>14. m \in DOMAIN q.order /\ w \in Members(q) /\ w \in Requests
  <2>1. m \in DOMAIN q.order
    BY <1>1, <1>13
  <2> HIDE DEF m
  <2> QED
    BY <2>1, HeadOf DEF WellFormed
<1>15. TurnOf(p, m) < TurnOf(p, i)
  <2>1. TurnOf(p, m) = (m - 1 - q.cursor) % (n + 1) /\ TurnOf(p, i) = (n - q.cursor) % (n + 1)
    BY <1>1, <1>10, <1>13 DEF TurnOf
  <2>2. (m - 1 - q.cursor) % (n + 1) = 0 /\ (n - q.cursor) % (n + 1) = n - q.cursor
    <3>1. \A y, z \in Nat : y < z => y % z = y
      OBVIOUS
    <3>2. m - 1 - q.cursor = 0 /\ n - q.cursor \in Nat /\ n - q.cursor < n + 1 /\ n + 1 \in Nat
      BY <1>12, <1>13
    <3> HIDE DEF n, m
    <3> QED
      BY <3>1, <3>2, <1>12
  <2> QED
    BY <2>1, <2>2, <1>13
<1> HIDE DEF m, w, n, p
<1>16. k.skips[w] = q.skips[w] + 1
  <2>1. Reserved(p) = {} /\ w # r /\ HeadAt(p, m) = w /\ m \in DOMAIN p.order
    BY <1>1, <1>6, <1>14 DEF w
  <2>2. w \in {HeadAt(p, j) : j \in {x \in DOMAIN p.order : TurnOf(p, x) < TurnOf(p, i)}}
    BY <2>1, <1>15
  <2>3. k.skips = [x \in Requests |->
                     IF x = HeadAt(p, i) THEN 0
                     ELSE IF x \in {HeadAt(p, j) : j \in {y \in DOMAIN p.order : TurnOf(p, y) < TurnOf(p, i)}}
                     THEN p.skips[x] + 1 ELSE p.skips[x]]
    BY <2>1 DEF Taken, k
  <2> QED
    BY <2>1, <2>2, <2>3, <1>1, <1>10, <1>14
<1>17. q.skips[w] \in Nat
  BY <1>14 DEF WellFormed, Shape
<1>18. ASSUME NEW j \in DOMAIN k.order PROVE ~(Cost[HeadAt(k, j)] <= room)
  <2> DEFINE u == k.order[j]
  <2>1. WellFormed(k, own)
    BY <1>2, <1>8, TakenWellFormed DEF k
  <2>2. u \in Tenants /\ k.bucket[u] # <<>>
    BY <2>1, HeadOf DEF WellFormed
  <2>3. k.bucket = [p.bucket EXCEPT ![t] = Tail(@)]
    BY <1>10 DEF Taken, k
  <2>4. p.bucket \in [Tenants -> Seq(Requests)]
    BY <1>2 DEF WellFormed, Shape
  <2>5. Tail(<<r>>) = <<>>
    OBVIOUS
  <2>6. u # t
    BY <2>2, <2>3, <2>4, <2>5, <1>10
  <2>7. k.bucket[u] = q.bucket[u]
    BY <2>2, <2>3, <2>4, <2>6, <1>11
  <2>8. PICK x \in DOMAIN q.order : q.order[x] = u
    BY <2>2, <2>7, PlaceOf DEF WellFormed
  <2>9. HeadAt(k, j) = HeadAt(q, x)
    BY <2>7, <2>8 DEF HeadAt
  <2> QED
    BY <2>9, <1>7
<1>19. \E x \in Members(q) : k.skips[x] > q.skips[x]
  BY <1>14, <1>16, <1>17
<1> QED
  BY <1>10, <1>18, <1>19 DEF p, k

-----------------------------------------------------------------------------
(* A request that asks does not wake the virtual queue.                    *)
LEMMA VirtualAsked ==
    ASSUME NEW d, NEW left, NEW open, Consistent(d, left, open), VirtualStuck(d),
           NEW r \in Requests, r \notin ToSet(d.arrived),
           NEW e, e.vqueue = d.vqueue, VirtualRoom(e) = VirtualRoom(d), e.arrived = Append(d.arrived, r)
    PROVE  VirtualStuck(e)
<1>1. /\ d.arrived \in Seq(Requests) /\ IsInjective(d.arrived)
      /\ Members(d.vqueue) \subseteq ToSet(d.arrived)
      /\ \E own \in [Requests -> Tenants] : WellFormed(d.vqueue, own)
  BY VirtualFacts
<1>2. PICK own \in [Requests -> Tenants] : WellFormed(d.vqueue, own)
  BY <1>1
<1>3. CASE VirtualRoom(d) <= 0
  BY <1>3 DEF VirtualStuck
<1>4. CASE Turns(d.vqueue, VirtualRoom(d), d.arrived) = {}
  <2>1. Turns(d.vqueue, VirtualRoom(d), Append(d.arrived, r)) = {}
    BY <1>1, <1>2, <1>4, TurnsAppended
  <2> QED
    BY <2>1 DEF VirtualStuck
<1> QED
  BY <1>3, <1>4 DEF VirtualStuck

(* A dispatch after whose first round nobody has a turn has one round.     *)
LEMMA DispatchedOnce ==
    ASSUME NEW d, Consistent(d, {}, {}), ~Stuck(d), Stuck(DispatchOne(d, 0))
    PROVE  DispatchedAll(d) = DispatchOne(d, 0)
<1> DEFINE e == DispatchedAll(d)
           b == DispatchOne(d, 0)
           s == SetToSeq(Members(d.queue))
           n == Len(s)
<1>1. IsFiniteSet(Members(d.queue)) /\ WellFormed(d.queue, TenantKey) /\ TenantKey \in [Requests -> Tenants]
  BY QueueFinite
<1>2. s \in Seq(Members(d.queue)) /\ ToSet(s) = Members(d.queue)
  BY <1>1, SeqOfSet
<1>3. Runs("dispatch", 0, d, s, e)
  BY <1>2, DispatchRuns DEF DispatchedAll
<1>4. PICK h : /\ h[0] = d
               /\ \A i \in 1..n : h[i] = Round("dispatch", 0, h[i - 1], s[i])
               /\ e = h[n]
  BY <1>3 DEF Runs
<1>5. \A f, x : Round("dispatch", 0, f, x) = DispatchOne(f, x)
  BY DEF Round
<1>6. \A f, x : DispatchOne(f, x) = DispatchOne(f, 0)
  BY DEF DispatchOne
<1>7. Consistent(b, {}, {}) /\ Stuck(b)
  BY DispatchOneConsistent
<1>8. \A x : DispatchOne(b, x) = b
  <2> HIDE DEF b
  <2> QED
    BY <1>7, DispatchOneConsistent
<1>9. n \in Nat /\ n # 0
  <2>1. Members(d.queue) # {}
    BY <1>1, NobodyNoTurn DEF Stuck
  <2>2. ToSet(s) # {}
    BY <1>2, <2>1
  <2> HIDE DEF s
  <2> QED
    BY <1>2, <2>2 DEF ToSet
<1> DEFINE T == {i \in 0..n : i = 0 \/ h[i] = b}
<1> HIDE DEF e, b, s, n
<1>10. 0 \in T
  BY <1>9
<1>11. ASSUME NEW i \in 1..n, i - 1 \in T PROVE i \in T
  <2>1. h[i] = DispatchOne(h[i - 1], s[i])
    BY <1>4, <1>5
  <2>2. CASE i - 1 = 0
    <3>1. h[i] = b
      BY <2>1, <2>2, <1>4, <1>6 DEF b
    <3> QED
      BY <3>1
  <2>3. CASE h[i - 1] = b
    <3>1. h[i] = b
      BY <2>1, <2>3, <1>8
    <3> QED
      BY <3>1
  <2> QED
    BY <2>2, <2>3, <1>11
<1> HIDE DEF T
<1>12. \A i \in 0..n : i \in T
  BY <1>9, <1>10, <1>11, NumbersUpTo
<1>13. n \in T
  BY <1>9, <1>12
<1> QED
  BY <1>4, <1>9, <1>13 DEF T, e, b

-----------------------------------------------------------------------------
(* A newer request that gets a lease at once brings an older one nearer to *)
(* its reservation.                                                        *)
Jumps(d, e) ==
    \A r \in Requests :
       /\ Enforcing(d) /\ ~d.cfg.lanes /\ Waiters(d) # {}
       /\ d.phase[r] = "idle" /\ e.phase[r] = "held"
       => \E w \in Waiters(d) : e.queue.skips[w] > d.queue.skips[w]

(* Whoever waits on past its deadline is still past it.                    *)
StaysDue(d, e) ==
    \A r \in Requests : r \in d.due /\ e.phase[r] = "waiting" => r \in e.due

(* Where nobody new holds a lease, nobody jumped the queue.                *)
LEMMA CalmNoJump ==
    ASSUME NEW d, NEW e, Calm(d, e) PROVE Jumps(d, e) /\ StaysDue(d, e)
  BY DEF Calm, Jumps, StaysDue

(* Whoever asks has no deadline yet.                                       *)
LEMMA IdleNotDue ==
    ASSUME NEW d, Whole(d), NEW r \in Requests, d.phase[r] = "idle" PROVE r \notin d.due
  BY DEF Whole, Consistent, Answers

(* acquire, when the request has to wait: without lanes,                   *)
LEMMA QueuedWhole ==
    ASSUME NEW d, Whole(d), NEW r \in Requests, d.phase[r] = "idle"
    PROVE  LET b == [d EXCEPT !.queue = Enqueue(d.queue, r, TenantKey[r]),
                              !.arrived = Append(@, r), !.phase[r] = "waiting"]
               e == Dispatch(Dispatch(b))
           IN  Whole(e) /\ Within(d, e) /\ Jumps(d, e) /\ StaysDue(d, e)
<1> DEFINE q == d.queue
           p == Enqueue(q, r, TenantKey[r])
           a == Asked(d, r)
           b == [a EXCEPT !.queue = Enqueue(a.queue, r, TenantKey[r])]
           z == [d EXCEPT !.queue = p, !.arrived = Append(@, r), !.phase[r] = "waiting"]
           g == Dispatch(b)
           e == Dispatch(g)
<1>1. Consistent(d, {}, {}) /\ VirtualStuck(d) /\ Idle(d) /\ Record(d)
  BY DEF Whole, Consistent
<1>2. /\ Consistent(a, {} \cup {r}, {}) /\ SameSettings(d, a) /\ SameLines(d, a)
      /\ SameBook(d, a) /\ SameShadow(d, a) /\ a.due = d.due
      /\ a.arrived = Append(d.arrived, r)
      /\ r \notin Waiters(d) \cup {} /\ r \notin ToSet(d.arrived)
  BY <1>1, AskedConsistent
<1>3. b = z
  <2>1. a.queue = q
    BY <1>2 DEF SameLines
  <2> HIDE DEF p
  <2>2. [a EXCEPT !.queue = p] = z
    BY <1>1 DEF Asked, Record, Names
  <2> QED
    BY <2>1, <2>2 DEF p
<1>4. a.phase = [d.phase EXCEPT ![r] = "waiting"]
  BY <1>1 DEF Asked, Record, Names
<1> HIDE DEF a, z
<1> DEFINE left == {} \cup {r}
<1>5. r \in left /\ left \ {r} = {}
  OBVIOUS
<1> HIDE DEF left
<1>6. /\ Consistent(b, left \ {r}, {}) /\ SameSettings(a, b) /\ SameBook(a, b)
      /\ SameShadow(a, b) /\ SameAnswers(a, b) /\ r \notin Members(a.queue)
      /\ b.queue = Enqueue(a.queue, r, TenantKey[r])
  <2>1. Consistent(a, left, {})
    BY <1>2 DEF left
  <2> QED
    BY <2>1, <1>5, EnqueuedConsistent
<1> HIDE DEF b
<1>7. /\ Consistent(b, {}, {}) /\ SameSettings(d, b) /\ SameBook(d, b) /\ SameShadow(d, b)
      /\ b.queue = p /\ b.arrived = Append(d.arrived, r) /\ b.phase = a.phase /\ r \notin Members(q)
  BY <1>2, <1>5, <1>6 DEF SameSettings, SameBook, SameShadow, SameAnswers, SameLines
<1>8. VirtualStuck(b)
  <2>1. b.vqueue = d.vqueue /\ VirtualRoom(b) = VirtualRoom(d)
    BY <1>7 DEF SameSettings, SameShadow, VirtualRoom
  <2> QED
    BY <2>1, <1>1, <1>2, <1>7, VirtualAsked
<1>9. Whole(g) /\ Serves(b, g)
  BY <1>7, <1>8, Dispatched
<1>10. Whole(e) /\ Serves(g, e)
  <2> HIDE DEF g
  <2> QED
    BY <1>9, Dispatched DEF Whole
<1>11. Within(d, e)
  <2> HIDE DEF g, e
  <2>1. Serves(b, e)
    BY <1>9, <1>10, ServesTwice
  <2> QED
    BY <2>1, <1>7, WithinServed DEF SameBook
<1>12. ASSUME Enforcing(d), ~d.cfg.lanes, Waiters(d) # {}, e.phase[r] = "held"
       PROVE  \E w \in Waiters(d) : e.queue.skips[w] > d.queue.skips[w]
  <2>1. /\ WellFormed(q, TenantKey) /\ TenantKey \in [Requests -> Tenants]
        /\ d.arrived \in Seq(Requests) /\ IsInjective(d.arrived)
        /\ Members(q) \subseteq ToSet(d.arrived) /\ Room(d) \in Int
    BY <1>1, QueueFinite
  <2>2. Members(q) # {} /\ Members(q) \subseteq Waiters(d)
    <3>1. \A t \in Tenants : d.lane[t] = <<>>
      BY <1>1, <1>12 DEF Consistent, Lines, LaneOf
    <3>2. ToSet(<<>>) = {}
      BY DEF ToSet
    <3>3. LaneWaiters(d) = {}
      BY <3>1, <3>2 DEF LaneWaiters
    <3> QED
      BY <3>3, <1>12 DEF Waiters
  <2>3. Members(p) # {} /\ Members(b.queue) # {} /\ Members(p) = Members(q) \cup {r}
    BY <2>1, <2>2, <1>7, EnqueueWellFormed
  <2>4. Room(b) = Room(d) /\ Enforcing(b)
    BY <1>7, <1>12 DEF Room, SameSettings, SameBook, Enforcing
  <2>5. b.phase[r] = "waiting"
    BY <1>1, <1>4, <1>7 DEF Consistent, Answers
  <2>6. ~Stuck(b)
    <3>1. SUFFICES ASSUME Stuck(b) PROVE FALSE
      OBVIOUS
    <3>2. g = b
      BY <3>1, <2>3, <1>7, DispatchConsistent
    <3>3. e = b
      BY <3>1, <3>2, <2>3, <1>7, DispatchConsistent
    <3> QED
      BY <3>3, <2>5, <1>12
  <2> DEFINE i == CHOOSE k \in Turns(b.queue, Room(b), b.arrived) : TRUE
             x == DispatchOne(b, 0)
             k == Taken(p, i)
  <2>7. /\ Consistent(x, {}, {}) /\ Serves(b, x) /\ i \in Turns(b.queue, Room(b), b.arrived)
        /\ Room(x) <= Room(b) /\ x.queue = k /\ Members(x.queue) = Members(p) \ {HeadAt(p, i)}
    BY <2>6, <1>7, DispatchOneConsistent
  <2> HIDE DEF i
  <2>8. i \in Turns(p, Room(d), Append(d.arrived, r))
    BY <2>4, <2>7, <1>7
  <2>9. Turns(q, Room(d), d.arrived) = {}
    BY <2>4, <2>6, <1>1, <1>12 DEF Idle, Stuck
  <2>10. /\ HeadAt(p, i) = r
         /\ \E w \in Members(q) : k.skips[w] > q.skips[w]
         /\ \A j \in DOMAIN k.order : ~(Cost[HeadAt(k, j)] <= Room(d))
    BY <2>1, <2>2, <2>8, <2>9, <1>2, <1>7, NewcomerPasses
  <2> HIDE DEF x, k
  <2>11. Turns(x.queue, Room(x), x.arrived) = {}
    <3>1. /\ WellFormed(k, TenantKey) /\ x.arrived \in Seq(Requests) /\ IsInjective(x.arrived)
          /\ Members(k) \subseteq ToSet(x.arrived) /\ Room(x) \in Int
      BY <2>7, QueueFinite
    <3>2. \A j \in DOMAIN k.order : Cost[HeadAt(k, j)] \in Nat
      BY <2>1, <3>1, HeadOf, CostPositive DEF WellFormed
    <3>3. \A j \in DOMAIN k.order : ~(Cost[HeadAt(k, j)] <= Room(x))
      <4>1. Room(x) <= Room(d)
        BY <2>4, <2>7
      <4>2. \A n, u, v \in Int : u <= v /\ ~(n <= v) => ~(n <= u)
        OBVIOUS
      <4> QED
        BY <4>1, <4>2, <2>1, <2>10, <3>1, <3>2
    <3> QED
      BY <2>1, <2>7, <3>1, <3>3, NoHeadFits
  <2>12. Stuck(x)
    BY <2>11 DEF Stuck
  <2>13. DispatchedAll(b) = x
    BY <1>7, <2>6, <2>12, DispatchedOnce DEF x
  <2>14. Members(x.queue) # {}
    BY <2>2, <2>3, <2>7, <2>10, <1>7
  <2>15. g = x
    BY <2>4, <2>13, <2>14, <1>7, DispatchConsistent
  <2> HIDE DEF g
  <2>16. e = g
    BY <2>7, <2>12, <2>14, <2>15, DispatchConsistent
  <2>17. e.queue.skips = k.skips
    BY <2>7, <2>15, <2>16
  <2> HIDE DEF e
  <2> QED
    BY <2>2, <2>10, <2>17
<1>13. Jumps(d, e)
  <2> HIDE DEF e, g
  <2>1. SUFFICES ASSUME NEW s \in Requests, Enforcing(d), ~d.cfg.lanes, Waiters(d) # {},
                        d.phase[s] = "idle", e.phase[s] = "held"
                 PROVE  \E w \in Waiters(d) : e.queue.skips[w] > d.queue.skips[w]
    BY DEF Jumps
  <2>2. CASE s = r
    BY <1>12, <2>1, <2>2
  <2>3. CASE s # r
    <3>1. b.phase[s] = "idle"
      BY <1>1, <1>4, <1>7, <2>1, <2>3 DEF Consistent, Answers
    <3>2. e.phase[s] = "idle"
      BY <1>9, <1>10, <3>1 DEF Serves, Calm
    <3> QED
      BY <2>1, <3>2
  <2> QED
    BY <2>2, <2>3
<1>14. StaysDue(d, e)
  <2> HIDE DEF e, g
  <2>1. b.due = d.due
    BY <1>2, <1>6 DEF SameAnswers
  <2> QED
    BY <2>1, <1>9, <1>10 DEF Serves, Calm, StaysDue
<1> QED
  BY <1>3, <1>10, <1>11, <1>13, <1>14 DEF z

-----------------------------------------------------------------------------
(* With lanes it waits in its tenant's.                                    *)
LEMMA LaneJoined ==
    ASSUME NEW d, NEW r \in Requests, Consistent(d, {}, {TenantKey[r]}), VirtualStuck(d),
           d.phase[r] = "idle", d.cfg.lanes
    PROVE  LET b == [d EXCEPT !.lane[TenantKey[r]] = Append(@, r), !.arrived = Append(@, r),
                              !.phase[r] = "waiting"]
           IN  /\ Consistent(b, {}, {}) /\ VirtualStuck(b) /\ SameBook(d, b)
               /\ b.due = d.due /\ b.phase = [d.phase EXCEPT ![r] = "waiting"]
<1> DEFINE t == TenantKey[r]
           s == Append(d.lane[t], r)
           a == Asked(d, r)
           b == [a EXCEPT !.lane = [a.lane EXCEPT ![t] = s]]
           z == [d EXCEPT !.lane[t] = Append(@, r), !.arrived = Append(@, r),
                          !.phase[r] = "waiting"]
           left == {} \cup {r}
<1>1. /\ Record(d) /\ Lines(d, {t}) /\ t \in Tenants /\ d.lane \in [Tenants -> Seq(Requests)]
  BY TenantsValid DEF Consistent, Lines
<1>2. /\ Consistent(a, left, {t}) /\ SameSettings(d, a) /\ SameLines(d, a)
      /\ SameBook(d, a) /\ SameShadow(d, a) /\ a.due = d.due
      /\ a.arrived = Append(d.arrived, r)
      /\ r \notin Waiters(d) \cup {} /\ r \notin ToSet(d.arrived)
  BY AskedConsistent
<1>3. b = z
  <2>1. a.lane = d.lane
    BY <1>2 DEF SameLines
  <2>2. z = [d EXCEPT !.lane = [d.lane EXCEPT ![t] = s], !.arrived = Append(@, r), !.phase[r] = "waiting"]
    OBVIOUS
  <2> DEFINE l == [d.lane EXCEPT ![t] = s]
  <2> HIDE DEF l
  <2>3. [a EXCEPT !.lane = l] = [d EXCEPT !.lane = l, !.arrived = Append(@, r), !.phase[r] = "waiting"]
    BY <1>1 DEF Asked, Record, Names
  <2> HIDE DEF a, z
  <2> QED
    BY <2>1, <2>2, <2>3 DEF l
<1>16. a.phase = [d.phase EXCEPT ![r] = "waiting"]
  BY <1>1 DEF Asked, Record, Names
<1> HIDE DEF z, t
<1>4. /\ d.lane[t] \in Seq(Requests) /\ IsInjective(d.lane[t]) /\ r \notin ToSet(d.lane[t])
      /\ \A x \in ToSet(d.lane[t]) : TenantKey[x] = t
  BY <1>1, <1>2 DEF Lines, LaneOf, Waiters, LaneWaiters
<1>5. /\ s \in Seq(Requests) /\ IsInjective(s) /\ ToSet(s) = ToSet(d.lane[t]) \cup {r}
      /\ s # <<>>
  <2>1. s # <<>>
    BY <1>4
  <2> QED
    BY <2>1, <1>4, AppendElements
<1> HIDE DEF s, a
<1>6. a.lane = d.lane /\ a.cfg = d.cfg /\ Record(a)
  BY <1>2 DEF SameLines, SameSettings, Consistent
<1>7. /\ Record(b) /\ b.queue = a.queue /\ b.lane = [a.lane EXCEPT ![t] = s]
      /\ b.lanes = a.lanes /\ b.recent = a.recent
  <2> DEFINE l == [a.lane EXCEPT ![t] = s]
  <2> HIDE DEF l
  <2> QED
    BY <1>6 DEF Record, Names
<1>8. SameSettings(a, b) /\ SameBook(a, b)
  BY <1>6 DEF Record, Names, SameSettings, SameBook
<1>9. SameShadow(a, b) /\ SameAnswers(a, b)
  BY <1>6 DEF Record, Names, SameShadow, SameAnswers
<1> HIDE DEF b
<1>10. LaneOrder(b, {})
  <2>1. /\ b.lane[t] # <<>> /\ \A u \in Tenants : u # t => b.lane[u] = a.lane[u]
    BY <1>1, <1>5, <1>6, <1>7
  <2>2. {u \in Tenants : b.lane[u] # <<>>} \cup {} = {u \in Tenants : a.lane[u] # <<>>} \cup {t}
    BY <1>1, <2>1
  <2>3. LaneOrder(a, {t})
    BY <1>2 DEF Consistent, Lines
  <2> QED
    BY <2>2, <2>3, <1>7 DEF LaneOrder
<1> DEFINE gone == {}
<1>11. /\ gone \cap ToSet(s) = {} /\ gone \cap Waiters(a) \subseteq ToSet(a.lane[t])
       /\ gone \cup ToSet(s) = left \cup ToSet(a.lane[t])
       /\ \A x \in ToSet(s) : TenantKey[x] = t
  BY <1>4, <1>5, <1>6 DEF t
<1> HIDE DEF gone, left
<1>12. Consistent(b, gone, {})
  <2>1. a.cfg.lanes \/ s = <<>>
    BY <1>6
  <2> DEFINE open == {t}
             now == {}
  <2>2. Consistent(a, left, open) /\ LaneOrder(b, now)
    BY <1>2, <1>10
  <2> HIDE DEF open, now
  <2>3. Consistent(b, gone, now)
    BY <2>1, <2>2, <1>1, <1>5, <1>7, <1>8, <1>9, <1>11, LaneChanged
  <2> QED
    BY <2>3 DEF now
<1>13. b.vqueue = d.vqueue /\ VirtualRoom(b) = VirtualRoom(d) /\ b.arrived = Append(d.arrived, r)
  BY <1>2, <1>8, <1>9 DEF SameSettings, SameShadow, SameAnswers, VirtualRoom
<1>14. VirtualStuck(b)
  BY <1>2, <1>13, VirtualAsked
<1>15. SameBook(d, b)
  BY <1>2, <1>8 DEF SameBook
<1>17. b.due = d.due /\ b.phase = [d.phase EXCEPT ![r] = "waiting"]
  BY <1>2, <1>9, <1>16 DEF SameAnswers
<1> QED
  BY <1>3, <1>12, <1>14, <1>15, <1>17 DEF gone, z, t

(* The whole of a lane acquire keeps the invariant.                        *)
LEMMA InLaneWhole ==
    ASSUME NEW d, Whole(d), NEW r \in Requests, d.phase[r] = "idle", d.cfg.lanes
    PROVE  LET t == TenantKey[r]
               a == GetLane(d, t)
               e == IF LaneAccepts(a, t, r)
                    THEN Dispatch(Dispatch(
                           [a EXCEPT !.lane[t] = Append(@, r), !.arrived = Append(@, r),
                                     !.phase[r] = "waiting"]))
                    ELSE RemoveEmptyLane(a, t)
           IN  Whole(e) /\ Within(d, e) /\ StaysDue(d, e)
<1> DEFINE t == TenantKey[r]
           a == GetLane(d, t)
           b == [a EXCEPT !.lane[t] = Append(@, r), !.arrived = Append(@, r),
                          !.phase[r] = "waiting"]
           g == Dispatch(b)
           f == Dispatch(g)
           k == RemoveEmptyLane(a, t)
<1>1. Consistent(d, {}, {}) /\ VirtualStuck(d) /\ Idle(d) /\ t \in Tenants
  BY TenantsValid DEF Whole
<1>2. Consistent(a, {}, {t}) /\ Serves(d, a) /\ SameBook(d, a) /\ a.queue = d.queue
  BY <1>1, GetLaneConsistent
<1> HIDE DEF a
<1>3. a.phase[r] = "idle" /\ a.cfg.lanes
  BY <1>2 DEF Serves, SameSettings, Calm
<1>4. VirtualStuck(a)
  BY <1>1, <1>2, VirtualServed
<1>5. /\ Consistent(b, {}, {}) /\ VirtualStuck(b) /\ SameBook(a, b)
      /\ b.due = a.due /\ b.phase = [a.phase EXCEPT ![r] = "waiting"]
  BY <1>2, <1>3, <1>4, LaneJoined
<1> HIDE DEF b
<1>6. Whole(g) /\ Serves(b, g)
  BY <1>5, Dispatched
<1> HIDE DEF g
<1>7. Whole(f) /\ Serves(g, f)
  BY <1>6, Dispatched DEF Whole
<1> HIDE DEF f
<1>8. Serves(b, f)
  BY <1>6, <1>7, ServesTwice
<1>9. Within(d, f)
  BY <1>2, <1>5, <1>8, WithinServed DEF SameBook
<1>10. Consistent(k, {}, {}) /\ Serves(a, k) /\ SameBook(a, k) /\ k.queue = a.queue
  <2> HIDE DEF t
  <2>1. {t} \subseteq {t}
    OBVIOUS
  <2> QED
    BY <2>1, <1>1, <1>2, RemoveEmptyLaneConsistent
<1> HIDE DEF k
<1>11. Serves(d, k) /\ SameBook(d, k) /\ k.queue = d.queue
  BY <1>2, <1>10, ServesTwice DEF SameBook
<1>12. /\ Room(k) = Room(d) /\ Shrunk(d.arrived, k.arrived) /\ Enforcing(k) = Enforcing(d)
  BY <1>11 DEF Serves, SameSettings, SameBook, Room, Enforcing
<1>13. Room(d) \in Int
  BY <1>1, QueueFinite
<1>14. Idle(k)
  BY <1>1, <1>10, <1>11, <1>12, <1>13, StuckStays DEF Idle
<1>15. VirtualStuck(k)
  BY <1>1, <1>10, <1>11, VirtualServed
<1>16. Within(d, k)
  BY <1>11 DEF Within, SameBook
<1>17. Whole(k)
  BY <1>10, <1>14, <1>15 DEF Whole
<1>18. StaysDue(d, k)
  BY <1>11, CalmNoJump DEF Serves
<1>19. StaysDue(d, f)
  <2>1. r \notin d.due /\ a.phase \in [Requests -> Phases]
    BY <1>2, IdleNotDue DEF Consistent, Answers
  <2>2. \A x \in Requests : x # r => b.phase[x] = a.phase[x]
    BY <2>1, <1>5
  <2> QED
    BY <2>1, <2>2, <1>2, <1>5, <1>8 DEF Serves, Calm, StaysDue
<1> QED
  BY <1>7, <1>9, <1>16, <1>17, <1>18, <1>19 DEF f, g, b, k, a

-----------------------------------------------------------------------------
(***************************************************************************)
(* The controller's steps keep the invariant, take no lease past the       *)
(* limit, let nobody jump the queue uncounted, and forget no deadline.     *)
(***************************************************************************)
Safe(d, e) == Whole(e) /\ Within(d, e) /\ Jumps(d, e) /\ StaysDue(d, e)

LEMMA AskedBy ==
    ASSUME NEW r \in Requests, NEW mode, Ask(r, mode), Whole(c)
    PROVE  ~c.shut /\ c.phase[r] = "idle" /\ c.cfg.mode = mode /\ c.limit \in Int /\ c.spent \in Nat
           /\ Cost[r] \in Nat
  BY QueueFinite, CostPositive DEF Ask, Whole

(* Each way of acquiring, one by one.                                      *)
LEMMA AcquireSoloSafe ==
    ASSUME Whole(c), NEW r \in Requests, AcquireSolo(r)
    PROVE  Safe(c, c')
<1> DEFINE e == Admit(c, r)
<1>1. /\ c.phase[r] = "idle" /\ Cost[r] <= c.cfg.max /\ c.leases = <<>> /\ Waiters(c) = {}
      /\ c' = e /\ Cost[r] \in Nat
  BY AskedBy DEF AcquireSolo
<1>2. /\ Whole(e) /\ SameSettings(c, e) /\ e.leases = Append(c.leases, r)
      /\ e.spent = c.spent + Cost[r] /\ c.spent = TotalCost(ToSet(c.leases))
      /\ e.due = c.due
  BY <1>1, AdmitWhole
<1> HIDE DEF e
<1>3. c.spent = 0
  <2>1. ToSet(<<>>) = {} /\ TotalCost({}) = 0
    BY CostNat, FS_EmptySet DEF ToSet
  <2> QED
    BY <1>1, <1>2, <2>1
<1>4. Len(e.leases) = 1 /\ e.spent <= e.cfg.max
  <2>1. Len(Append(<<>>, r)) = 1
    OBVIOUS
  <2> QED
    BY <1>1, <1>2, <1>3, <2>1 DEF SameSettings
<1> QED
  BY <1>1, <1>2, <1>4 DEF Safe, Within, Jumps, StaysDue

(* A lease at once.                                                        *)
LEMMA AcquireNowSafe ==
    ASSUME Whole(c), NEW r \in Requests, AcquireNow(r)
    PROVE  Safe(c, c')
<1> DEFINE e == Admit(c, r)
<1>1. /\ c.phase[r] = "idle" /\ Cost[r] <= Room(c) /\ Members(c.queue) = {}
      /\ c' = e /\ Cost[r] \in Nat /\ c.limit \in Int /\ c.spent \in Nat
  BY AskedBy DEF AcquireNow
<1>2. Whole(e) /\ SameSettings(c, e) /\ e.spent = c.spent + Cost[r] /\ e.due = c.due
  BY <1>1, AdmitWhole
<1> HIDE DEF e
<1>3. e.spent <= e.limit
  BY <1>1, <1>2 DEF SameSettings, Room
<1>4. ~c.cfg.lanes => Waiters(c) = {}
  <2>1. ToSet(<<>>) = {}
    BY DEF ToSet
  <2> QED
    BY <1>1, <2>1 DEF Whole, Consistent, Lines, LaneOf, Waiters, LaneWaiters
<1> QED
  BY <1>1, <1>2, <1>3, <1>4 DEF Safe, Within, Jumps, StaysDue

(* A place in the shared queue.                                            *)
LEMMA AcquireQueuedSafe ==
    ASSUME Whole(c), NEW r \in Requests, AcquireQueued(r)
    PROVE  Safe(c, c')
<1>1. c.phase[r] = "idle"
  BY AskedBy DEF AcquireQueued, MustWait
<1> QED
  BY <1>1, QueuedWhole DEF AcquireQueued, Safe

(* A place in a lane.                                                      *)
LEMMA AcquireInLaneSafe ==
    ASSUME Whole(c), NEW r \in Requests, AcquireInLane(r)
    PROVE  Safe(c, c')
<1>1. c.phase[r] = "idle" /\ c.cfg.lanes
  BY AskedBy DEF AcquireInLane, MustWait, InLane
<1>2. Whole(c') /\ Within(c, c') /\ StaysDue(c, c')
  BY <1>1, InLaneWhole DEF AcquireInLane
<1> QED
  BY <1>1, <1>2 DEF Safe, Jumps

(* A lease in shadow mode.                                                 *)
LEMMA AcquireShadowSafe ==
    ASSUME Whole(c), NEW r \in Requests, AcquireShadow(r)
    PROVE  Safe(c, c')
<1>1. c.phase[r] = "idle" /\ c.cfg.mode = "shadow"
  BY AskedBy, SMTT(40) DEF AcquireShadow
<1>2. Whole(c') /\ ~Enforcing(c') /\ c'.due = c.due
  BY <1>1, ShadowWhole DEF AcquireShadow
<1> QED
  BY <1>1, <1>2 DEF Safe, Within, Jumps, StaysDue, Enforcing

(* And every step.                                                         *)
LEMMA NextSafe ==
    ASSUME Whole(c), Next PROVE Safe(c, c')
<1>1. ASSUME NEW r \in Requests, AcquireSolo(r) PROVE Safe(c, c')
  BY <1>1, AcquireSoloSafe
<1>2. ASSUME NEW r \in Requests, AcquireNow(r) PROVE Safe(c, c')
  BY <1>2, AcquireNowSafe
<1>3. ASSUME NEW r \in Requests, AcquireQueued(r) PROVE Safe(c, c')
  BY <1>3, AcquireQueuedSafe
<1>4. ASSUME NEW r \in Requests, AcquireInLane(r) PROVE Safe(c, c')
  BY <1>4, AcquireInLaneSafe
<1>5. ASSUME NEW r \in Requests, AcquireShadow(r) PROVE Safe(c, c')
  BY <1>5, AcquireShadowSafe
<1>6. ASSUME NEW r \in Requests, DeadlinePasses(r) PROVE Safe(c, c')
  BY <1>6, DeadlineWhole, CalmNoJump DEF DeadlinePasses, Safe
<1>7. ASSUME NEW r \in Requests, Timer(r) PROVE Safe(c, c')
  <2>1. r \in Waiters(c)
    BY <1>7 DEF Timer, Whole, Consistent, Answers
  <2> QED
    BY <1>7, <2>1, ExpiredWhole, CalmNoJump DEF Timer, Safe
<1>8. ASSUME NEW r \in Requests, Abort(r) PROVE Safe(c, c')
  BY <1>8, ExpiredWhole, CalmNoJump DEF Abort, Safe
<1>9. ASSUME NEW r \in Requests, NEW bad \in BOOLEAN, Release(r, bad)
      PROVE  Safe(c, c')
  <2>1. r \in ToSet(c.leases) /\ c' = Dispatch(VirtualReleased(Returned(c, r, bad), r))
    BY <1>9 DEF Release, Returned
  <2> QED
    BY <2>1, ReleaseWhole, CalmNoJump DEF Safe
<1>10. ASSUME Tick PROVE Safe(c, c')
  <2> DEFINE N == 0..Len(c.recent)
             U == IF c.loaded THEN {"low", "mid", "high"} ELSE {"low"}
             S == IF c.completed THEN BOOLEAN ELSE {FALSE}
             W(n, util, steep) == DispatchVirtual(Dispatch(WindowClosed(LanesEvicted(c, n), util, steep)))
  <2>1. PICK n \in N, util \in U, steep \in S : c' = W(n, util, steep)
    <3>1. c' \in Ticked
      BY <1>10 DEF Tick
    <3>2. Ticked = {W(n, util, steep) : n \in N, util \in U, steep \in S}
      BY DEF Ticked
    <3> HIDE DEF N, U, S, W
    <3> QED
      BY <3>1, <3>2
  <2> QED
    BY <2>1, TickWhole, CalmNoJump DEF Safe
<1>11. ASSUME LaneTimer PROVE Safe(c, c')
  <2>1. PICK n \in 1..Len(c.recent) : c' = LanesEvicted(c, n)
    BY <1>11 DEF LaneTimer
  <2>2. n \in 0..Len(c.recent)
    BY <2>1
  <2>3. Whole(c') /\ Serves(c, c') /\ Within(c, c')
    BY <2>1, <2>2, LaneTimerWhole
  <2> QED
    BY <2>3, CalmNoJump DEF Serves, Safe
<1>12. ASSUME NEW p \in 1..3, ObservePressure(p) PROVE Safe(c, c')
  <2> DEFINE d == [c EXCEPT !.pressure = Max({@, p})]
  <2>1. Whole(d) /\ Within(c, d) /\ Calm(c, d)
    BY PressureObserved
  <2>2. d.cfg = c.cfg /\ d.leases = c.leases
    BY DEF Whole, Consistent, Record, Names
  <2> DEFINE e == DispatchVirtual(Dispatch(
                       [d EXCEPT !.limit = Max({d.cfg.min, CriticallyDecreased(@)}),
                                 !.consumed = TRUE]))
  <2>3. c' = d \/ c' = e
    BY <1>12, <2>2 DEF ObservePressure
  <2> HIDE DEF d
  <2>4. Whole(e) /\ Within(d, e) /\ Calm(d, e)
    BY <2>1, LimitCollapses
  <2> HIDE DEF e
  <2>5. Within(c, e) /\ Calm(c, e)
    BY <2>1, <2>2, <2>4 DEF Within, Calm
  <2> QED
    BY <2>1, <2>3, <2>4, <2>5, CalmNoJump DEF Safe
<1>13. ASSUME NEW f \in Configs, UpdateConfig(f) PROVE Safe(c, c')
  BY <1>13, UpdateConfigWhole, CalmNoJump DEF UpdateConfig, Safe
<1>14. ASSUME Shutdown PROVE Safe(c, c')
  BY <1>14, ShutdownWhole, CalmNoJump DEF Shutdown, Safe
<1> QED
  BY <1>1, <1>2, <1>3, <1>4, <1>5, <1>6, <1>7, <1>8, <1>9, <1>10, <1>11, <1>12, <1>13, <1>14 DEF Next

-----------------------------------------------------------------------------
(***************************************************************************)
(* What the controller promises.  Its invariant: the record is consistent  *)
(* and neither queue has a turn that fits, between any two calls.          *)
(***************************************************************************)
ControllerInv == Whole(c)

(* The controller record satisfies its invariant between any two calls,    *)
(* with all its loops, for any tenants, costs, configurations and lanes.   *)
THEOREM Invariance == Spec => []ControllerInv
<1>1. Init => ControllerInv
  BY FreshWhole DEF Init, ControllerInv
<1>2. ControllerInv /\ [Next]_vars => ControllerInv'
  <2>1. ASSUME ControllerInv, Next PROVE Whole(c')
    BY <2>1, NextSafe DEF ControllerInv, Safe
  <2>2. ASSUME ControllerInv, UNCHANGED vars PROVE Whole(c')
    BY <2>2 DEF vars, ControllerInv
  <2> QED
    BY <2>1, <2>2 DEF ControllerInv
<1> QED
  BY <1>1, <1>2, PTL DEF Spec

(* The fields of the record have their types, and the limit stays between  *)
(* the configured bounds (clampLimit), whatever adaptation, pressure and   *)
(* changes of configuration do to it.                                      *)
THEOREM TypeCorrect == Spec => []TypeOK
<1>1. ControllerInv => TypeOK
  <2> SUFFICES ASSUME Whole(c) PROVE TypeOK
    BY DEF ControllerInv
  <2>1. /\ Settings(c) /\ Book(c) /\ Lines(c, {}) /\ Shadow(c) /\ Answers(c, {}) /\ Times(c, {})
        /\ c.spent \in Nat /\ c.vcost \in Nat
    BY QueueFinite DEF Whole, Consistent
  <2>2. c.due \subseteq Requests
    BY <2>1, WaitersAreRequests DEF Answers
  <2>3. /\ c.cfg \in Configs \cup FirstConfigs /\ c.shut \in BOOLEAN
        /\ c.limit \in c.cfg.min..c.cfg.max /\ c.ceiling \in c.cfg.min..c.cfg.max
        /\ c.pressure \in 1..3
    BY <2>1 DEF Settings
  <2>4. {c.consumed, c.frozen, c.completed, c.loaded} \subseteq BOOLEAN
    BY <2>1 DEF Settings, Book
  <2>5. /\ c.leases \in Seq(Requests) /\ c.arrived \in Seq(Requests)
        /\ c.lane \in [Tenants -> Seq(Requests)] /\ {c.lanes, c.recent} \subseteq Seq(Tenants)
        /\ c.disp \in [Requests -> Dispositions] /\ c.phase \in [Requests -> Phases]
    BY <2>1 DEF Book, Times, Lines, LaneOrder, Shadow, Answers
  <2> QED
    BY <2>1, <2>2, <2>3, <2>4, <2>5 DEF TypeOK
<1> QED
  BY <1>1, Invariance, PTL

(* Nobody who waits is dropped without an answer, answered and still       *)
(* queued, or queued twice (expireEntry, deleteLane, updateConfig,         *)
(* shutdown).                                                              *)
THEOREM WaitersQueued == Spec => []WaitersAreQueued
<1>1. ControllerInv => WaitersAreQueued
  <2> SUFFICES ASSUME Whole(c) PROVE WaitersAreQueued
    BY DEF ControllerInv
  <2>1. Lines(c, {}) /\ Answers(c, {}) /\ Book(c)
    BY DEF Whole, Consistent
  <2>2. Waiters(c) \subseteq Requests /\ ToSet(c.leases) \subseteq Requests
    BY <2>1, WaitersAreRequests, ElementsFinite DEF Book
  <2>3. /\ {r \in Requests : c.phase[r] = "waiting"} = Waiters(c)
        /\ {r \in Requests : c.phase[r] = "held"} = ToSet(c.leases)
        /\ Members(c.queue) \cap LaneWaiters(c) = {} /\ c.due \subseteq Waiters(c)
    BY <2>1, <2>2 DEF Answers
  <2>4. \A t \in Tenants : IsInjective(c.lane[t]) /\ IsInjective(c.queue.bucket[t])
    BY <2>1 DEF Lines, LaneOf, WellFormed, Owned
  <2>5. ToSet(c.lanes) = {t \in Tenants : c.lane[t] # <<>>} /\ ToSet(c.recent) = ToSet(c.lanes)
    BY <2>1 DEF Lines, LaneOrder
  <2> QED
    BY <2>3, <2>4, <2>5 DEF WaitersAreQueued
<1> QED
  BY <1>1, Invariance, PTL

(* No capacity is left idle between two calls, in the shared queue or in   *)
(* the virtual one (dispatch, dispatchVirtual).                            *)
THEOREM CapacityIsUsed == Spec => []CapacityUsed
<1>1. ControllerInv => CapacityUsed
  <2> SUFFICES ASSUME Whole(c) PROVE CapacityUsed
    BY DEF ControllerInv
  <2>1. Room(c) \in Int /\ VirtualRoom(c) \in Int /\ c.limit \in Int /\ c.vcost \in Nat
    BY QueueFinite, VirtualFacts DEF Whole
  <2>2. Enforcing(c) /\ Room(c) > 0 => Turns(c.queue, Room(c), c.arrived) = {}
    BY <2>1 DEF Whole, Idle, Stuck
  <2>3. c.limit > c.vcost => Turns(c.vqueue, c.limit - c.vcost, c.arrived) = {}
    BY <2>1 DEF Whole, VirtualStuck, VirtualRoom
  <2> QED
    BY <2>2, <2>3 DEF CapacityUsed
<1> QED
  BY <1>1, Invariance, PTL

(* In enforce mode no lease is granted past the limit, save to a request   *)
(* that runs alone within the configured maximum (dispatch, acquire,       *)
(* shouldAdmitSolo).                                                       *)
THEOREM LeasesStayWithin == Spec => LeasesWithinLimit
<1>1. ControllerInv /\ [Next]_vars =>
         [/\ Enforcing(c')
              /\ ~(ToSet(c'.leases) \subseteq ToSet(c.leases))
              => \/ c'.spent <= c'.limit
                 \/ Len(c'.leases) = 1 /\ c'.spent <= c'.cfg.max]_vars
  BY NextSafe DEF Safe, Within, ControllerInv
<1> QED
  BY <1>1, Invariance, PTL DEF Spec, LeasesWithinLimit

(* Without lanes, whoever gets a lease in the call in which it asks brings *)
(* one of those who wait nearer to its reservation (the comment in         *)
(* acquire).                                                               *)
THEOREM JumpsCounted == Spec => JumpsAreCounted
<1>1. ControllerInv /\ [Next]_vars =>
         [\A r \in Requests :
                 /\ Enforcing(c) /\ ~c.cfg.lanes /\ Waiters(c) # {}
                 /\ c.phase[r] = "idle" /\ c'.phase[r] = "held"
                 => \E w \in Waiters(c) : c'.queue.skips[w] > c.queue.skips[w]]_vars
  BY NextSafe DEF Safe, Jumps, ControllerInv
<1> QED
  BY <1>1, Invariance, PTL DEF Spec, JumpsAreCounted

(***************************************************************************)
(* Every acquire that waits gets an answer (its timer, deleteLane,         *)
(* updateConfig, shutdown): a deadline that passed is kept by whatever     *)
(* leaves the request waiting, until its timer ends the wait.              *)
(***************************************************************************)
THEOREM WaitersAnswered == FairSpec => WaiterAnswered
<1> SUFFICES ASSUME NEW r \in Requests
             PROVE  FairSpec => ((c.phase[r] = "waiting") ~> (c.phase[r] # "waiting"))
  BY DEF WaiterAnswered
<1> DEFINE Waits_r == c.phase[r] = "waiting"
           Due_r == r \in c.due
           Early_r == r \in Waiters(c) \ c.due
<1>1. ControllerInv => (Waits_r <=> Early_r \/ Due_r)
  <2>1. Whole(c) => Answers(c, {})
    BY DEF Whole, Consistent
  <2> QED
    BY <2>1 DEF ControllerInv, Answers
<1>2. ControllerInv /\ [Next]_vars => (Due_r /\ Waits_r' => Due_r')
  BY NextSafe DEF ControllerInv, Safe, StaysDue, vars
<1>3. <<DeadlinePasses(r)>>_vars /\ ControllerInv => Due_r'
  BY DEF DeadlinePasses, ControllerInv, Whole, Consistent, Record, Names
<1>4. <<Timer(r)>>_vars /\ ControllerInv => ~Waits_r'
  <2> SUFFICES ASSUME Timer(r), Whole(c) PROVE ~Waits_r'
    BY DEF ControllerInv
  <2>1. r \in Waiters(c)
    BY DEF Timer, Whole, Consistent, Answers
  <2> QED
    BY <2>1, ExpiredWhole DEF Timer
<1>5. FairSpec => /\ Spec
                  /\ []<>(r \notin Waiters(c) \ c.due) \/ []<><<DeadlinePasses(r)>>_vars
                  /\ []<>(r \notin c.due) \/ []<><<Timer(r)>>_vars
  BY DEF FairSpec, TimersFire
<1>6. /\ r \notin Waiters(c) \ c.due <=> ~Early_r
      /\ r \notin c.due <=> ~Due_r
      /\ c.phase[r] = "waiting" <=> Waits_r
      /\ c.phase[r] # "waiting" <=> ~Waits_r
  OBVIOUS
<1> HIDE DEF Waits_r, Due_r, Early_r
<1> QED
  BY <1>1, <1>2, <1>3, <1>4, <1>5, <1>6, Invariance, PTL DEF Spec

(* The active cost is that of the leases, the virtual cost that of those   *)
(* counted as active, and the virtual queue holds those marked as queued   *)
(* (admit, releaseLease, releaseVirtual, rebuildVirtualState).             *)
THEOREM BudgetsBalance == Spec => []BudgetsAddUp
<1>1. ControllerInv => BudgetsAddUp
  <2> SUFFICES ASSUME Whole(c) PROVE BudgetsAddUp
    BY DEF ControllerInv
  <2>1. Book(c) /\ Shadow(c)
    BY DEF Whole, Consistent
  <2>2. Requests \ With("none") \subseteq ToSet(c.leases)
    BY <2>1 DEF Shadow, With
  <2>3. With("active") = Disposed(c, "active") /\ With("queued") = Disposed(c, "queued")
    BY DEF With, Disposed
  <2> QED
    BY <2>1, <2>2, <2>3 DEF BudgetsAddUp, Book, Shadow
<1> QED
  BY <1>1, Invariance, PTL

-----------------------------------------------------------------------------
(***************************************************************************)
(* The budget for heavy bodies, of any keys, weights and budgets.          *)
(***************************************************************************)
CONSTANTS Bodies, Keys, KeyOf, Weight, Structural, MaxHeavy, MaxBytes, Headroom, MaxCursor
VARIABLES stage, activeHeavy, activeHealthy, queuedBytes, waiting, lost

Heavy == INSTANCE BodyAdmission WITH Requests <- Bodies

(* The library's operators are the same inside Heavy and here.             *)
LEMMA SameLibrary ==
    /\ \A s, i : Heavy!RemoveAt(s, i) = RemoveAt(s, i)
    /\ \A s, e : Heavy!RemoveFirst(s, e) = RemoveFirst(s, e)
    /\ \A s : Heavy!ToSet(s) = ToSet(s) /\ Heavy!IsInjective(s) = IsInjective(s)
    /\ \A S : Heavy!Cardinality(S) = Cardinality(S) /\ Heavy!IsFiniteSet(S) = IsFiniteSet(S)
    /\ \A S : Heavy!MapThenSumSet(LAMBDA r : Weight[r], S) = Total(Weight, S)
<1>1. \A s, i : Heavy!RemoveAt(s, i) = RemoveAt(s, i)
  BY DEF Heavy!RemoveAt, RemoveAt
<1>2. \A s, e : Heavy!RemoveFirst(s, e) = RemoveFirst(s, e)
  BY DEF Heavy!RemoveFirst, RemoveFirst, Heavy!RemoveAt, RemoveAt, Heavy!SelectInSeq,
         SelectInSeq, Heavy!Min, Min
<1>3. \A s : Heavy!ToSet(s) = ToSet(s)
  BY DEF Heavy!ToSet, ToSet
<1>4. \A s : Heavy!IsInjective(s) = IsInjective(s)
  BY DEF Heavy!IsInjective, IsInjective
<1>5. \A S : Heavy!Cardinality(S) = Cardinality(S)
  BY DEF Heavy!Cardinality, Cardinality
<1>6. \A S : Heavy!IsFiniteSet(S) = IsFiniteSet(S)
  BY DEF Heavy!IsFiniteSet, IsFiniteSet
<1>7. \A S : Heavy!MapThenSumSet(LAMBDA r : Weight[r], S) = MapThenSumSet(LAMBDA r : Weight[r], S)
  BY DEF Heavy!MapThenSumSet, MapThenSumSet, Heavy!MapThenFoldSet, MapThenFoldSet
<1> QED
  BY <1>1, <1>2, <1>3, <1>4, <1>5, <1>6, <1>7 DEF Total

(* The queues: a key is in the rotation once if somebody of it waits, and  *)
(* each body waits at most once, under its own key.                        *)
Rotation(q) ==
    /\ q \in [queue : [Keys -> Seq(Bodies)], keys : Seq(Keys), cursor : Nat]
    /\ IsInjective(q.keys) /\ ToSet(q.keys) = {k \in Keys : q.queue[k] # <<>>}
    /\ \A k \in Keys : IsInjective(q.queue[k]) /\ \A r \in ToSet(q.queue[k]) : KeyOf[r] = k

InLine(q) == {r \in Bodies : r \in ToSet(q.queue[KeyOf[r]])}

Stages == {"out", "parked", "woken", "leaving", "heavy", "healthy"}
Charged == {"parked", "woken", "leaving"}
At(f, S) == {r \in Bodies : f[r] \in S}

(* Who is parked is in line, and whoever is in line has not been woken.    *)
Parking ==
    /\ stage \in [Bodies -> Stages]
    /\ Rotation(waiting)
    /\ At(stage, {"parked"}) \subseteq InLine(waiting)
    /\ InLine(waiting) \subseteq At(stage, {"parked", "leaving"})

Slots ==
    /\ activeHeavy = Cardinality(At(stage, {"heavy"})) /\ activeHeavy <= MaxHeavy
    /\ activeHealthy = Cardinality(At(stage, {"healthy"})) /\ activeHealthy <= Headroom

Charges ==
    /\ queuedBytes = Total(Weight, At(stage, Charged))
    /\ queuedBytes <= MaxBytes

Covered ==
    /\ lost \in BOOLEAN
    /\ At(stage, {"parked"}) # {} /\ ~lost =>
          Cardinality(At(stage, {"woken"})) >= MaxHeavy - activeHeavy

BodyInv ==
    /\ Parking /\ Slots /\ Charges /\ Covered
    /\ waiting.cursor <= MaxCursor

-----------------------------------------------------------------------------
(* The queues.                                                             *)

(* A body that is not in line joins the waiters of its key.                *)
LEMMA JoinedRotation ==
    ASSUME Heavy!BodiesWeighed, NEW q, Rotation(q), NEW r \in Bodies, r \notin InLine(q)
    PROVE  /\ Rotation(Heavy!Joined(q, r))
           /\ InLine(Heavy!Joined(q, r)) = InLine(q) \cup {r}
           /\ Heavy!Joined(q, r).cursor = q.cursor
<1> DEFINE k == KeyOf[r]
           p == Heavy!Joined(q, r)
           line == Append(q.queue[k], r)
<1>1. k \in Keys /\ r \notin ToSet(q.queue[k])
  BY DEF InLine, Heavy!BodiesWeighed
<1>2. /\ q.queue[k] \in Seq(Bodies) /\ IsInjective(q.queue[k]) /\ q.queue \in [Keys -> Seq(Bodies)]
      /\ q.keys \in Seq(Keys) /\ q.cursor \in Nat
      /\ q \in [queue : [Keys -> Seq(Bodies)], keys : Seq(Keys), cursor : Nat]
  BY <1>1 DEF Rotation
<1>3. line \in Seq(Bodies) /\ IsInjective(line) /\ ToSet(line) = ToSet(q.queue[k]) \cup {r}
      /\ line # <<>>
  <2> DEFINE s == q.queue[k]
  <2>1. s \in Seq(Bodies) /\ IsInjective(s) /\ r \notin ToSet(s)
    BY <1>1, <1>2
  <2> HIDE DEF s
  <2>2. Append(s, r) \in Seq(Bodies) /\ IsInjective(Append(s, r)) /\ ToSet(Append(s, r)) = ToSet(s) \cup {r}
    BY <2>1, AppendElements
  <2>3. Append(s, r) # <<>>
    BY <2>1
  <2> QED
    BY <2>2, <2>3 DEF s
<1>4. /\ p.queue = [q.queue EXCEPT ![k] = line] /\ p.cursor = q.cursor
      /\ p.keys = IF q.queue[k] = <<>> THEN Append(q.keys, k) ELSE q.keys
      /\ p \in [queue : [Keys -> Seq(Bodies)], keys : Seq(Keys), cursor : Nat]
  <2>1. p = [q EXCEPT !.queue[k] = line,
                      !.keys = IF q.queue[k] = <<>> THEN Append(@, k) ELSE @]
    BY DEF Heavy!Joined
  <2> DEFINE keys == IF q.queue[k] = <<>> THEN Append(q.keys, k) ELSE q.keys
  <2>2. keys \in Seq(Keys)
    BY <1>1, <1>2
  <2>3. p = [q EXCEPT !.queue[k] = line, !.keys = keys]
    BY <2>1, <1>2
  <2> HIDE DEF p, line, k, keys
  <2>4. /\ p.queue = [q.queue EXCEPT ![k] = line] /\ p.cursor = q.cursor /\ p.keys = keys
        /\ p \in [queue : [Keys -> Seq(Bodies)], keys : Seq(Keys), cursor : Nat]
    BY <2>2, <2>3, <1>1, <1>2, <1>3
  <2> QED
    BY <2>4 DEF keys
<1>5. /\ p.keys \in Seq(Keys) /\ IsInjective(p.keys)
      /\ ToSet(p.keys) = ToSet(q.keys) \cup {k}
  <2>1. IsInjective(q.keys) /\ (k \in ToSet(q.keys) <=> q.queue[k] # <<>>)
    BY <1>1 DEF Rotation
  <2>2. CASE q.queue[k] = <<>>
    BY <2>1, <2>2, <1>1, <1>2, <1>4, AppendElements
  <2>3. CASE q.queue[k] # <<>>
    BY <2>1, <2>3, <1>2, <1>4
  <2> QED
    BY <2>2, <2>3
<1> HIDE DEF p, line
<1>6. p.queue \in [Keys -> Seq(Bodies)] /\ p.queue[k] = line
      /\ \A j \in Keys \ {k} : p.queue[j] = q.queue[j]
  BY <1>1, <1>2, <1>3, <1>4
<1>7. ToSet(p.keys) = {j \in Keys : p.queue[j] # <<>>}
  BY <1>1, <1>3, <1>5, <1>6 DEF Rotation
<1>8. \A j \in Keys : IsInjective(p.queue[j]) /\ \A x \in ToSet(p.queue[j]) : KeyOf[x] = j
  BY <1>1, <1>3, <1>6 DEF Rotation
<1>9. Rotation(p)
  BY <1>2, <1>4, <1>5, <1>6, <1>7, <1>8 DEF Rotation
<1>10. InLine(p) = InLine(q) \cup {r}
  <2>1. \A x \in Bodies : KeyOf[x] \in Keys
    BY DEF Heavy!BodiesWeighed
  <2>2. \A x \in Bodies : x \in ToSet(p.queue[KeyOf[x]]) <=> x \in ToSet(q.queue[KeyOf[x]]) \/ x = r
    BY <2>1, <1>3, <1>6
  <2> QED
    BY <2>2 DEF InLine
<1> QED
  BY <1>4, <1>9, <1>10 DEF p

(* removeWaiter, whether r is in line or not.                              *)
LEMMA WithoutRotation ==
    ASSUME Heavy!BodiesWeighed, NEW q, Rotation(q), NEW r \in Bodies
    PROVE  /\ Rotation(Heavy!Without(q, r))
           /\ InLine(Heavy!Without(q, r)) = InLine(q) \ {r}
           /\ Heavy!Without(q, r).cursor <= q.cursor
<1> DEFINE k == KeyOf[r]
           line == RemoveFirst(q.queue[k], r)
           left == [q EXCEPT !.queue[k] = line]
           p == Heavy!Without(q, r)
           i == CHOOSE j \in DOMAIN q.keys : q.keys[j] = k
           empties == q.queue[k] # <<>> /\ line = <<>>
<1>1. k \in Keys /\ \A x \in Bodies : KeyOf[x] \in Keys
  BY DEF Heavy!BodiesWeighed
<1>2. /\ q.queue[k] \in Seq(Bodies) /\ IsInjective(q.queue[k]) /\ q.queue \in [Keys -> Seq(Bodies)]
      /\ q.keys \in Seq(Keys) /\ IsInjective(q.keys) /\ q.cursor \in Nat
      /\ q \in [queue : [Keys -> Seq(Bodies)], keys : Seq(Keys), cursor : Nat]
  BY <1>1 DEF Rotation
<1>3. line \in Seq(Bodies) /\ IsInjective(line) /\ ToSet(line) = ToSet(q.queue[k]) \ {r}
  BY <1>2, RemoveFirstElements
<1>4. /\ left.queue = [q.queue EXCEPT ![k] = line] /\ left.keys = q.keys /\ left.cursor = q.cursor
      /\ left \in [queue : [Keys -> Seq(Bodies)], keys : Seq(Keys), cursor : Nat]
      /\ left.queue[k] = line
  <2> HIDE DEF line, k
  <2> QED
    BY <1>1, <1>2, <1>3
<1>5. p = IF empties THEN Heavy!KeyRemoved(left, k) ELSE left
  <2>1. p = IF q.queue[k] # <<>> /\ left.queue[k] = <<>> THEN Heavy!KeyRemoved(left, k) ELSE left
    BY SameLibrary DEF Heavy!Without
  <2> HIDE DEF p, left, line
  <2> QED
    BY <2>1, <1>4
<1> HIDE DEF line, left
<1>6. /\ p.queue = left.queue
      /\ p \in [queue : [Keys -> Seq(Bodies)], keys : Seq(Keys), cursor : Nat]
      /\ p.cursor <= q.cursor
      /\ p.keys \in Seq(Keys) /\ IsInjective(p.keys)
      /\ ToSet(p.keys) = IF empties THEN ToSet(q.keys) \ {k} ELSE ToSet(q.keys)
  <2>1. CASE ~empties
    <3> HIDE DEF p, empties
    <3> QED
      BY <2>1, <1>2, <1>4, <1>5
  <2>2. CASE empties
    <3>1. k \in ToSet(q.keys)
      BY <2>2, <1>1 DEF Rotation
    <3>2. i \in 1..Len(q.keys) /\ q.keys[i] = k
      BY <3>1, <1>2 DEF ToSet
    <3> DEFINE keys == RemoveAt(q.keys, i)
    <3>3. keys \in Seq(Keys) /\ IsInjective(keys) /\ ToSet(keys) = ToSet(q.keys) \ {k}
      <4> HIDE DEF i, k, keys
      <4> DEFINE s == q.keys
      <4>1. s \in Seq(Keys) /\ IsInjective(s) /\ i \in 1..Len(s) /\ s[i] = k /\ keys = RemoveAt(s, i)
        BY <3>2, <1>2 DEF keys
      <4> HIDE DEF s
      <4>2. /\ RemoveAt(s, i) \in Seq(Keys) /\ IsInjective(RemoveAt(s, i))
            /\ ToSet(RemoveAt(s, i)) = ToSet(s) \ {s[i]}
        BY <4>1, RemoveAtElements
      <4> QED
        BY <4>1, <4>2 DEF s
    <3>4. p = [left EXCEPT !.keys = keys,
                           !.cursor = IF keys = <<>> THEN 0 ELSE IF i - 1 < @ THEN @ - 1 ELSE @]
      <4>1. p = Heavy!KeyRemoved(left, k)
        BY <2>2, <1>5
      <4>2. Heavy!KeyRemoved(left, k) =
              LET at == CHOOSE j \in DOMAIN left.keys : left.keys[j] = k
                  rest == RemoveAt(left.keys, at)
              IN  [left EXCEPT !.keys = rest,
                               !.cursor = IF rest = <<>> THEN 0 ELSE IF at - 1 < @ THEN @ - 1 ELSE @]
        BY SameLibrary DEF Heavy!KeyRemoved
      <4> HIDE DEF p
      <4> QED
        BY <4>1, <4>2, <1>4
    <3> HIDE DEF keys, i, p, k
    <3>5. /\ p.queue = left.queue /\ p.keys = keys
          /\ p.cursor = IF keys = <<>> THEN 0 ELSE IF i - 1 < q.cursor THEN q.cursor - 1 ELSE q.cursor
      BY <3>4, <1>4
    <3>6. p.cursor \in Nat /\ p.cursor <= q.cursor
      BY <3>2, <3>5, <1>2
    <3>7. p \in [queue : [Keys -> Seq(Bodies)], keys : Seq(Keys), cursor : Nat]
      BY <3>3, <3>4, <3>5, <3>6, <1>4
    <3> QED
      BY <2>2, <3>3, <3>5, <3>6, <3>7
  <2> QED
    BY <2>1, <2>2
<1> HIDE DEF p
<1>7. /\ p.queue \in [Keys -> Seq(Bodies)] /\ p.queue[k] = line
      /\ \A j \in Keys \ {k} : p.queue[j] = q.queue[j]
  BY <1>1, <1>2, <1>3, <1>4, <1>6
<1>8. ToSet(p.keys) = {j \in Keys : p.queue[j] # <<>>}
  <2>1. ToSet(q.keys) = {j \in Keys : q.queue[j] # <<>>}
    BY DEF Rotation
  <2>2. q.queue[k] = <<>> => line = <<>>
    BY <1>2, <1>3, EmptyElements
  <2> QED
    BY <2>1, <2>2, <1>1, <1>6, <1>7
<1>9. \A j \in Keys : IsInjective(p.queue[j]) /\ \A x \in ToSet(p.queue[j]) : KeyOf[x] = j
  BY <1>1, <1>3, <1>7 DEF Rotation
<1>10. Rotation(p)
  BY <1>6, <1>7, <1>8, <1>9 DEF Rotation
<1>11. InLine(p) = InLine(q) \ {r}
  <2>1. \A x \in Bodies : x \in ToSet(p.queue[KeyOf[x]]) <=> x \in ToSet(q.queue[KeyOf[x]]) /\ x # r
    BY <1>1, <1>3, <1>7
  <2> QED
    BY <2>1 DEF InLine
<1> QED
  BY <1>6, <1>10, <1>11 DEF p

-----------------------------------------------------------------------------
(* Counting.  g is f after r moved to s.                                   *)
Shifted(f, g, r, s) ==
    /\ g \in [Bodies -> Stages]
    /\ \A S : /\ s \in S => At(g, S) = At(f, S) \cup {r}
              /\ s \notin S => At(g, S) = At(f, S) \ {r}
              /\ s \in S /\ f[r] \in S => At(g, S) = At(f, S)
              /\ s \notin S /\ f[r] \notin S => At(g, S) = At(f, S)
    /\ \A S : Cardinality(At(f, S)) \in Nat /\ Cardinality(At(g, S)) \in Nat
    /\ \A S : /\ s \in S /\ f[r] \notin S => Cardinality(At(g, S)) = Cardinality(At(f, S)) + 1
              /\ s \notin S /\ f[r] \in S => Cardinality(At(g, S)) = Cardinality(At(f, S)) - 1

(* What a move does to the sets of those at some stages.                   *)
LEMMA AtMoved ==
    ASSUME IsFiniteSet(Bodies), NEW f \in [Bodies -> Stages], NEW r \in Bodies, NEW s \in Stages,
           NEW g, g = [f EXCEPT ![r] = s]
    PROVE  Shifted(f, g, r, s)
<1>1. g \in [Bodies -> Stages] /\ \A x \in Bodies : g[x] = IF x = r THEN s ELSE f[x]
  OBVIOUS
<1>2. ASSUME NEW S
      PROVE  /\ s \in S => At(g, S) = At(f, S) \cup {r}
             /\ s \notin S => At(g, S) = At(f, S) \ {r}
             /\ r \in At(f, S) <=> f[r] \in S
  BY <1>1 DEF At
<1>3. ASSUME NEW S
      PROVE  /\ IsFiniteSet(At(f, S)) /\ Cardinality(At(f, S)) \in Nat
             /\ Cardinality(At(g, S)) \in Nat
  <2>1. At(f, S) \subseteq Bodies /\ At(g, S) \subseteq Bodies
    BY DEF At
  <2> QED
    BY <2>1, FS_Subset, FS_CardinalityType
<1>4. ASSUME NEW S, s \in S, f[r] \notin S
      PROVE  Cardinality(At(g, S)) = Cardinality(At(f, S)) + 1
  BY <1>2, <1>3, <1>4, FS_AddElement, ZenonT(60)
<1>5. ASSUME NEW S, s \notin S, f[r] \in S
      PROVE  Cardinality(At(g, S)) = Cardinality(At(f, S)) - 1
  <2>1. IsFiniteSet(At(f, S)) /\ r \in At(f, S) /\ At(g, S) = At(f, S) \ {r}
    BY <1>2, <1>3, <1>5
  <2>2. Cardinality(At(f, S) \ {r}) = Cardinality(At(f, S)) - 1
    BY <2>1, FS_RemoveElement
  <2> QED
    BY <2>1, <2>2
<1>6. ASSUME NEW S
      PROVE  /\ s \in S /\ f[r] \in S => At(g, S) = At(f, S)
             /\ s \notin S /\ f[r] \notin S => At(g, S) = At(f, S)
  BY <1>1 DEF At
<1> QED
  BY <1>1, <1>2, <1>3, <1>4, <1>5, <1>6 DEF Shifted

(* The bytes of those who are charged for, with and without r.             *)
LEMMA ChargeMoved ==
    ASSUME Heavy!BodiesWeighed, NEW f \in [Bodies -> Stages], NEW r \in Bodies
    PROVE  LET rest == Total(Weight, At(f, Charged) \ {r})
           IN  /\ rest \in Nat /\ Weight[r] \in Nat
               /\ Total(Weight, (At(f, Charged) \ {r}) \cup {r}) = rest + Weight[r]
               /\ f[r] \in Charged => Total(Weight, At(f, Charged)) = rest + Weight[r]
               /\ f[r] \notin Charged => Total(Weight, At(f, Charged)) = rest
<1> DEFINE A == At(f, Charged)
           B == A \ {r}
<1>1. \A x \in Bodies : Weight[x] \in Nat
  BY DEF Heavy!BodiesWeighed
<1>2. IsFiniteSet(Bodies)
  BY SameLibrary DEF Heavy!BodiesWeighed
<1>3. A \in SUBSET Bodies /\ (r \in A <=> f[r] \in Charged)
  BY DEF At
<1> HIDE DEF A
<1>4. B \in SUBSET Bodies /\ IsFiniteSet(B) /\ r \notin B
  BY <1>2, <1>3, FS_Subset
<1>5. r \in A => A = B \cup {r}
  BY <1>3
<1>6. r \notin A => A = B
  BY <1>3
<1> HIDE DEF B
<1>7. Total(Weight, B) \in Nat
  BY <1>1, <1>4, TotalNat
<1>8. Total(Weight, B \cup {r}) = Total(Weight, B) + Weight[r]
  BY <1>1, <1>4, TotalWith
<1> QED
  BY <1>1, <1>3, <1>5, <1>6, <1>7, <1>8 DEF A, B

(* What a waiter that leaves its queue gives back.                         *)
LEMMA UnchargedIs ==
    ASSUME Heavy!BodiesWeighed, BodyInv, NEW r \in Bodies, stage[r] \in Charged
    PROVE  /\ Heavy!Uncharged(r) = Total(Weight, At(stage, Charged) \ {r})
           /\ Heavy!Uncharged(r) \in Nat /\ Heavy!Uncharged(r) <= MaxBytes
<1> DEFINE rest == Total(Weight, At(stage, Charged) \ {r})
<1>1. stage \in [Bodies -> Stages] /\ queuedBytes <= MaxBytes
      /\ queuedBytes = Total(Weight, At(stage, Charged)) /\ MaxBytes \in Nat
  BY DEF BodyInv, Parking, Charges, Heavy!BodiesWeighed
<1>2. rest \in Nat /\ Weight[r] \in Nat /\ queuedBytes = rest + Weight[r]
  BY <1>1, ChargeMoved
<1> HIDE DEF rest
<1>3. Heavy!Uncharged(r) = rest
  BY <1>2 DEF Heavy!Uncharged
<1> QED
  BY <1>1, <1>2, <1>3 DEF rest

-----------------------------------------------------------------------------
(* The actions.                                                            *)

(* The initial state.                                                      *)
LEMMA BodyInitInv ==
    ASSUME Heavy!BodiesWeighed, Heavy!Init
    PROVE  BodyInv
<1>1. /\ stage = [r \in Bodies |-> "out"] /\ activeHeavy = 0 /\ activeHealthy = 0
      /\ queuedBytes = 0 /\ lost = FALSE
      /\ waiting = [queue |-> [k \in Keys |-> <<>>], keys |-> <<>>, cursor |-> 0]
  BY DEF Heavy!Init, Heavy!Nobody
<1>2. /\ {MaxHeavy, MaxBytes, Headroom, MaxCursor} \subseteq Nat /\ IsFiniteSet(Bodies)
      /\ \A x \in Bodies : Weight[x] \in Nat /\ KeyOf[x] \in Keys
  BY SameLibrary DEF Heavy!BodiesWeighed
<1>3. stage \in [Bodies -> Stages] /\ \A S : "out" \notin S => At(stage, S) = {}
  BY <1>1 DEF Stages, At
<1>4. Cardinality({}) = 0 /\ IsFiniteSet({}) /\ Total(Weight, {}) = 0
  BY <1>2, FS_EmptySet, TotalNat
<1>5. Rotation(waiting) /\ InLine(waiting) = {}
  <2>1. ToSet(<<>>) = {} /\ IsInjective(<<>>)
    BY DEF ToSet, IsInjective
  <2>2. /\ waiting \in [queue : [Keys -> Seq(Bodies)], keys : Seq(Keys), cursor : Nat]
        /\ waiting.keys = <<>> /\ \A k \in Keys : waiting.queue[k] = <<>>
    BY <1>1
  <2>3. Rotation(waiting)
    BY <2>1, <2>2 DEF Rotation
  <2> QED
    BY <2>1, <2>2, <2>3, <1>2 DEF InLine
<1>6. Parking
  BY <1>3, <1>5 DEF Parking
<1>7. Slots /\ Charges /\ Covered
  <2>1. /\ At(stage, {"heavy"}) = {} /\ At(stage, {"healthy"}) = {} /\ At(stage, {"parked"}) = {}
        /\ At(stage, Charged) = {}
    BY <1>3 DEF Charged
  <2>2. Slots
    <3>1. activeHeavy = 0 /\ activeHealthy = 0 /\ MaxHeavy \in Nat /\ Headroom \in Nat
      BY <1>1, <1>2
    <3> QED
      BY <3>1, <2>1, <1>4 DEF Slots
  <2>3. Charges
    BY <2>1, <1>1, <1>2, <1>4 DEF Charges
  <2>4. Covered
    BY <2>1, <1>1 DEF Covered
  <2> QED
    BY <2>2, <2>3, <2>4
<1>8. waiting.cursor <= MaxCursor
  BY <1>1, <1>2
<1> QED
  BY <1>6, <1>7, <1>8 DEF BodyInv

(* Who is moved from one stage to another without a change of the queues.  *)
LEMMA ParkingMoved ==
    ASSUME BodyInv, NEW r \in Bodies, NEW s \in Stages, IsFiniteSet(Bodies),
           stage' = [stage EXCEPT ![r] = s], waiting' = waiting,
           stage[r] \notin {"parked", "leaving"} \/ s = "leaving", s # "parked"
    PROVE  Parking'
<1>1. stage \in [Bodies -> Stages] /\ stage' \in [Bodies -> Stages]
      /\ \A x \in Bodies : stage'[x] = IF x = r THEN s ELSE stage[x]
  BY DEF BodyInv, Parking
<1>2. At(stage', {"parked"}) \subseteq At(stage, {"parked"})
  BY <1>1 DEF At
<1>3. At(stage, {"parked", "leaving"}) \subseteq At(stage', {"parked", "leaving"})
  BY <1>1 DEF At
<1> QED
  BY <1>1, <1>2, <1>3 DEF BodyInv, Parking

-----------------------------------------------------------------------------
(* One round of acquireHeavyWithin.                                        *)
LEMMA TryKeeps ==
    ASSUME Heavy!BodiesWeighed, BodyInv, NEW r \in Bodies, stage[r] \in {"out", "woken"},
           NEW bytes, bytes = Total(Weight, At(stage, Charged) \ {r}), bytes <= MaxBytes,
           Heavy!Try(r, bytes)
    PROVE  BodyInv'
<1>1. /\ stage \in [Bodies -> Stages] /\ IsFiniteSet(Bodies) /\ lost \in BOOLEAN
      /\ {MaxHeavy, MaxBytes, Headroom, MaxCursor} \subseteq Nat
      /\ r \notin InLine(waiting) /\ Rotation(waiting)
  BY SameLibrary DEF BodyInv, Parking, Covered, Heavy!BodiesWeighed, At
<1>2. /\ activeHeavy = Cardinality(At(stage, {"heavy"})) /\ activeHeavy <= MaxHeavy
      /\ activeHealthy = Cardinality(At(stage, {"healthy"})) /\ activeHealthy <= Headroom
      /\ At(stage, {"parked"}) # {} /\ ~lost =>
            Cardinality(At(stage, {"woken"})) >= MaxHeavy - activeHeavy
  BY DEF BodyInv, Slots, Covered
<1>3. /\ bytes \in Nat /\ Weight[r] \in Nat
      /\ Total(Weight, (At(stage, Charged) \ {r}) \cup {r}) = bytes + Weight[r]
  BY <1>1, ChargeMoved
<1>4. {"heavy", "healthy", "parked", "woken", "out"} \subseteq Stages
      /\ "heavy" \notin Charged /\ "out" \notin Charged /\ "parked" \in Charged
  BY DEF Stages, Charged
<1>5. CASE /\ activeHeavy < MaxHeavy
           /\ stage' = [stage EXCEPT ![r] = "heavy"]
           /\ activeHeavy' = activeHeavy + 1
           /\ lost' = (lost /\ activeHeavy' < MaxHeavy)
           /\ queuedBytes' = bytes
           /\ UNCHANGED <<activeHealthy, waiting>>
  <2>0. Shifted(stage, stage', r, "heavy")
    BY <1>1, <1>4, <1>5, AtMoved
  <2>1. Parking'
    BY <1>1, <1>4, <1>5, ParkingMoved
  <2>2. /\ Cardinality(At(stage', {"heavy"})) = Cardinality(At(stage, {"heavy"})) + 1
        /\ At(stage', {"healthy"}) = At(stage, {"healthy"})
        /\ At(stage', {"parked"}) = At(stage, {"parked"})
        /\ At(stage', Charged) = At(stage, Charged) \ {r}
        /\ Cardinality(At(stage, {"heavy"})) \in Nat
    BY <2>0, <1>5 DEF Shifted, Charged
  <2>3. /\ Cardinality(At(stage, {"woken"})) \in Nat /\ Cardinality(At(stage', {"woken"})) \in Nat
        /\ Cardinality(At(stage', {"woken"})) >= Cardinality(At(stage, {"woken"})) - 1
    <3>1. Cardinality(At(stage, {"woken"})) \in Nat /\ Cardinality(At(stage', {"woken"})) \in Nat
      BY <2>0 DEF Shifted
    <3>2. CASE stage[r] = "woken"
      <4>1. Cardinality(At(stage', {"woken"})) = Cardinality(At(stage, {"woken"})) - 1
        BY <2>0, <3>2 DEF Shifted
      <4> QED
        BY <3>1, <4>1
    <3>3. CASE stage[r] = "out"
      <4>1. At(stage', {"woken"}) = At(stage, {"woken"})
        BY <2>0, <3>3 DEF Shifted
      <4> QED
        BY <3>1, <4>1
    <3> QED
      BY <3>2, <3>3
  <2>4. Slots'
    BY <1>1, <1>2, <1>5, <2>2 DEF Slots
  <2>5. Charges'
    BY <1>5, <2>2 DEF Charges
  <2>6. Covered'
    <3>1. lost' \in BOOLEAN
      BY <1>5
    <3>2. activeHeavy \in Nat /\ MaxHeavy \in Nat /\ activeHeavy' = activeHeavy + 1
      BY <1>1, <1>2, <1>5, <2>2
    <3>3. CASE lost
      <4>0. lost' = (lost /\ activeHeavy' < MaxHeavy)
        BY <1>5
      <4>1. ~lost' => activeHeavy' >= MaxHeavy
        <5>1. ~lost' => ~(activeHeavy' < MaxHeavy)
          BY <4>0, <3>3, Zenon
        <5>2. ~(activeHeavy' < MaxHeavy) => activeHeavy' >= MaxHeavy
          BY <3>2
        <5> QED
          BY <5>1, <5>2, Zenon
      <4>2. ~lost' => Cardinality(At(stage', {"woken"})) >= MaxHeavy - activeHeavy'
        BY <4>1, <3>2, <2>3
      <4> QED
        BY <3>1, <4>2 DEF Covered
    <3>4. CASE ~lost
      <4>1. At(stage', {"parked"}) # {} =>
               Cardinality(At(stage, {"woken"})) >= MaxHeavy - activeHeavy
        BY <3>4, <1>2, <2>2
      <4>2. At(stage', {"parked"}) # {} =>
               Cardinality(At(stage', {"woken"})) >= MaxHeavy - activeHeavy'
        BY <4>1, <3>2, <2>3
      <4> QED
        BY <3>1, <4>2 DEF Covered
    <3> QED
      BY <3>3, <3>4
  <2> QED
    BY <1>5, <2>1, <2>4, <2>5, <2>6 DEF BodyInv
<1>6. CASE /\ activeHeavy >= MaxHeavy
           /\ stage' = [stage EXCEPT ![r] = "out"]
           /\ queuedBytes' = bytes
           /\ UNCHANGED <<activeHeavy, activeHealthy, waiting, lost>>
  <2>0. Shifted(stage, stage', r, "out")
    BY <1>1, <1>4, <1>6, AtMoved
  <2>1. Parking'
    BY <1>1, <1>4, <1>6, ParkingMoved
  <2>2. /\ At(stage', {"heavy"}) = At(stage, {"heavy"})
        /\ At(stage', {"healthy"}) = At(stage, {"healthy"})
        /\ At(stage', Charged) = At(stage, Charged) \ {r}
        /\ Cardinality(At(stage', {"woken"})) \in Nat
        /\ Cardinality(At(stage, {"heavy"})) \in Nat
    BY <2>0, <1>6 DEF Shifted, Charged
  <2>3. Slots'
    BY <1>2, <1>6, <2>2 DEF Slots
  <2>4. Charges'
    BY <1>6, <2>2 DEF Charges
  <2>5. Covered'
    BY <1>1, <1>2, <1>6, <2>2 DEF Covered
  <2> QED
    BY <1>6, <2>1, <2>3, <2>4, <2>5 DEF BodyInv
<1>7. CASE /\ activeHeavy >= MaxHeavy
           /\ Weight[r] = 0 \/ bytes + Weight[r] <= MaxBytes
           /\ stage' = [stage EXCEPT ![r] = "parked"]
           /\ queuedBytes' = bytes + Weight[r]
           /\ waiting' = Heavy!Joined(waiting, r)
           /\ UNCHANGED <<activeHeavy, activeHealthy, lost>>
  <2>0. Shifted(stage, stage', r, "parked")
    BY <1>1, <1>4, <1>7, AtMoved
  <2>1. /\ At(stage', {"heavy"}) = At(stage, {"heavy"})
        /\ At(stage', {"healthy"}) = At(stage, {"healthy"})
        /\ At(stage', Charged) = At(stage, Charged) \cup {r}
        /\ Cardinality(At(stage', {"woken"})) \in Nat
        /\ Cardinality(At(stage, {"heavy"})) \in Nat
        /\ At(stage', {"parked"}) = At(stage, {"parked"}) \cup {r}
        /\ stage' \in [Bodies -> Stages]
    BY <2>0, <1>7 DEF Shifted, Charged
  <2>2. /\ Rotation(waiting') /\ InLine(waiting') = InLine(waiting) \cup {r}
        /\ waiting'.cursor = waiting.cursor
    BY <1>1, <1>7, JoinedRotation
  <2>3. At(stage, {"parked", "leaving"}) \cup {r} \subseteq At(stage', {"parked", "leaving"})
    BY <1>1, <1>7 DEF At
  <2>4. Parking'
    BY <2>1, <2>2, <2>3 DEF BodyInv, Parking
  <2>5. Slots'
    BY <1>2, <1>7, <2>1 DEF Slots
  <2>6. Charges'
    <3>1. At(stage, Charged) \cup {r} = (At(stage, Charged) \ {r}) \cup {r}
      OBVIOUS
    <3>2. queuedBytes' <= MaxBytes
      BY <1>3, <1>7
    <3> QED
      BY <1>3, <1>7, <2>1, <3>1, <3>2 DEF Charges
  <2>7. Covered'
    BY <1>1, <1>2, <1>7, <2>1 DEF Covered
  <2> QED
    BY <2>2, <2>4, <2>5, <2>6, <2>7 DEF BodyInv
<1> QED
  BY <1>5, <1>6, <1>7 DEF Heavy!Try

-----------------------------------------------------------------------------
(* A request that did not wait.                                            *)
LEMMA ArriveKeeps ==
    ASSUME Heavy!BodiesWeighed, BodyInv, NEW r \in Bodies, Heavy!Arrive(r)
    PROVE  BodyInv'
<1>1. stage[r] = "out" /\ Heavy!Try(r, queuedBytes)
  BY DEF Heavy!Arrive
<1>2. stage \in [Bodies -> Stages] /\ queuedBytes <= MaxBytes
      /\ queuedBytes = Total(Weight, At(stage, Charged))
  BY DEF BodyInv, Parking, Charges
<1>3. queuedBytes = Total(Weight, At(stage, Charged) \ {r})
  BY <1>1, <1>2, ChargeMoved DEF Charged
<1> QED
  BY <1>1, <1>2, <1>3, TryKeeps

(* A waiter that was woken.                                                *)
LEMMA ResumeKeeps ==
    ASSUME Heavy!BodiesWeighed, BodyInv, NEW r \in Bodies, Heavy!Resume(r)
    PROVE  BodyInv'
<1>1. stage[r] = "woken" /\ Heavy!Try(r, Heavy!Uncharged(r))
  BY DEF Heavy!Resume
<1>2. /\ Heavy!Uncharged(r) = Total(Weight, At(stage, Charged) \ {r})
      /\ Heavy!Uncharged(r) <= MaxBytes
  BY <1>1, UnchargedIs DEF Charged
<1> QED
  BY <1>1, <1>2, TryKeeps

(* The headroom's lease, and its return.                                   *)
LEMMA HealthyKeeps ==
    ASSUME Heavy!BodiesWeighed, BodyInv, NEW r \in Bodies,
           Heavy!ArriveHealthy(r) \/ Heavy!ReleaseHealthy(r)
    PROVE  BodyInv'
<1>1. /\ stage \in [Bodies -> Stages] /\ IsFiniteSet(Bodies)
      /\ {MaxHeavy, MaxBytes, Headroom, MaxCursor} \subseteq Nat
  BY SameLibrary DEF BodyInv, Parking, Heavy!BodiesWeighed
<1>2. /\ activeHeavy = Cardinality(At(stage, {"heavy"})) /\ activeHeavy <= MaxHeavy
      /\ activeHealthy = Cardinality(At(stage, {"healthy"})) /\ activeHealthy <= Headroom
  BY DEF BodyInv, Slots
<1>3. {"healthy", "out"} \subseteq Stages /\ "healthy" \notin Charged /\ "out" \notin Charged
  BY DEF Stages, Charged
<1>4. PICK s \in {"healthy", "out"} :
         /\ stage[r] \in {"healthy", "out"} /\ stage[r] # s
         /\ stage' = [stage EXCEPT ![r] = s]
         /\ activeHealthy' = IF s = "healthy" THEN activeHealthy + 1 ELSE activeHealthy - 1
         /\ s = "healthy" => activeHealthy < Headroom
         /\ UNCHANGED <<activeHeavy, queuedBytes, waiting, lost>>
  BY DEF Heavy!ArriveHealthy, Heavy!ReleaseHealthy
<1>5. Shifted(stage, stage', r, s)
  BY <1>1, <1>3, <1>4, AtMoved
<1>6. Parking'
  BY <1>1, <1>3, <1>4, ParkingMoved
<1>7. /\ At(stage', {"heavy"}) = At(stage, {"heavy"})
      /\ At(stage', {"parked"}) = At(stage, {"parked"})
      /\ At(stage', {"woken"}) = At(stage, {"woken"})
      /\ At(stage', Charged) = At(stage, Charged)
  BY <1>4, <1>5 DEF Shifted, Charged
<1>8. /\ Cardinality(At(stage, {"healthy"})) \in Nat
      /\ s = "healthy" =>
           Cardinality(At(stage', {"healthy"})) = Cardinality(At(stage, {"healthy"})) + 1
      /\ s = "out" =>
           Cardinality(At(stage', {"healthy"})) = Cardinality(At(stage, {"healthy"})) - 1
  BY <1>4, <1>5 DEF Shifted
<1>9. Slots'
  BY <1>1, <1>2, <1>4, <1>7, <1>8 DEF Slots
<1>10. Charges' /\ Covered'
  BY <1>4, <1>7 DEF BodyInv, Charges, Covered
<1> QED
  BY <1>4, <1>6, <1>9, <1>10 DEF BodyInv

(* A waiter leaves its queue at its deadline, or when its client is gone.  *)
LEMMA LeaveBodyKeeps ==
    ASSUME Heavy!BodiesWeighed, BodyInv, NEW r \in Bodies, Heavy!Expire(r) \/ Heavy!Leave(r)
    PROVE  BodyInv'
<1>1. /\ stage \in [Bodies -> Stages] /\ IsFiniteSet(Bodies) /\ Rotation(waiting)
      /\ {MaxHeavy, MaxBytes, Headroom, MaxCursor} \subseteq Nat
  BY SameLibrary DEF BodyInv, Parking, Heavy!BodiesWeighed
<1>2. /\ stage[r] \in {"parked", "leaving"} /\ stage[r] \in Charged
      /\ stage' = [stage EXCEPT ![r] = "out"]
      /\ queuedBytes' = Heavy!Uncharged(r)
      /\ waiting' = Heavy!Without(waiting, r)
      /\ UNCHANGED <<activeHeavy, activeHealthy, lost>>
  BY DEF Heavy!Expire, Heavy!Leave, Charged
<1>3. "out" \in Stages /\ "out" \notin Charged
  BY DEF Stages, Charged
<1>4. Shifted(stage, stage', r, "out")
  BY <1>1, <1>2, <1>3, AtMoved
<1>5. /\ At(stage', {"heavy"}) = At(stage, {"heavy"})
      /\ At(stage', {"healthy"}) = At(stage, {"healthy"})
      /\ At(stage', {"woken"}) = At(stage, {"woken"})
      /\ At(stage', Charged) = At(stage, Charged) \ {r}
      /\ At(stage', {"parked"}) = At(stage, {"parked"}) \ {r}
      /\ At(stage', {"parked", "leaving"}) = At(stage, {"parked", "leaving"}) \ {r}
      /\ stage' \in [Bodies -> Stages]
  BY <1>2, <1>3, <1>4 DEF Shifted
<1>6. /\ Rotation(waiting') /\ InLine(waiting') = InLine(waiting) \ {r}
      /\ waiting'.cursor <= waiting.cursor
  BY <1>1, <1>2, WithoutRotation
<1>7. Parking'
  BY <1>5, <1>6 DEF BodyInv, Parking
<1>8. Slots'
  BY <1>2, <1>5 DEF BodyInv, Slots
<1>9. Charges'
  BY <1>2, <1>5, UnchargedIs DEF Charges
<1>10. Covered'
  <2>1. At(stage', {"parked"}) # {} => At(stage, {"parked"}) # {}
    BY <1>5
  <2> QED
    BY <2>1, <1>2, <1>5 DEF BodyInv, Covered
<1>11. waiting'.cursor <= MaxCursor
  <2>1. waiting.cursor \in Nat /\ waiting'.cursor \in Nat /\ waiting.cursor <= MaxCursor
    BY <1>1, <1>6 DEF BodyInv, Rotation
  <2> QED
    BY <2>1, <1>1, <1>6
<1> QED
  BY <1>7, <1>8, <1>9, <1>10, <1>11 DEF BodyInv

(* The client goes away while its request waits or has been woken.         *)
LEMMA AbortKeeps ==
    ASSUME Heavy!BodiesWeighed, BodyInv, NEW r \in Bodies, Heavy!Abort(r)
    PROVE  BodyInv'
<1>1. stage \in [Bodies -> Stages] /\ IsFiniteSet(Bodies) /\ lost \in BOOLEAN
  BY SameLibrary DEF BodyInv, Parking, Covered, Heavy!BodiesWeighed
<1>2. /\ stage[r] \in {"parked", "woken"} /\ stage[r] \in Charged
      /\ stage' = [stage EXCEPT ![r] = "leaving"]
      /\ lost' = (lost \/ stage[r] = "woken")
      /\ UNCHANGED <<activeHeavy, activeHealthy, queuedBytes, waiting>>
  BY DEF Heavy!Abort, Charged
<1>3. "leaving" \in Stages /\ "leaving" \in Charged
  BY DEF Stages, Charged
<1>4. Shifted(stage, stage', r, "leaving")
  BY <1>1, <1>2, <1>3, AtMoved
<1>5. /\ At(stage', {"heavy"}) = At(stage, {"heavy"})
      /\ At(stage', {"healthy"}) = At(stage, {"healthy"})
      /\ stage[r] = "parked" => At(stage', {"woken"}) = At(stage, {"woken"})
      /\ At(stage', Charged) = At(stage, Charged)
      /\ At(stage', {"parked"}) = At(stage, {"parked"}) \ {r}
  BY <1>2, <1>3, <1>4 DEF Shifted
<1>6. Parking'
  BY <1>1, <1>2, <1>3, ParkingMoved
<1>7. Slots' /\ Charges'
  BY <1>2, <1>5 DEF BodyInv, Slots, Charges
<1>8. Covered'
  <2>1. lost' \in BOOLEAN
    BY <1>2
  <2>2. CASE stage[r] = "woken"
    BY <2>1, <2>2, <1>2 DEF Covered
  <2>3. CASE stage[r] = "parked"
    <3>1. (lost' <=> lost) /\ (At(stage', {"parked"}) # {} => At(stage, {"parked"}) # {})
          /\ At(stage', {"woken"}) = At(stage, {"woken"}) /\ activeHeavy' = activeHeavy
      BY <1>1, <1>2, <1>5, <2>3
    <3> QED
      BY <2>1, <3>1 DEF BodyInv, Covered
  <2> QED
    BY <1>2, <2>2, <2>3
<1> QED
  BY <1>2, <1>6, <1>7, <1>8 DEF BodyInv

-----------------------------------------------------------------------------
(* A slot is given back and nobody is in line.                             *)
LEMMA ReleaseAloneKeeps ==
    ASSUME Heavy!BodiesWeighed, BodyInv, NEW r \in Bodies, stage[r] = "heavy",
           waiting.keys = <<>>, activeHeavy' = activeHeavy - 1,
           stage' = [stage EXCEPT ![r] = "out"],
           UNCHANGED <<activeHealthy, queuedBytes, waiting, lost>>
    PROVE  BodyInv'
<1>1. /\ stage \in [Bodies -> Stages] /\ IsFiniteSet(Bodies) /\ MaxHeavy \in Nat
      /\ activeHeavy = Cardinality(At(stage, {"heavy"})) /\ activeHeavy <= MaxHeavy
  BY SameLibrary DEF BodyInv, Parking, Slots, Heavy!BodiesWeighed
<1>2. "out" \in Stages /\ "out" \notin Charged /\ "heavy" \notin Charged
  BY DEF Stages, Charged
<1>3. Shifted(stage, stage', r, "out")
  BY <1>1, <1>2, AtMoved
<1>4. /\ Cardinality(At(stage', {"heavy"})) = Cardinality(At(stage, {"heavy"})) - 1
      /\ Cardinality(At(stage, {"heavy"})) \in Nat
      /\ At(stage', {"healthy"}) = At(stage, {"healthy"})
      /\ At(stage', {"parked"}) = At(stage, {"parked"})
      /\ At(stage', Charged) = At(stage, Charged)
  BY <1>2, <1>3 DEF Shifted
<1>5. Parking'
  BY <1>1, <1>2, ParkingMoved
<1>6. activeHeavy' <= MaxHeavy
  BY <1>1, <1>4
<1>7. Slots'
  BY <1>1, <1>4, <1>6 DEF BodyInv, Slots
<1>8. At(stage, {"parked"}) = {}
  <2>1. Rotation(waiting) /\ At(stage, {"parked"}) \subseteq InLine(waiting)
    BY DEF BodyInv, Parking
  <2>2. \A k \in Keys : waiting.queue[k] = <<>>
    BY <2>1, EmptyElements DEF Rotation
  <2>3. InLine(waiting) = {}
    <3>1. \A x \in Bodies : KeyOf[x] \in Keys
      BY DEF Heavy!BodiesWeighed
    <3>2. \A x \in Bodies : waiting.queue[KeyOf[x]] = <<>>
      BY <2>2, <3>1
    <3>3. \A x : x \notin ToSet(<<>>)
      BY DEF ToSet
    <3> QED
      BY <3>2, <3>3 DEF InLine
  <2> QED
    BY <2>1, <2>3
<1>9. Charges' /\ Covered'
  BY <1>4, <1>8 DEF BodyInv, Charges, Covered
<1> QED
  BY <1>5, <1>7, <1>9 DEF BodyInv

(* The waiter that #dispatchFair takes is in line.                         *)
LEMMA TurnInLine ==
    ASSUME Heavy!BodiesWeighed, BodyInv, waiting.keys # <<>>
    PROVE  Head(waiting.queue[Heavy!Turn(waiting)]) \in InLine(waiting)
<1> DEFINE k == Heavy!Turn(waiting)
           line == waiting.queue[k]
           keys == waiting.keys
           at == (waiting.cursor % Len(keys)) + 1
<1>1. Rotation(waiting)
  BY DEF BodyInv, Parking
<1>2. keys \in Seq(Keys) /\ keys # <<>> /\ waiting.cursor \in Nat
  BY <1>1 DEF Rotation
<1>3. k = keys[at]
  BY DEF Heavy!Turn
<1> HIDE DEF k, keys
<1>4. at \in 1..Len(keys)
  <2>1. Len(keys) \in Nat /\ Len(keys) > 0
    BY <1>2
  <2> QED
    BY <1>2, <2>1
<1> HIDE DEF at
<1>5. k \in ToSet(keys) /\ k \in Keys
  BY <1>2, <1>3, <1>4 DEF ToSet
<1>6. line # <<>> /\ line \in Seq(Bodies)
  BY <1>1, <1>5 DEF Rotation, keys
<1>7. \A x \in ToSet(line) : KeyOf[x] = k
  BY <1>1, <1>5 DEF Rotation
<1> HIDE DEF line
<1>8. Head(line) \in Bodies /\ Head(line) \in ToSet(line)
  <2>1. Head(line) = line[1] /\ 1 \in 1..Len(line) /\ line[1] \in Bodies
    BY <1>6
  <2> QED
    BY <2>1, <1>6 DEF ToSet
<1>9. KeyOf[Head(line)] = k
  BY <1>7, <1>8
<1> QED
  BY <1>8, <1>9 DEF InLine, line, k

(* The cursor moves on.                                                    *)
LEMMA CursorAhead ==
    ASSUME NEW q, Rotation(q)
    PROVE  LET p == [q EXCEPT !.cursor = @ + 1]
           IN  Rotation(p) /\ InLine(p) = InLine(q) /\ p.cursor = q.cursor + 1
<1> DEFINE p == [q EXCEPT !.cursor = @ + 1]
<1>1. q \in [queue : [Keys -> Seq(Bodies)], keys : Seq(Keys), cursor : Nat]
  BY DEF Rotation
<1>2. /\ p \in [queue : [Keys -> Seq(Bodies)], keys : Seq(Keys), cursor : Nat]
      /\ p.queue = q.queue /\ p.keys = q.keys /\ p.cursor = q.cursor + 1
  BY <1>1, SMTT(40)
<1> HIDE DEF p
<1>3. Rotation(p) /\ InLine(p) = InLine(q)
  BY <1>2 DEF Rotation, InLine
<1> QED
  BY <1>2, <1>3 DEF p

(* A slot is given back, and the next in turn is woken.                    *)
LEMMA ReleaseWakesKeeps ==
    ASSUME Heavy!BodiesWeighed, BodyInv, NEW r \in Bodies, stage[r] = "heavy",
           NEW w \in InLine(waiting), waiting.cursor < MaxCursor, activeHeavy' = activeHeavy - 1,
           waiting' = Heavy!Without([waiting EXCEPT !.cursor = @ + 1], w),
           stage' = [stage EXCEPT ![r] = "out", ![w] = IF @ = "parked" THEN "woken" ELSE @],
           lost' = (lost \/ stage[w] # "parked"), UNCHANGED <<activeHealthy, queuedBytes>>
    PROVE  BodyInv'
<1> DEFINE s == IF stage[w] = "parked" THEN "woken" ELSE "leaving"
           mid == [stage EXCEPT ![r] = "out"]
           ahead == [waiting EXCEPT !.cursor = @ + 1]
<1>1. /\ stage \in [Bodies -> Stages] /\ IsFiniteSet(Bodies) /\ MaxHeavy \in Nat
      /\ MaxCursor \in Nat /\ lost \in BOOLEAN /\ Rotation(waiting)
      /\ activeHeavy = Cardinality(At(stage, {"heavy"})) /\ activeHeavy <= MaxHeavy
  BY SameLibrary DEF BodyInv, Parking, Slots, Covered, Heavy!BodiesWeighed
<1>2. w \in Bodies /\ stage[w] \in {"parked", "leaving"} /\ w # r
  BY DEF BodyInv, Parking, InLine, At
<1>3. /\ "out" \in Stages /\ "out" \notin Charged /\ "heavy" \notin Charged
      /\ s \in Stages /\ s \in {"woken", "leaving"} /\ {"parked", "woken", "leaving"} \subseteq Charged
  BY DEF Stages, Charged
<1>4. mid \in [Bodies -> Stages] /\ mid[w] = stage[w] /\ stage' = [mid EXCEPT ![w] = s]
  BY <1>1, <1>2, <1>3
<1> HIDE DEF s, mid
<1>5. Shifted(stage, mid, r, "out")
  BY <1>1, <1>3, AtMoved DEF mid
<1>6. Shifted(mid, stage', w, s)
  BY <1>1, <1>2, <1>3, <1>4, AtMoved
<1>7. /\ Cardinality(At(mid, {"heavy"})) = Cardinality(At(stage, {"heavy"})) - 1
      /\ Cardinality(At(stage, {"heavy"})) \in Nat
      /\ At(mid, {"healthy"}) = At(stage, {"healthy"})
      /\ At(mid, {"parked"}) = At(stage, {"parked"})
      /\ At(mid, {"woken"}) = At(stage, {"woken"})
      /\ At(mid, {"parked", "leaving"}) = At(stage, {"parked", "leaving"})
      /\ At(mid, Charged) = At(stage, Charged)
  BY <1>3, <1>5 DEF Shifted
<1>8. /\ At(stage', {"heavy"}) = At(mid, {"heavy"})
      /\ At(stage', {"healthy"}) = At(mid, {"healthy"})
      /\ At(stage', {"parked"}) = At(mid, {"parked"}) \ {w}
      /\ stage[w] = "parked" =>
            Cardinality(At(stage', {"woken"})) = Cardinality(At(mid, {"woken"})) + 1
      /\ Cardinality(At(mid, {"woken"})) \in Nat
      /\ At(mid, {"parked", "leaving"}) \ {w} \subseteq At(stage', {"parked", "leaving"})
      /\ stage' \in [Bodies -> Stages]
  <2>1. s = "woken" <=> stage[w] = "parked"
    BY DEF s
  <2> QED
    BY <2>1, <1>2, <1>3, <1>4, <1>6 DEF Shifted
<1>9. At(stage', Charged) = At(mid, Charged)
  <2>1. s \in Charged /\ mid[w] \in Charged
    BY <1>2, <1>3, <1>4
  <2> QED
    BY <2>1, <1>6 DEF Shifted
<1>10. /\ Rotation(ahead) /\ InLine(ahead) = InLine(waiting) /\ ahead.cursor = waiting.cursor + 1
  BY <1>1, CursorAhead
<1>11. /\ Rotation(waiting') /\ InLine(waiting') = InLine(waiting) \ {w}
       /\ waiting'.cursor <= waiting.cursor + 1
  BY <1>2, <1>10, WithoutRotation, ZenonT(60)
<1>12. waiting'.cursor <= MaxCursor
  <2>1. waiting.cursor \in Nat /\ waiting'.cursor \in Nat
    BY <1>1, <1>11 DEF Rotation
  <2> QED
    BY <2>1, <1>1, <1>11
<1>13. Parking'
  BY <1>7, <1>8, <1>11 DEF BodyInv, Parking
<1>14. activeHeavy' = Cardinality(At(stage', {"heavy"})) /\ activeHeavy' <= MaxHeavy
  <2>1. activeHeavy' = activeHeavy - 1 /\ activeHeavy \in Nat /\ activeHeavy <= MaxHeavy
    BY <1>1, <1>7
  <2>2. Cardinality(At(stage', {"heavy"})) = activeHeavy - 1
    BY <1>1, <1>7, <1>8
  <2>3. activeHeavy' <= MaxHeavy
    BY <2>1, <1>1
  <2> QED
    BY <2>1, <2>2, <2>3
<1>15. Slots'
  BY <1>7, <1>8, <1>14 DEF BodyInv, Slots
<1>16. Charges'
  BY <1>7, <1>9 DEF BodyInv, Charges
<1>17. Covered'
  <2>1. lost' \in BOOLEAN
    OBVIOUS
  <2>2. CASE stage[w] # "parked"
    BY <2>1, <2>2 DEF Covered
  <2>3. CASE stage[w] = "parked"
    <3>1. At(stage, {"parked"}) # {}
      BY <2>3, <1>2 DEF At
    <3>2. (lost' <=> lost) /\ activeHeavy' = activeHeavy - 1 /\ activeHeavy \in Nat
      BY <2>3, <1>1, <1>7
    <3>3. Cardinality(At(stage', {"woken"})) = Cardinality(At(stage, {"woken"})) + 1
          /\ Cardinality(At(stage, {"woken"})) \in Nat
      BY <2>3, <1>7, <1>8
    <3>4. ~lost => Cardinality(At(stage, {"woken"})) >= MaxHeavy - activeHeavy
      BY <3>1 DEF BodyInv, Covered
    <3>5. Cardinality(At(stage, {"woken"})) >= MaxHeavy - activeHeavy =>
             Cardinality(At(stage', {"woken"})) >= MaxHeavy - activeHeavy'
      BY <3>2, <3>3, <1>1
    <3> QED
      BY <2>1, <3>2, <3>4, <3>5 DEF Covered
  <2> QED
    BY <2>2, <2>3
<1> QED
  BY <1>12, <1>13, <1>15, <1>16, <1>17 DEF BodyInv

(* Heavy!Release.                                                          *)
LEMMA ReleaseKeeps ==
    ASSUME Heavy!BodiesWeighed, BodyInv, NEW r \in Bodies, Heavy!Release(r)
    PROVE  BodyInv'
<1>1. /\ stage[r] = "heavy" /\ activeHeavy' = activeHeavy - 1
      /\ UNCHANGED <<activeHealthy, queuedBytes>>
  BY DEF Heavy!Release
<1>2. CASE waiting.keys = <<>>
  <2>1. stage' = [stage EXCEPT ![r] = "out"] /\ UNCHANGED <<waiting, lost>>
    BY <1>2 DEF Heavy!Release
  <2> QED
    BY <1>1, <1>2, <2>1, ReleaseAloneKeeps
<1>3. CASE waiting.keys # <<>>
  <2> DEFINE w == Head(waiting.queue[Heavy!Turn(waiting)])
  <2>1. w \in InLine(waiting)
    BY <1>3, TurnInLine
  <2>2. /\ waiting.cursor < MaxCursor
        /\ waiting' = Heavy!Without([waiting EXCEPT !.cursor = @ + 1], w)
        /\ stage' = [stage EXCEPT ![r] = "out", ![w] = IF @ = "parked" THEN "woken" ELSE @]
        /\ lost' = (lost \/ stage[w] # "parked")
    BY <1>3 DEF Heavy!Release, Heavy!Wakes
  <2> HIDE DEF w
  <2> QED
    BY <1>1, <2>1, <2>2, ReleaseWakesKeeps
<1> QED
  BY <1>2, <1>3

-----------------------------------------------------------------------------
(* Every step.                                                             *)
LEMMA BodyNext ==
    ASSUME Heavy!BodiesWeighed, BodyInv, [Heavy!Next]_(Heavy!bodyVars)
    PROVE  BodyInv'
<1>1. ASSUME NEW r \in Bodies,
             \/ Heavy!Arrive(r) \/ Heavy!ArriveHealthy(r) \/ Heavy!Resume(r) \/ Heavy!Expire(r)
             \/ Heavy!Abort(r) \/ Heavy!Leave(r) \/ Heavy!Release(r) \/ Heavy!ReleaseHealthy(r)
      PROVE  BodyInv'
  <2>1. CASE Heavy!Arrive(r)
    BY <2>1, ArriveKeeps
  <2>2. CASE Heavy!Resume(r)
    BY <2>2, ResumeKeeps
  <2>3. CASE Heavy!ArriveHealthy(r) \/ Heavy!ReleaseHealthy(r)
    BY <2>3, HealthyKeeps
  <2>4. CASE Heavy!Expire(r) \/ Heavy!Leave(r)
    BY <2>4, LeaveBodyKeeps
  <2>5. CASE Heavy!Abort(r)
    BY <2>5, AbortKeeps
  <2>6. CASE Heavy!Release(r)
    BY <2>6, ReleaseKeeps
  <2> QED
    BY <1>1, <2>1, <2>2, <2>3, <2>4, <2>5, <2>6
<1>2. CASE UNCHANGED Heavy!bodyVars
  BY <1>2 DEF Heavy!bodyVars, BodyInv, Parking, Slots, Charges, Covered
<1> QED
  BY <1>1, <1>2 DEF Heavy!Next

(* The budget satisfies its invariant in every behaviour.                  *)
LEMMA BodyHolds ==
    ASSUME Heavy!BodiesWeighed
    PROVE  Heavy!Spec => []BodyInv
<1>1. Heavy!Init => BodyInv
  BY BodyInitInv
<1>2. BodyInv /\ [Heavy!Next]_(Heavy!bodyVars) => BodyInv'
  BY BodyNext
<1> QED
  BY <1>1, <1>2, PTL DEF Heavy!Spec

(***************************************************************************)
(* The types, and the counters of slots agree with who holds one (TypeOK   *)
(* of BodyAdmission): no key is lost from the rotation of the fair queues, *)
(* no waiter from its key (#enqueueFair, #removeWaiter, #dispatchFair).    *)
(***************************************************************************)
THEOREM BodyTypeCorrect ==
    ASSUME Heavy!BodiesWeighed
    PROVE  Heavy!Spec => []Heavy!TypeOK
<1>1. BodyInv => Heavy!TypeOK
  <2> SUFFICES ASSUME BodyInv PROVE Heavy!TypeOK
    OBVIOUS
  <2>1. \A s : Heavy!In(s) = At(stage, {s})
    BY DEF Heavy!In, At
  <2>2. stage \in [Bodies -> {"out", "parked", "woken", "leaving", "heavy", "healthy"}]
    BY DEF BodyInv, Parking, Stages
  <2>3. /\ activeHeavy = Heavy!Cardinality(Heavy!In("heavy")) /\ activeHeavy <= MaxHeavy
        /\ activeHealthy = Heavy!Cardinality(Heavy!In("healthy")) /\ activeHealthy <= Headroom
    BY <2>1, SameLibrary DEF BodyInv, Slots
  <2>4. queuedBytes \in Nat
    <3>1. At(stage, Charged) \in SUBSET Bodies /\ IsFiniteSet(At(stage, Charged))
      <4>1. At(stage, Charged) \in SUBSET Bodies
        BY DEF At
      <4> QED
        BY <4>1, SameLibrary, FS_Subset DEF Heavy!BodiesWeighed
    <3>2. \A x \in Bodies : Weight[x] \in Nat
      BY DEF Heavy!BodiesWeighed
    <3>3. Total(Weight, At(stage, Charged)) \in Nat
      BY <3>1, <3>2, TotalNat
    <3> QED
      BY <3>3 DEF BodyInv, Charges
  <2>5. waiting.cursor \in 0..MaxCursor /\ lost \in BOOLEAN
    BY DEF BodyInv, Parking, Rotation, Covered, Heavy!BodiesWeighed
  <2>6. /\ Heavy!ToSet(waiting.keys) = {k \in Keys : waiting.queue[k] # <<>>}
        /\ Heavy!IsInjective(waiting.keys)
    BY SameLibrary DEF BodyInv, Parking, Rotation
  <2>7. ASSUME NEW k \in Keys, NEW r \in Heavy!ToSet(waiting.queue[k])
        PROVE  KeyOf[r] = k /\ stage[r] \in {"parked", "leaving"}
    <3>1. r \in ToSet(waiting.queue[k]) /\ Rotation(waiting)
          /\ InLine(waiting) \subseteq At(stage, {"parked", "leaving"})
      BY SameLibrary DEF BodyInv, Parking
    <3>2. r \in Bodies /\ KeyOf[r] = k
      <4>1. waiting.queue[k] \in Seq(Bodies)
        BY <3>1 DEF Rotation
      <4> QED
        BY <3>1, <4>1 DEF Rotation, ToSet
    <3> QED
      BY <3>1, <3>2 DEF InLine, At
  <2>8. ASSUME NEW r \in Heavy!In("parked")
        PROVE  r \in Heavy!ToSet(waiting.queue[KeyOf[r]])
    BY <2>1, SameLibrary DEF BodyInv, Parking, InLine
  <2> QED
    BY <2>2, <2>3, <2>4, <2>5, <2>6, <2>7, <2>8 DEF Heavy!TypeOK
<1> QED
  BY <1>1, BodyHolds, PTL

(***************************************************************************)
(* A free slot is not left to nobody (WakesCoverSlots): as many woken      *)
(* waiters are on their way as there are free slots, however newcomers,    *)
(* deadlines and clients that go away fall between a wake and the waiter's *)
(* next round (acquireHeavyWithin, #dispatchFair).                         *)
(***************************************************************************)
THEOREM SlotsCovered ==
    ASSUME Heavy!BodiesWeighed
    PROVE  Heavy!Spec => []Heavy!WakesCoverSlots
<1>1. BodyInv => Heavy!WakesCoverSlots
  <2>1. \A s : Heavy!In(s) = At(stage, {s})
    BY DEF Heavy!In, At
  <2> QED
    BY <2>1, SameLibrary DEF BodyInv, Covered, Heavy!WakesCoverSlots
<1> QED
  BY <1>1, BodyHolds, PTL

(***************************************************************************)
(* The bytes charged are those of the bodies that wait (BytesAddUp),       *)
(* through every way out of the queue and back, and within the budget.     *)
(***************************************************************************)
THEOREM BytesBalance ==
    ASSUME Heavy!BodiesWeighed
    PROVE  Heavy!Spec => []Heavy!BytesAddUp
<1>1. BodyInv => Heavy!BytesAddUp
  <2>1. Heavy!Waiters = At(stage, Charged)
    BY DEF Heavy!Waiters, Heavy!In, At, Charged
  <2>2. Heavy!MapThenSumSet(LAMBDA r : Weight[r], At(stage, Charged)) = Total(Weight, At(stage, Charged))
    BY SameLibrary
  <2> QED
    BY <2>1, <2>2 DEF BodyInv, Charges, Heavy!BytesAddUp
<1> QED
  BY <1>1, BodyHolds, PTL

(* Only r, whose step it is, enters or leaves the slots, and nobody else   *)
(* starts to wait.                                                         *)
OneMoves(r) ==
    /\ \A x \in Bodies \ {r} :
          /\ stage'[x] = "heavy" <=> stage[x] = "heavy"
          /\ stage'[x] \in Charged => stage[x] \in Charged
    /\ stage[r] = "heavy" => stage'[r] \notin Charged

LEMMA StepsMoveOne ==
    ASSUME stage \in [Bodies -> Stages], Heavy!Next
    PROVE  \E r \in Bodies : OneMoves(r)
<1>1. SUFFICES ASSUME NEW r \in Bodies,
             \/ Heavy!Arrive(r) \/ Heavy!ArriveHealthy(r) \/ Heavy!Resume(r) \/ Heavy!Expire(r)
             \/ Heavy!Abort(r) \/ Heavy!Leave(r) \/ Heavy!Release(r) \/ Heavy!ReleaseHealthy(r)
               PROVE  OneMoves(r)
  BY DEF Heavy!Next
<1>2. ASSUME NEW s \in {"out", "parked", "woken", "leaving", "heavy", "healthy"},
             stage' = [stage EXCEPT ![r] = s], stage[r] = "heavy" => s = "out"
      PROVE  OneMoves(r)
  BY <1>2 DEF OneMoves, Charged
<1>3. CASE Heavy!Arrive(r) \/ Heavy!Resume(r)
  <2>1. stage[r] # "heavy"
    BY <1>3 DEF Heavy!Arrive, Heavy!Resume
  <2>2. \E s \in {"out", "parked", "heavy"} : stage' = [stage EXCEPT ![r] = s]
    BY <1>3 DEF Heavy!Arrive, Heavy!Resume, Heavy!Try
  <2> QED
    BY <2>1, <2>2, <1>2
<1>4. CASE Heavy!ArriveHealthy(r)
  BY <1>4, <1>2 DEF Heavy!ArriveHealthy
<1>5. CASE Heavy!Expire(r) \/ Heavy!Leave(r) \/ Heavy!ReleaseHealthy(r)
  BY <1>5, <1>2 DEF Heavy!Expire, Heavy!Leave, Heavy!ReleaseHealthy
<1>6. CASE Heavy!Abort(r)
  BY <1>6, <1>2 DEF Heavy!Abort
<1>7. CASE Heavy!Release(r)
  <2>1. CASE stage' = [stage EXCEPT ![r] = "out"]
    BY <2>1, <1>2
  <2>2. CASE \E w : stage' = [stage EXCEPT ![r] = "out",
                                           ![w] = IF @ = "parked" THEN "woken" ELSE @]
    BY <2>2 DEF OneMoves, Charged
  <2> QED
    BY <1>7, <2>1, <2>2 DEF Heavy!Release
<1> QED
  BY <1>1, <1>3, <1>4, <1>5, <1>6, <1>7

(***************************************************************************)
(* The slots for heavy bodies are a slot pool of MaxHeavy slots            *)
(* (acquireHeavyWithin): whoever is let in, at once or after being woken,  *)
(* finds room, and nobody holds a slot and waits.                          *)
(***************************************************************************)
THEOREM BudgetIsPool ==
    ASSUME Heavy!BodiesWeighed
    PROVE  Heavy!Spec => Heavy!PoolSpec
<1>1. Heavy!Init => Heavy!Pool!Init
  BY DEF Heavy!Init, Heavy!Pool!Init, Heavy!In, Heavy!Waiters, Heavy!BodiesWeighed
<1>2. BodyInv /\ BodyInv' /\ [Heavy!Next]_(Heavy!bodyVars) => [Heavy!Pool!Next]_(Heavy!Pool!vars)
  <2>1. ASSUME BodyInv, BodyInv', Heavy!Next PROVE Heavy!Pool!Next
    <3> DEFINE heavy == Heavy!In("heavy")
               waits == Heavy!Waiters
    <3>1. PICK r \in Bodies : OneMoves(r)
      BY <2>1, StepsMoveOne DEF BodyInv, Parking
    <3>2. \A S : Heavy!Pool!Cardinality(S) = Cardinality(S)
      BY DEF Heavy!Pool!Cardinality, Cardinality, Heavy!Pool!IsFiniteSet, IsFiniteSet
    <3>3. ASSUME NEW S, S \subseteq {r} PROVE Cardinality(S) <= 1
      <4>1. S = {} \/ S = {r}
        BY <3>3
      <4>2. Cardinality({}) = 0 /\ Cardinality({r}) = 1
        BY FS_EmptySet, FS_Singleton
      <4> QED
        BY <4>1, <4>2
    <3>4. /\ waits' \ waits \subseteq {r} /\ heavy \ heavy' \subseteq {r}
          /\ (waits' \ waits) \cap heavy = {} /\ waits' \in SUBSET (Bodies \ heavy')
      BY <3>1 DEF OneMoves, Heavy!Waiters, Heavy!In, Charged
    <3>5. Cardinality(heavy') <= MaxHeavy
      <4>1. heavy' = At(stage', {"heavy"})
        BY DEF Heavy!In, At
      <4> QED
        BY <2>1, <4>1 DEF BodyInv, Slots
    <3>6. Heavy!Pool!Requeue
      BY <3>2, <3>3, <3>4, Zenon DEF Heavy!Pool!Requeue
    <3>7. Heavy!Pool!Exchange(heavy \ heavy', heavy' \ heavy)
      <4>1. Cardinality(heavy \ heavy') <= 1
        BY <3>3, <3>4
      <4>2. heavy' = (heavy \ (heavy \ heavy')) \cup (heavy' \ heavy)
        OBVIOUS
      <4> QED
        BY <3>2, <3>5, <4>1, <4>2, Zenon DEF Heavy!Pool!Exchange
    <3>8. heavy \ heavy' \in SUBSET heavy /\ heavy' \ heavy \in SUBSET (Bodies \ heavy)
      BY DEF Heavy!In
    <3>9. MaxHeavy \in Nat
      BY DEF Heavy!BodiesWeighed
    <3> QED
      BY <3>6, <3>7, <3>8, <3>9, Zenon DEF Heavy!Pool!Next
  <2>2. ASSUME UNCHANGED Heavy!bodyVars PROVE UNCHANGED Heavy!Pool!vars
    BY <2>2 DEF Heavy!bodyVars, Heavy!Pool!vars, Heavy!In, Heavy!Waiters
  <2> QED
    BY <2>1, <2>2
<1> QED
  BY <1>1, <1>2, BodyHolds, PTL DEF Heavy!Spec, Heavy!PoolSpec, Heavy!Pool!Spec
=============================================================================
