-------------------------- MODULE FairQueueRounds ---------------------------
(***************************************************************************)
(* The queue on its own: requests join, are served when there is room for  *)
(* some cost, and leave by timeout.  turns counts, for a request at the    *)
(* head of its bucket, how often each other tenant was served while it     *)
(* waited there and that tenant's own bucket did not run empty.            *)
(***************************************************************************)
EXTENDS FairQueue

CONSTANT TenantOf       \* the tenant of each request

TenantsAssigned == TenantOf \in [Requests -> Tenants]

VARIABLES queue, arrived, turns

queueVars == <<queue, arrived, turns>>

NoTurns == [t \in Tenants |-> 0]
AtHead(q, r) == r \in Members(q) /\ Head(q.bucket[TenantOf[r]]) = r

(* The types; the cursor stays within the turn order (takeAt, removeById). *)
QueueTypeOK ==
    /\ queue.order \in Seq(Tenants)
    /\ queue.cursor \in 0..Max({0, Len(queue.order) - 1})
    /\ queue.bucket \in [Tenants -> Seq(Requests)]
    /\ queue.skips \in [Requests -> 0..MaxSkips]
    /\ arrived \in Seq(Requests)

QueueInit ==
    /\ queue = Empty
    /\ arrived = <<>>
    /\ turns = [r \in Requests |-> NoTurns]

Join(r) ==
    /\ r \notin Members(queue)
    /\ queue' = Enqueue(queue, r, TenantOf[r])
    /\ arrived' = Append(arrived, r)
    /\ UNCHANGED turns

(* x is gone from the queue; a tenant with an empty bucket starts anew,    *)
(* and everybody does after a reservation, which moves the cursor back.    *)
Counted(x, served) ==
    [r \in Requests |-> [t \in Tenants |->
       IF r = x \/ ~AtHead(queue, r) \/ queue'.bucket[t] = <<>>
             \/ Reserved(queue) # {}
       THEN 0
       ELSE turns[r][t] + (IF served /\ t = TenantOf[x] THEN 1 ELSE 0)]]

Serve(room) ==
    \E i \in Turns(queue, room, arrived) :
       LET x == HeadAt(queue, i) IN
         /\ queue' = Taken(queue, i)
         /\ arrived' = RemoveFirst(arrived, x)
         /\ turns' = Counted(x, TRUE)

Leave(x) ==
    /\ x \in Members(queue)
    /\ queue' = Removed(queue, x)
    /\ arrived' = RemoveFirst(arrived, x)
    /\ turns' = Counted(x, FALSE)

QueueNext ==
    \/ \E r \in Requests : Join(r) \/ Leave(r)
    \/ \E room \in 1..2 : Serve(room)

QueueSpec == QueueInit /\ [][QueueNext]_queueVars

(* Nobody leaves before it is served, and capacity for any request keeps   *)
(* becoming available.                                                     *)
BusySpec ==
    /\ QueueInit
    /\ [][Serve(2) \/ \E r \in Requests : Join(r)]_queueVars
    /\ WF_queueVars(Serve(2))

(***************************************************************************)
(* The bookkeeping of FairCostQueue: the turn order names each tenant with *)
(* a bucket once, and only heads are marked as passed.                     *)
(***************************************************************************)
OrderIsBuckets ==
    /\ ToSet(queue.order) = {t \in Tenants : queue.bucket[t] # <<>>}
    /\ IsInjective(queue.order)
    /\ \A r \in Requests : queue.skips[r] > 0 => AtHead(queue, r)

(***************************************************************************)
(* Turns are taken (takeAt, removeById): no tenant whose bucket stays      *)
(* filled is served twice while a request that always fits waits at the    *)
(* head of its own, even when requests leave in between, unless capacity   *)
(* was kept for another head meanwhile.                                    *)
(***************************************************************************)
TurnsAreTaken ==
    \A r \in Requests : Cost[r] = 1 => \A t \in Tenants : turns[r][t] <= 1

(***************************************************************************)
(* dequeue: a head that was passed MaxSkips times is overtaken no more,    *)
(* save by a head that was passed as often and has waited longer, whatever *)
(* joined, left or was served since it was last passed.                    *)
(***************************************************************************)
ReservedFirst ==
    [][\A r \in Members(queue) :
          queue.skips[r] >= MaxSkips =>
             \A room \in 1..2 : Serve(room) =>
                \A x \in Members(queue) \ (Members(queue') \union {r}) :
                   /\ queue.skips[x] >= MaxSkips
                   /\ Arrival(x, arrived) < Arrival(r, arrived)]_queueVars

(***************************************************************************)
(* What the header of the queue says: with round-robin across the tenants' *)
(* buckets, a request gets its turn when capacity keeps becoming available.*)
(***************************************************************************)
EverybodyGetsATurn ==
    \A r \in Requests : (r \in Members(queue)) ~> (r \notin Members(queue))
=============================================================================
