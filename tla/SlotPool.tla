------------------------------ MODULE SlotPool ------------------------------
(***************************************************************************)
(* What a concurrency limiter of the gateway promises its callers: a set   *)
(* of clients holds slots, another set waits for one, and nobody is let in *)
(* while the holders fill the limit that is in force.  The limit itself    *)
(* may be reconfigured at any time, below the number of holders too: the   *)
(* holders then keep their slots and only new admissions are refused.      *)
(*                                                                         *)
(* AccountSemaphore, RateLimitSemaphore and BodyAdmission implement this   *)
(* specification.                                                          *)
(***************************************************************************)
EXTENDS Integers, FiniteSets

CONSTANT Clients    \* everybody who may ever ask for a slot

VARIABLES
    holders,        \* clients that hold a slot
    waiting,        \* clients that asked for a slot and have no answer yet
    limit           \* the limit the last caller stated

vars == <<holders, waiting, limit>>

TypeOK ==
    /\ holders \in SUBSET Clients
    /\ waiting \in SUBSET (Clients \ holders)
    /\ limit \in Nat

Init ==
    /\ holders = {}
    /\ waiting = {}
    /\ limit \in Nat

-----------------------------------------------------------------------------
(***************************************************************************)
(* One step: at most one holder leaves and, in the same step, some clients *)
(* enter, provided that all holders together then fit the limit.           *)
(***************************************************************************)
Exchange(out, in) ==
    /\ Cardinality(out) <= 1
    /\ in # {} => Cardinality(holders') <= limit'
    /\ holders' = (holders \ out) \cup in

(***************************************************************************)
(* The waiting set loses the clients that entered and those that gave up,  *)
(* and grows by at most one client, which was not a holder before.         *)
(***************************************************************************)
Requeue ==
    /\ waiting' \in SUBSET (Clients \ holders')
    /\ Cardinality(waiting' \ waiting) <= 1
    /\ (waiting' \ waiting) \cap holders = {}

Next ==
    /\ limit' \in Nat
    /\ Requeue
    /\ \E out \in SUBSET holders, in \in SUBSET (Clients \ holders) :
          Exchange(out, in)

Spec == Init /\ [][Next]_vars
=============================================================================
