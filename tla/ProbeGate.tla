----------------------------- MODULE ProbeGate ------------------------------
(***************************************************************************)
(* What a circuit breaker promises about admission.  While it passes,      *)
(* every call may enter; while it blocks, none may; after a cooldown it    *)
(* offers a fixed number of probes, and each call that enters spends one.  *)
(* Spent probes come back only by way of a new block, or when the process  *)
(* restarts and everybody inside is gone.                                  *)
(*                                                                         *)
(* ProviderBreaker implements this specification.                          *)
(***************************************************************************)
EXTENDS Integers

CONSTANTS
    Callers,        \* everybody who may ever be inside
    Probes          \* probes offered after each block

VARIABLES
    mode,           \* "passing", "blocked" or "probing"
    budget,         \* probes left, 0 unless probing
    inside          \* callers that entered and have not left

vars == <<mode, budget, inside>>

Init ==
    /\ mode = "passing"
    /\ budget = 0
    /\ inside = {}

(* A caller enters; a block whose cooldown is over first offers its probes. *)
Enter(c) ==
    /\ c \notin inside
    /\ inside' = inside \cup {c}
    /\ \/ mode = "passing" /\ UNCHANGED <<mode, budget>>
       \/ mode = "probing" /\ budget > 0 /\ budget' = budget - 1 /\ mode' = mode
       \/ mode = "blocked" /\ mode' = "probing" /\ budget' = Probes - 1

Offer ==
    /\ mode = "blocked"
    /\ mode' = "probing"
    /\ budget' = Probes
    /\ UNCHANGED inside

(* The gate blocks or heals, and perhaps a caller leaves with the news.    *)
Settle ==
    /\ \/ mode' = "blocked" /\ budget' = 0
       \/ mode' = "passing" /\ budget' = 0
       \/ UNCHANGED <<mode, budget>>
    /\ \/ UNCHANGED inside
       \/ \E c \in inside : inside' = inside \ {c}

Restart ==
    /\ inside' = {}
    /\ mode' = mode
    /\ budget' = IF mode = "probing" THEN Probes ELSE 0

Next ==
    \/ \E c \in Callers : Enter(c)
    \/ Offer
    \/ Settle
    \/ Restart

Spec == Init /\ [][Next]_vars
=============================================================================
