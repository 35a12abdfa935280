-------------------------- MODULE MCBreakerStreak ---------------------------
(* ProviderBreaker with a history of the failures reported in a row.       *)
EXTENDS MCProviderBreaker

(* The failures chat.ts reported in a row, up to FailureThreshold: since    *)
(* the last good result or manual reset.                                   *)
VARIABLE streak

CountStreak ==
    streak' =
       IF \E r \in Requests : phase[r] = "failed" /\ ReportFailure(r)
       THEN AtMost(streak + 1, FailureThreshold)
       ELSE IF ManualReset \/ \E r \in Requests : phase[r] # "won" /\ phase'[r] = "won"
       THEN 0
       ELSE streak

StreakSpec == Init /\ streak = 0 /\ [][Next /\ CountStreak]_<<vars, streak>>

(***************************************************************************)
(* A provider that keeps failing gets its breaker opened: after            *)
(* FailureThreshold reported failures in a row the breaker is not closed   *)
(* (_onSuccess, _onFailure as execute and chat.ts call them).              *)
(***************************************************************************)
StreakOpens ==
    streak = FailureThreshold => Current.state \in {"OPEN", "HALF_OPEN"}
=============================================================================
