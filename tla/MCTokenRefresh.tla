--------------------------- MODULE MCTokenRefresh ---------------------------
(* Two accounts of a group: a chat request, a usage poll and, in one of    *)
(* the instances, an export of the first account, and a health check of    *)
(* the second.  Where the first's token rotates twice, the second's does   *)
(* not, and its refreshes fail.                                            *)
EXTENDS TokenRefresh, TLC

CONSTANTS ca, cb, t1, t2, t3, t4

ASSUME GroupAssumption == TokenConstants

TwoAccounts == {ca, cb}
ThreeTasks == {t1, t2, t3}
FourTasks == {t1, t2, t3, t4}
OfTasks == [t \in Tasks |-> IF t = t3 THEN cb ELSE ca]
KindOfTasks ==
    [t \in Tasks |-> IF t = t1 THEN "chat" ELSE IF t = t2 THEN "usage"
                     ELSE IF t = t3 THEN "sweep" ELSE "export"]
Twice == ca :> 2 @@ cb :> 2
TwiceAndNever == ca :> 3 @@ cb :> 1
=============================================================================
