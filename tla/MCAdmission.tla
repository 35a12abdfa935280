---------------------------- MODULE MCAdmission -----------------------------
(* The admission controller with few requests of costs 1 to 3, limits up   *)
(* to 4, and at most two lanes for three tenants.                          *)
EXTENDS Admission, TLC

CONSTANTS ra, rb, rc, rd, ta, tb, tc, default, existing

FourRequests == {ra, rb, rc, rd}
AllTenants == {ta, tb, tc, default, existing}
CostOf == [r \in Requests |-> IF r = ra THEN 3 ELSE IF r = rc THEN 2 ELSE 1]
TenantOf == [r \in Requests |-> IF r = ra THEN ta ELSE IF r = rc THEN tc ELSE tb]
\* With lanes, one request without a tenant key shares the queue.
KeyOf == [r \in Requests |-> IF r = rd THEN default ELSE TenantOf[r]]

Config(mode, max, initial, count, lanes) ==
    [mode |-> mode, min |-> 1, max |-> max, initial |-> initial,
     count |-> count, cost |-> 5, lanes |-> lanes]
Enforced == {Config("enforce", 3, 2, 3, FALSE), Config("enforce", 4, 2, 2, TRUE)}
\* Created enforcing, or in shadow mode and switched later.
AtFirst == Enforced \cup {Config("shadow", 2, 2, 1, FALSE)}
=============================================================================
