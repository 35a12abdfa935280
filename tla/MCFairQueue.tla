---------------------------- MODULE MCFairQueue -----------------------------
(* Three tenants, one of them with two requests.                           *)
EXTENDS FairQueueRounds, TLC

CONSTANTS ra, rb, rc, rd, ta, tb, tc

FourRequests == {ra, rb, rc, rd}
ThreeTenants == {ta, tb, tc}
CostOf == [r \in Requests |-> IF r = ra THEN 2 ELSE 1]
TenantsOf == [r \in Requests |-> IF r = ra THEN ta ELSE IF r = rc THEN tc ELSE tb]
=============================================================================
