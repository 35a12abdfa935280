--------------------------- MODULE MCWaitingRooms ---------------------------
(* A small instance of each of the waiting rooms for TLC.                  *)
EXTENDS WaitingRooms, MCAccountSemaphore

CONSTANTS
    ra, rb, rc, rd, re, ta, tb, tc, default, existing,
    a1, a2, b1, b2, c1, ka, kb, kc

AllTenants == {ta, tb, tc, default, existing}

(* Five requests of three tenants, one of which does not always fit.       *)
FiveRequests == {ra, rb, rc, rd, re}
CostsInQueue == [r \in FiveRequests |-> IF r = ra THEN 2 ELSE 1]
TenantsInQueue == [r \in FiveRequests |-> IF r = ra THEN ta ELSE IF r = rc THEN tc ELSE tb]

(* Three of them at a controller that starts in any of three modes and is  *)
(* given any other.                                                        *)
ThreeCallers == {ra, rb, rc}
Costs == [r \in ThreeCallers |-> IF r = ra THEN 3 ELSE IF r = rc THEN 2 ELSE 1]
TenantsOfCallers == [r \in ThreeCallers |-> TenantsInQueue[r]]

Config(mode, max, initial, count, lanes) ==
    [mode |-> mode, min |-> 1, max |-> max, initial |-> initial,
     count |-> count, cost |-> 5, lanes |-> lanes]
Modes == {Config("off", 3, 2, 2, FALSE), Config("shadow", 3, 2, 1, FALSE),
          Config("enforce", 3, 3, 2, TRUE)}

(* Five bodies of three keys for two slots, one by structure.              *)
FiveBodies == {a1, a2, b1, b2, c1}
ThreeKeys == {ka, kb, kc}
KeysOfBodies == a1 :> ka @@ a2 :> ka @@ b1 :> kb @@ b2 :> kb @@ c1 :> kc
Bytes == a1 :> 0 @@ a2 :> 1 @@ b1 :> 2 @@ b2 :> 1 @@ c1 :> 1
ByStructure == {a1}
=============================================================================
