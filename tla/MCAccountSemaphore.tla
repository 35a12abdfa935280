------------------------- MODULE MCAccountSemaphore -------------------------
(* Small instances of AccountSemaphore for TLC.                            *)
EXTENDS AccountSemaphore, TLC

CONSTANTS r1, r2, r3, r4

ThreeRequests == {r1, r2, r3}
FourRequests == {r1, r2, r3, r4}
=============================================================================
