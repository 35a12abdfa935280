------------------------- MODULE MCProviderBreaker --------------------------
(* Small instances of ProviderBreaker for TLC.                             *)
EXTENDS ProviderBreaker, TLC

CONSTANTS r1, r2, r3, s1, s2, s3, quota

OneRequest == {r1}
TwoRequests == {r1, r2}
ThreeRequests == {r1, r2, r3}
OneCombo == {r2}
OneForced == {r3}
OneSlot == {s1}
TwoSlots == {s1, s2}
ThreeSlots == {s1, s2, s3}
OneKind == {quota}
QuotaCooldown == (quota :> 1)

=============================================================================
