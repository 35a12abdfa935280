------------------------ MODULE MCServiceSupervisor -------------------------
(* Two processes, of which one may be an earlier child or a stranger.      *)
EXTENDS ServiceSupervisor

CONSTANTS p1, p2

TwoProcs == {p1, p2}
=============================================================================
