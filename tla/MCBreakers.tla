----------------------------- MODULE MCBreakers -----------------------------
(***************************************************************************)
(* Two breakers of one process: that of a provider whose requests, combos  *)
(* and forced requests overlap, and that of a provider with one request    *)
(* whose breaker the registry may drop.  One moves in a behaviour.         *)
(***************************************************************************)
EXTENDS MCProviderBreaker

VARIABLES
    part,
    registered2, inst2, row2, phase2, held2, tries2

vars2 == <<registered2, inst2, row2, phase2, held2, tries2>>
breakersVars == <<part, vars, vars2>>

Dropped == INSTANCE ProviderBreaker WITH
    FailureThreshold <- 2, DegradationThreshold <- 1, DefaultDegradation <- 1,
    HalfOpenRequests <- 1, FailureBound <- 2, Accounts <- 1, Evictable <- TRUE,
    Requests <- OneRequest, Combos <- {}, Forced <- {}, Slots <- TwoSlots,
    registered <- registered2, inst <- inst2, row <- row2,
    phase <- phase2, held <- held2, tries <- tries2

Overlap(A) == part = "overlap" /\ A /\ UNCHANGED <<part, vars2>>
Churn(A) == part = "churn" /\ A /\ UNCHANGED <<part, vars>>

BreakersInit == part \in {"overlap", "churn"} /\ Init /\ Dropped!Init

BreakersNext == Overlap(Next) \/ Churn(Dropped!Next)

(* The fairness of ProviderBreaker.                                        *)
BreakersSpec ==
    /\ BreakersInit /\ [][BreakersNext]_breakersVars
    /\ WF_breakersVars(Churn(Dropped!Tick)) /\ WF_breakersVars(Churn(Dropped!Look))

(* A breaker that the registry drops and loads again does not stay open.   *)
DroppedOpenEnds == Dropped!OpenEnds
=============================================================================
