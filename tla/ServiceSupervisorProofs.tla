---------------------- MODULE ServiceSupervisorProofs ----------------------
(***************************************************************************)
(* Proofs about ServiceSupervisor for any number of processes, operations  *)
(* and failed polls: types, and what a running service has.                *)
(***************************************************************************)
EXTENDS ServiceSupervisor, TLAPS

USE ServiceAssumption

-----------------------------------------------------------------------------
(* The invariant                                                           *)

BeforeSpawn == {"probing", "resolving", "killing"}

(* How far the operation at work has come says what state the service is   *)
(* in: a start that waits has its child and its poller, or an error.       *)
StateFollows ==
    /\ at = "idle" => state \in {"stopped", "running", "error"}
    /\ at \in BeforeSpawn => ~adopted /\ (state = "starting" \/ (state = "error" /\ late))
    /\ at = "waiting" =>
          /\ ~adopted
          /\ \/ state = "error"
             \/ state = "starting" /\ active /\ child \in ours /\ pid = child
    /\ at = "stopping" => state = "stopping"

(* Nobody polls before the spawn, unless something late went wrong.        *)
QuietBeforeSpawn == at \in BeforeSpawn /\ active => late

IInv == TypeOK /\ StateFollows /\ QuietBeforeSpawn /\ RunningHasHandle /\ PolledWhileUp

-----------------------------------------------------------------------------
(* Types                                                                   *)

(* The poller starts within its types.                                     *)
LEMMA StartedPoller ==
    ASSUME TypeOK, PollerStarts
    PROVE  active' \in BOOLEAN /\ fails' \in 0..Threshold
           /\ health' \in {"unknown", "healthy", "unhealthy"}
<1>1. 0 \in 0..Threshold
  BY SMT
<1> QED
  BY <1>1 DEF TypeOK, PollerStarts

(* The line after an operation is over.                                    *)
LEMMA FinishedLine ==
    ASSUME line \in Seq(Operations), line # <<>>, Finished
    PROVE  /\ line' \in Seq(Operations)
           /\ at' = "idle" /\ victim' = NoProc
  BY DEF Finished, Operations

(* A process that is killed stops listening, and its exit is due.          *)
LEMMA KilledTypes ==
    ASSUME TypeOK, NEW p \in alive, Killed(p)
    PROVE  /\ alive' \subseteq Procs /\ serving' \in alive' \cup {NoProc}
           /\ exited' \subseteq ours \ alive' /\ ours \ alive' \subseteq exited'
  BY DEF TypeOK, Killed

(* A step of an operation keeps the types.                                 *)
LEMMA WorkingTypes == TypeOK /\ Working => TypeOK'
<1> SUFFICES ASSUME TypeOK, Working PROVE TypeOK'
  OBVIOUS
<1> USE DEF processes, poller
<1>1. CASE StartIsDone
  BY <1>1, FinishedLine DEF TypeOK, StartIsDone, Begin
<1>2. CASE Start
  BY <1>2 DEF TypeOK, Start, Begin
<1>3. CASE PortTaken
  BY <1>3, FinishedLine DEF TypeOK, PortTaken
<1>4. CASE ResolvePid
  BY <1>4 DEF TypeOK, ResolvePid
<1>5. CASE Adopt
  BY <1>5, FinishedLine, StartedPoller DEF TypeOK, Adopt
<1>6. CASE SpawnThrows
  BY <1>6, FinishedLine DEF TypeOK, SpawnThrows, SpawnReady, PollerStops
<1>7. ASSUME NEW p \in Procs, SpawnFails(p) PROVE TypeOK'
  <2>1. fails' \in 0..Threshold
    BY <1>7, SMT DEF TypeOK, SpawnFails
  <2> QED
    BY <1>7, <2>1 DEF TypeOK, SpawnFails, SpawnReady
<1>8. ASSUME NEW p \in Procs, Spawn(p) PROVE TypeOK'
  <2>1. /\ child' \in Procs /\ pid' \in Procs
        /\ alive' = alive \cup {p} /\ ours' = ours \cup {p}
        /\ UNCHANGED <<state, adopted, polls, line, victim, serving, exited, late>>
        /\ told' \subseteq Procs /\ at' = "waiting" /\ line # <<>> /\ p \notin alive \cup ours
    BY <1>8 DEF TypeOK, Spawn, SpawnReady
  <2>2. PollerStarts
    BY <1>8 DEF Spawn
  <2> QED
    BY <2>1, <2>2, StartedPoller DEF TypeOK
<1>9. CASE WaitEnds
  BY <1>9, FinishedLine DEF TypeOK, WaitEnds, StateOnceWaited
<1>10. CASE StopIsDone
  BY <1>10, FinishedLine DEF TypeOK, StopIsDone, Begin
<1>11. CASE Stop
  BY <1>11 DEF TypeOK, Stop, Begin, PollerStops
<1>12. CASE StopNobody
  BY <1>12, FinishedLine DEF TypeOK, StopNobody, Stopped
<1>13. CASE StopTimeout
  <2>1. /\ alive' \subseteq Procs /\ serving' \in alive' \cup {NoProc}
        /\ exited' \subseteq ours \ alive' /\ ours \ alive' \subseteq exited'
    BY <1>13, KilledTypes DEF StopTimeout, TypeOK
  <2> QED
    BY <1>13, <2>1, FinishedLine DEF TypeOK, StopTimeout, Stopped
<1> QED
  BY <1>1, <1>2, <1>3, <1>4, <1>5, <1>6, <1>7, <1>8, <1>9, <1>10, <1>11, <1>12, <1>13
     DEF Working

(* So does everything else.                                                *)
LEMMA OtherTypes == TypeOK /\ [Next]_vars /\ ~Working => TypeOK'
<1> SUFFICES ASSUME TypeOK, [Next]_vars, ~Working PROVE TypeOK'
  OBVIOUS
<1> USE DEF processes, poller
<1>1. ASSUME NEW op \in Operations, Ask(op) PROVE TypeOK'
  BY <1>1 DEF TypeOK, Ask
<1>2. CASE KillAdopted
  BY <1>2 DEF TypeOK, KillAdopted
<1>3. CASE Poll
  BY <1>3 DEF TypeOK, Poll
<1>4. ASSUME NEW good \in BOOLEAN, Answer(good) PROVE TypeOK'
  <2>1. fails' \in 0..Threshold
    BY <1>4 DEF TypeOK, Answer
  <2> QED
    BY <1>4, <2>1 DEF TypeOK, Answer, Disturbed
<1>5. CASE Close
  BY <1>5 DEF TypeOK, Close
<1>6. ASSUME NEW p \in Procs, Listen(p) PROVE TypeOK'
  BY <1>6 DEF TypeOK, Listen
<1>7. ASSUME NEW p \in Procs, Die(p) PROVE TypeOK'
  BY <1>7, KilledTypes DEF TypeOK, Die
<1>8. ASSUME NEW p \in Procs, HandleExit(p) PROVE TypeOK'
  <2>1. exited' \subseteq ours' \ alive' /\ ours' \ alive' \subseteq exited'
    BY <1>8 DEF TypeOK, HandleExit
  <2>2. late' \in BOOLEAN /\ active' = FALSE /\ fails' = fails /\ health' = "unknown"
    BY <1>8 DEF TypeOK, HandleExit, Disturbed, ExitNoted, PollerStops
  <2>3. CASE at = "stopping" /\ victim = p
    BY <1>8, <2>1, <2>2, <2>3, FinishedLine DEF TypeOK, HandleExit, Stopped
  <2>4. CASE ~(at = "stopping" /\ victim = p)
    BY <1>8, <2>1, <2>2, <2>4 DEF TypeOK, HandleExit
  <2> QED
    BY <2>3, <2>4
<1>9. CASE Reboot
  <2>1. 0 \in 0..Threshold /\ <<>> \in Seq(Operations)
    BY SMT
  <2> QED
    BY <1>9, <2>1 DEF TypeOK, Reboot
<1>10. CASE UNCHANGED vars
  BY <1>10 DEF TypeOK, vars
<1> QED
  BY <1>1, <1>2, <1>3, <1>4, <1>5, <1>6, <1>7, <1>8, <1>9, <1>10 DEF Next

-----------------------------------------------------------------------------
(* What a running service has                                              *)

Rest == StateFollows /\ QuietBeforeSpawn /\ RunningHasHandle /\ PolledWhileUp

(* The parts of the invariant are kept by every step of an operation.      *)
LEMMA WorkingRest == IInv /\ Working => Rest'
<1> SUFFICES ASSUME IInv, Working PROVE Rest'
  OBVIOUS
<1>0. TypeOK /\ StateFollows /\ QuietBeforeSpawn /\ RunningHasHandle /\ PolledWhileUp
  BY DEF IInv
<1> USE <1>0 DEF Rest, StateFollows, QuietBeforeSpawn, RunningHasHandle, PolledWhileUp,
             BeforeSpawn, processes, poller
<1>1. CASE StartIsDone
  BY <1>1 DEF StartIsDone, Begin, Finished
<1>2. CASE Start
  BY <1>2 DEF Start, Begin
<1>3. CASE PortTaken
  BY <1>3 DEF PortTaken, Finished
<1>4. CASE ResolvePid
  BY <1>4 DEF ResolvePid
<1>5. CASE Adopt
  BY <1>5 DEF Adopt, PollerStarts, Finished
<1>6. CASE SpawnThrows
  BY <1>6 DEF SpawnThrows, SpawnReady, PollerStops, Finished
<1>7. ASSUME NEW p \in Procs, SpawnFails(p) PROVE Rest'
  BY <1>7 DEF SpawnFails, SpawnReady
<1>8. ASSUME NEW p \in Procs, Spawn(p) PROVE Rest'
  <2>1. active'
    BY <1>8 DEF Spawn, PollerStarts, TypeOK
  <2>2. at \in BeforeSpawn /\ child' = p /\ pid' = p /\ p \in ours'
        /\ at' = "waiting" /\ UNCHANGED <<state, adopted, late>>
    BY <1>8 DEF Spawn, SpawnReady
  <2> QED
    BY <2>1, <2>2
<1>9. CASE WaitEnds
  BY <1>9 DEF WaitEnds, StateOnceWaited, Finished
<1>10. CASE StopIsDone
  BY <1>10 DEF StopIsDone, Begin, Finished
<1>11. CASE Stop
  BY <1>11 DEF Stop, Begin, PollerStops
<1>12. CASE StopNobody
  BY <1>12 DEF StopNobody, Stopped, Finished
<1>13. CASE StopTimeout
  BY <1>13 DEF StopTimeout, Stopped, Finished
<1> QED
  BY <1>1, <1>2, <1>3, <1>4, <1>5, <1>6, <1>7, <1>8, <1>9, <1>10, <1>11, <1>12, <1>13
     DEF Working

(* And by polls, processes, exits and a restart of the gateway.            *)
LEMMA OtherRest == IInv /\ [Next]_vars /\ ~Working => Rest'
<1> SUFFICES ASSUME IInv, [Next]_vars, ~Working PROVE Rest'
  OBVIOUS
<1>0. TypeOK /\ StateFollows /\ QuietBeforeSpawn /\ RunningHasHandle /\ PolledWhileUp
  BY DEF IInv
<1> USE <1>0 DEF Rest, StateFollows, QuietBeforeSpawn, RunningHasHandle, PolledWhileUp,
             BeforeSpawn, processes, poller
<1>1. ASSUME NEW op \in Operations, Ask(op) PROVE Rest'
  BY <1>1 DEF Ask
<1>2. CASE KillAdopted
  BY <1>2 DEF KillAdopted
<1>3. CASE Poll
  BY <1>3 DEF Poll
<1>4. ASSUME NEW good \in BOOLEAN, Answer(good) PROVE Rest'
  BY <1>4 DEF Answer, Disturbed
<1>5. CASE Close
  BY <1>5 DEF Close
<1>6. ASSUME NEW p \in Procs, Listen(p) \/ Die(p) PROVE Rest'
  BY <1>6 DEF Listen, Die, Killed
<1>7. ASSUME NEW p \in Procs, HandleExit(p) PROVE Rest'
  BY <1>7 DEF HandleExit, Disturbed, ExitNoted, PollerStops, Stopped, Finished
<1>8. CASE Reboot
  BY <1>8 DEF Reboot
<1>9. CASE UNCHANGED vars
  BY <1>9 DEF vars
<1> QED
  BY <1>1, <1>2, <1>3, <1>4, <1>5, <1>6, <1>7, <1>8, <1>9 DEF Next

-----------------------------------------------------------------------------
(* The invariant holds in every behaviour.                                 *)
THEOREM Invariance == Spec => []IInv
<1>1. Init => IInv
  <2>1. 0 \in 0..Threshold /\ <<>> \in Seq(Operations)
    BY SMT
  <2>2. Init => TypeOK
    BY <2>1 DEF Init, TypeOK
  <2> QED
    BY <2>2 DEF Init, IInv, StateFollows, QuietBeforeSpawn, RunningHasHandle,
                PolledWhileUp, BeforeSpawn
<1>2. IInv /\ [Next]_vars => IInv'
  <2> SUFFICES ASSUME IInv, [Next]_vars PROVE IInv'
    OBVIOUS
  <2>1. TypeOK'
    BY WorkingTypes, OtherTypes DEF IInv
  <2>2. Rest'
    BY WorkingRest, OtherRest
  <2> QED
    BY <2>1, <2>2 DEF IInv, Rest
<1> QED
  BY <1>1, <1>2, PTL DEF Spec

(* Every variable keeps its type, who listens is alive, and an operation   *)
(* at work holds the lock (withLock, handleExit).                          *)
THEOREM TypeCorrect == Spec => []TypeOK
<1>1. IInv => TypeOK
  BY DEF IInv
<1> QED
  BY <1>1, Invariance, PTL

(* A running service that was not adopted has its child on record, for any *)
(* number of processes and any order of exits, spawns and late answers.    *)
THEOREM HandleKept == Spec => []RunningHasHandle
<1>1. IInv => RunningHasHandle
  BY DEF IInv
<1> QED
  BY <1>1, Invariance, PTL

(* A running service is polled, and only a late error leaves a poller on   *)
(* in another state (HealthChecker, ServiceSupervisor).                    *)
THEOREM PollingMatches == Spec => []PolledWhileUp
<1>1. IInv => PolledWhileUp
  BY DEF IInv
<1> QED
  BY <1>1, Invariance, PTL

-----------------------------------------------------------------------------
(* Liveness                                                                *)

(* An operation at work only goes forward, to its end or nearer to it.     *)
Last == at \in {"waiting", "stopping"}

LEMMA GoesForward ==
    ASSUME [Next]_vars
    PROVE  /\ Last => Last' \/ at' = "idle"
           /\ at = "killing" => at' \in {"killing", "waiting", "idle"}
           /\ at = "resolving" => at' \in {"resolving", "killing", "idle"}
           /\ at = "probing" => at' \in {"probing", "resolving", "waiting", "idle"}
<1>1. CASE Working
  BY <1>1 DEF Last, Working, StartIsDone, Start, PortTaken, ResolvePid, Adopt, SpawnThrows, SpawnFails,
              Spawn, WaitEnds, StopIsDone, Stop, StopNobody, StopTimeout, Stopped, Finished, Begin,
              SpawnReady
<1>2. CASE KillAdopted
  BY <1>2 DEF KillAdopted, Last
<1>3. CASE \E p \in Procs : HandleExit(p)
  BY <1>3 DEF HandleExit, Stopped, Finished, Last
<1>4. CASE at' = at
  BY <1>4 DEF Last
<1>5. CASE Reboot
  BY <1>5 DEF Reboot, Last
<1> QED
  BY <1>1, <1>2, <1>3, <1>4, <1>5
  DEF Next, Ask, Poll, Answer, Close, Listen, Die, vars

(* Each step of its own brings it forward.                                 *)
LEMMA WorkingForward ==
    ASSUME Working
    PROVE  /\ Last => at' = "idle"
           /\ at = "killing" => at' \in {"waiting", "idle"}
           /\ at = "resolving" => at' = "idle"
           /\ at = "probing" => at' \in {"resolving", "waiting", "idle"}
BY DEF Last, Working, StartIsDone, Start, PortTaken, ResolvePid, Adopt, SpawnThrows, SpawnFails,
       Spawn, WaitEnds, StopIsDone, Stop, StopNobody, StopTimeout, Stopped, Finished, Begin,
       SpawnReady

(***************************************************************************)
(* The operation lock is released (withLock, waitForHealthy, killChild),   *)
(* whatever the processes do meanwhile, for any number of them: an         *)
(* operation has at most four steps of its own ahead of it, and nothing    *)
(* that happens between them sends it back.  That one of them is always    *)
(* possible is the hypothesis: the provers know nothing of ENABLED.        *)
(***************************************************************************)
THEOREM LockReleased == FairSpec /\ []StepAtHand => LockIsReleased
<1> DEFINE Idle == at = "idle"
           Killing == at = "killing"
           Resolving == at = "resolving"
           Probing == at = "probing"
<1>1. IInv => Idle \/ Last \/ Killing \/ Resolving \/ Probing
  BY DEF IInv, TypeOK, Last
<1>2. [Next]_vars => /\ Last => Last' \/ Idle'
                     /\ Killing => Killing' \/ Last' \/ Idle'
                     /\ Resolving => Resolving' \/ Killing' \/ Idle'
                     /\ Probing => Probing' \/ Resolving' \/ Last' \/ Idle'
  BY GoesForward DEF Last
<1>3. <<Working>>_vars => /\ Last => Idle'
                          /\ Killing => Last' \/ Idle'
                          /\ Resolving => Idle'
                          /\ Probing => Resolving' \/ Last' \/ Idle'
  BY WorkingForward DEF Last
<1>4. StepAtHand => (~Idle => ENABLED <<Working>>_vars)
  BY DEF StepAtHand
<1>5. at = "idle" <=> Idle
  OBVIOUS
<1>6. at # "idle" <=> ~Idle
  OBVIOUS
<1> HIDE DEF Idle, Killing, Resolving, Probing
<1> QED
  BY <1>1, <1>2, <1>3, <1>4, <1>5, <1>6, Invariance, PTL DEF FairSpec, Spec, LockIsReleased
=============================================================================
