------------------------- MODULE ServiceSupervisor --------------------------
(***************************************************************************)
(* The supervisor of an embedded service: start, stop and restart under an *)
(* operation lock, the health poller, and the exits of child processes     *)
(* (src/lib/services/ServiceSupervisor.ts, healthCheck.ts, portProbe.ts).  *)
(*                                                                         *)
(* The processes are external: one may listen on the port, stop listening  *)
(* and die whenever it likes, and outlives the gateway.  A step is the     *)
(* code between two waits: for a probe, a poll, a timer or an exit.  The   *)
(* row in version_manager is written with the state and left out; so are   *)
(* logs and error texts.                                                   *)
(***************************************************************************)
EXTENDS Integers, Sequences

CONSTANTS
    Procs,          \* process ids
    NoProc,
    Threshold,      \* FAILURE_THRESHOLD of the poller
    MaxLine         \* bound on operations under way or waiting for the lock

ASSUME ServiceAssumption ==
    NoProc \notin Procs /\ Threshold \in Nat \ {0} /\ MaxLine \in Nat \ {0}

Operations == {"start", "stop", "restart"}

VARIABLES
    state,          \* state of the service
    child, pid,     \* childProcess and pid
    adopted,
    active, fails, health,      \* the poller
    polls,          \* outcomes of the polls that are out, at most one of a kind
    line,           \* operationLock: the operation at work and those that wait
    at, victim,     \* where the first of them is, and whom it is killing
    alive, serving, \* the processes, and the one that listens on the port
    ours, exited,   \* children of this gateway, and those whose exit is due
    told,           \* child.killed: a signal was delivered through the handle
    late            \* history: a start went on after an error while it probed

poller == <<active, fails, health, polls>>
processes == <<alive, serving, told>>
vars == <<state, child, pid, adopted, poller, line, at, victim,
          processes, ours, exited, late>>

Init ==
    /\ state = "stopped"
    /\ child = NoProc /\ pid = NoProc /\ adopted = FALSE
    /\ active = FALSE /\ fails = 0 /\ health = "unknown" /\ polls = {}
    /\ line = <<>> /\ at = "idle" /\ victim = NoProc
    /\ alive = {} /\ serving = NoProc
    /\ ours = {} /\ exited = {} /\ told = {}
    /\ late = FALSE

-----------------------------------------------------------------------------
(* HealthChecker                                                           *)

PollerStarts ==
    IF active
    THEN UNCHANGED <<active, fails, health>>
    ELSE active' = TRUE /\ fails' = 0 /\ health' = "unknown"

PollerStops == active' = FALSE /\ fails' = fails /\ health' = "unknown"

(* Something of an earlier child puts a start into error before its spawn. *)
Disturbed == late' = (late \/ at \in {"probing", "resolving", "killing"})

(* A request leaves; only a service that listens can answer it well.       *)
Poll ==
    /\ active
    /\ \E good \in BOOLEAN :
          /\ good => serving # NoProc
          /\ good \notin polls
          /\ polls' = polls \cup {good}
    /\ UNCHANGED <<state, child, pid, adopted, active, fails, health, line, at, victim,
                   processes, ours, exited, late>>

(* Its answer comes, whether the poller was stopped meanwhile or not.      *)
Answer(good) ==
    /\ good \in polls
    /\ polls' = polls \ {good}
    /\ IF good
       THEN /\ fails' = 0 /\ health' = "healthy"
            /\ UNCHANGED <<state, active, late>>
       ELSE IF fails + 1 < Threshold \/ health = "unhealthy"
       THEN /\ fails' = IF fails < Threshold THEN fails + 1 ELSE fails
            /\ UNCHANGED <<state, active, health, late>>
       ELSE /\ fails' = IF fails < Threshold THEN fails + 1 ELSE fails
            /\ IF state \in {"running", "starting"}
               THEN /\ active' = FALSE /\ health' = "unknown"
                    /\ state' = "error" /\ Disturbed
               ELSE /\ health' = "unhealthy"
                    /\ UNCHANGED <<state, active, late>>
    /\ UNCHANGED <<child, pid, adopted, line, at, victim, processes, ours, exited>>

-----------------------------------------------------------------------------
(* withLock                                                                *)

(* A route asks for an operation.                                          *)
Ask(op) ==
    /\ Len(line) < MaxLine
    /\ line' = Append(line, op)
    /\ UNCHANGED <<state, child, pid, adopted, poller, at, victim,
                   processes, ours, exited, late>>

(* Mutant: what the operation was about is kept.                           *)
FinishedKept ==
    /\ line' = IF Head(line) = "restart" THEN Append(Tail(line), "start") ELSE Tail(line)
    /\ UNCHANGED <<at, victim>>

(* The first operation is over.  A restart is a stop that asks for a start.*)
Finished ==
    /\ line' = IF Head(line) = "restart" THEN Append(Tail(line), "start") ELSE Tail(line)
    /\ at' = "idle" /\ victim' = NoProc

-----------------------------------------------------------------------------
(* start                                                                   *)

Begin(op) == line # <<>> /\ Head(line) = op /\ at = "idle"

(* It is up or coming up.                                                  *)
StartIsDone ==
    /\ Begin("start") /\ state \in {"running", "starting"}
    /\ Finished
    /\ UNCHANGED <<state, child, pid, adopted, poller, processes, ours, exited, late>>

Start ==
    /\ Begin("start") /\ state \notin {"running", "starting"}
    /\ state' = "starting" /\ adopted' = FALSE
    /\ at' = "probing"
    /\ UNCHANGED <<child, pid, poller, line, victim, processes, ours, exited, late>>

(* probeBeforeSpawn, decidePreSpawn: somebody listens, and is not adopted. *)
PortTaken ==
    /\ at = "probing" /\ serving # NoProc
    /\ state' = "error"
    /\ Finished
    /\ UNCHANGED <<child, pid, adopted, poller, processes, ours, exited, late>>

(* It answers well and may be adopted: its pid is asked for.               *)
ResolvePid ==
    /\ at = "probing" /\ serving # NoProc
    /\ at' = "resolving"
    /\ UNCHANGED <<state, child, pid, adopted, poller, line, victim,
                   processes, ours, exited, late>>

Adopt ==
    /\ at = "resolving"
    /\ PollerStarts
    /\ pid' \in {serving, NoProc}
    /\ adopted' = TRUE
    /\ state' = "running"
    /\ Finished
    /\ UNCHANGED <<child, polls, processes, ours, exited, late>>

(* autoRestartAdopted: the listener gets SIGTERM and, in the end, SIGKILL. *)
KillAdopted ==
    /\ at = "resolving"
    /\ at' = "killing"
    /\ UNCHANGED <<state, child, pid, adopted, poller, line, victim,
                   processes, ours, exited, late>>

(* The port was free when it was probed, if it was; whoever had it was     *)
(* killed, or waited for long enough.                                      *)
SpawnReady == at \in {"probing", "killing"}

(* spawn() throws.                                                         *)
SpawnThrows ==
    /\ SpawnReady
    /\ PollerStops
    /\ state' = "error"
    /\ Finished
    /\ UNCHANGED <<child, pid, adopted, polls, processes, ours, exited, late>>

(* The child's error event instead of a process: nothing was started.      *)
SpawnFails(p) ==
    /\ SpawnReady
    /\ p \notin alive \cup ours
    /\ child' = p /\ pid' = NoProc
    /\ told' = told \ {p}
    /\ active' = FALSE /\ fails' = (IF active THEN fails ELSE 0) /\ health' = "unknown"
    /\ state' = "error"
    /\ at' = "waiting"
    /\ UNCHANGED <<adopted, polls, line, victim, alive, serving, ours, exited, late>>

Spawn(p) ==
    /\ SpawnReady
    /\ p \notin alive \cup ours
    /\ child' = p /\ pid' = p
    /\ alive' = alive \cup {p} /\ ours' = ours \cup {p}
    /\ told' = told \ {p}
    /\ PollerStarts
    /\ at' = "waiting"
    /\ UNCHANGED <<state, adopted, polls, line, victim, serving, exited, late>>

(* Mutant: running whatever happened while it was waited for.              *)
StateOnceUp == "running"

(* After waitForHealthy: an error that came meanwhile stands.              *)
StateOnceWaited == IF state = "error" THEN "error" ELSE "running"

(* waitForHealthy ends with a healthy probe, an error, or its time.        *)
WaitEnds ==
    /\ at = "waiting"
    /\ state' = StateOnceWaited
    /\ Finished
    /\ UNCHANGED <<child, pid, adopted, poller, processes, ours, exited, late>>

-----------------------------------------------------------------------------
(* stop                                                                    *)

StopIsDone ==
    /\ Begin("stop") \/ Begin("restart")
    /\ state \in {"stopped", "stopping"}
    /\ Finished
    /\ UNCHANGED <<state, child, pid, adopted, poller, processes, ours, exited, late>>

(* SIGTERM, if there is a child that had none.                             *)
Stop ==
    /\ Begin("stop") \/ Begin("restart")
    /\ state \notin {"stopped", "stopping"}
    /\ state' = "stopping"
    /\ PollerStops
    /\ at' = "stopping"
    /\ victim' = IF child \in told THEN NoProc ELSE child
    /\ told' = IF child \in alive THEN told \cup {child} ELSE told
    /\ late' = FALSE
    /\ UNCHANGED <<child, pid, adopted, polls, line, alive, serving, ours, exited>>

(* killChild is through.                                                   *)
Stopped ==
    /\ state' = "stopped"
    /\ pid' = NoProc /\ child' = NoProc /\ adopted' = FALSE
    /\ Finished

(* There was nobody to kill.                                               *)
StopNobody ==
    /\ at = "stopping" /\ victim = NoProc
    /\ Stopped
    /\ UNCHANGED <<poller, processes, ours, exited, late>>

(* child.kill("SIGKILL").                                                  *)
Killed(p) ==
    /\ alive' = alive \ {p}
    /\ serving' = IF serving = p THEN NoProc ELSE serving
    /\ exited' = IF p \in ours THEN exited \cup {p} ELSE exited

(* Mutant: the timer kills, and the exit alone ends the wait.              *)
StopTimeoutKills ==
    /\ at = "stopping" /\ victim \in alive
    /\ Killed(victim)
    /\ UNCHANGED <<state, child, pid, adopted, poller, line, at, victim, told, ours, late>>

(* stopTimeoutMs: SIGKILL if the handle says that no signal was sent.      *)
StopTimeout ==
    /\ at = "stopping" /\ victim # NoProc
    /\ IF victim \in told \/ victim \notin alive
       THEN UNCHANGED <<alive, serving, exited>>
       ELSE Killed(victim)
    /\ Stopped
    /\ UNCHANGED <<poller, told, ours, late>>

-----------------------------------------------------------------------------
(* The processes                                                           *)

Listen(p) ==
    /\ p \in alive /\ serving = NoProc
    /\ serving' = p
    /\ UNCHANGED <<state, child, pid, adopted, poller, line, at, victim,
                   alive, told, ours, exited, late>>

Close ==
    /\ serving # NoProc
    /\ serving' = NoProc
    /\ UNCHANGED <<state, child, pid, adopted, poller, line, at, victim,
                   alive, told, ours, exited, late>>

Die(p) ==
    /\ p \in alive
    /\ Killed(p)
    /\ UNCHANGED <<state, child, pid, adopted, poller, line, at, victim, told, ours, late>>

(* Mutant: the poller is left on.                                          *)
ExitUnwatched == UNCHANGED <<active, fails, health>>

(* What handleExit does to the poller whatever the state is.               *)
ExitNoted == PollerStops

(* handleExit, of whichever child; the stop that waits for it is through.  *)
HandleExit(p) ==
    /\ p \in exited
    /\ exited' = exited \ {p} /\ ours' = ours \ {p}
    /\ Disturbed
    /\ ExitNoted
    /\ IF at = "stopping" /\ victim = p
       THEN Stopped
       ELSE /\ pid' = NoProc /\ child' = NoProc
            /\ state' = IF state \in {"stopping", "stopped"} THEN state ELSE "error"
            /\ UNCHANGED <<adopted, line, at, victim>>
    /\ UNCHANGED <<polls, processes>>

(* The gateway dies and comes up again; the processes go on.               *)
Reboot ==
    /\ state' = "stopped"
    /\ child' = NoProc /\ pid' = NoProc /\ adopted' = FALSE
    /\ active' = FALSE /\ fails' = 0 /\ health' = "unknown" /\ polls' = {}
    /\ line' = <<>> /\ at' = "idle" /\ victim' = NoProc
    /\ ours' = {} /\ exited' = {} /\ told' = {}
    /\ late' = FALSE
    /\ UNCHANGED <<alive, serving>>

-----------------------------------------------------------------------------
Working ==
    \/ StartIsDone \/ Start \/ PortTaken \/ ResolvePid \/ Adopt \/ SpawnThrows
    \/ (\E p \in Procs : SpawnFails(p) \/ Spawn(p))
    \/ WaitEnds \/ StopIsDone \/ Stop \/ StopNobody \/ StopTimeout

Next ==
    \/ \E op \in Operations : Ask(op)
    \/ Working \/ KillAdopted
    \/ Poll \/ (\E good \in BOOLEAN : Answer(good))
    \/ Close \/ (\E p \in Procs : Listen(p) \/ Die(p) \/ HandleExit(p))
    \/ Reboot

Spec == Init /\ [][Next]_vars

(* Timers fire, and probes and spawns come to an end.                      *)
FairSpec == Spec /\ WF_vars(Working)

-----------------------------------------------------------------------------
(* Properties                                                              *)

(* The types; who listens is alive, an exit is due from a dead child, and  *)
(* an operation at work holds the lock.                                    *)
TypeOK ==
    /\ state \in {"stopped", "starting", "running", "stopping", "error"}
    /\ {child, pid, serving, victim} \subseteq Procs \cup {NoProc}
    /\ adopted \in BOOLEAN /\ active \in BOOLEAN /\ late \in BOOLEAN
    /\ fails \in 0..Threshold /\ health \in {"unknown", "healthy", "unhealthy"}
    /\ polls \subseteq BOOLEAN
    /\ line \in Seq(Operations)
    /\ at \in {"idle", "probing", "resolving", "killing", "waiting", "stopping"}
    /\ at # "idle" => line # <<>>
    /\ alive \subseteq Procs /\ serving \in alive \cup {NoProc}
    /\ exited \subseteq ours \ alive /\ ours \ alive \subseteq exited
    /\ told \subseteq Procs

(***************************************************************************)
(* A service that is reported running, and was not adopted, has its child  *)
(* on record, with its pid: whoever exits, fails to spawn or answers late  *)
(* while it comes up (start, handleExit, the child's error event).         *)
(***************************************************************************)
RunningHasHandle ==
    state = "running" /\ ~adopted => child \in ours /\ pid = child

(***************************************************************************)
(* A running service is polled; and nobody polls a dead port for ever (the *)
(* poller is stopped by stop, by an exit, by a failed spawn and by its own *)
(* failures), unless the exit of an earlier child, or an answer to a poll  *)
(* of it, came while the next start was probing the port: the start goes   *)
(* on, and its child is polled in the state of error.                      *)
(***************************************************************************)
PolledWhileUp ==
    /\ state = "running" => active
    /\ active /\ ~late => state \in {"starting", "running"}

(***************************************************************************)
(* An operation at work has a step to take at every moment, whichever of   *)
(* its processes has died, was replaced or never started: it never waits   *)
(* for an exit or an answer alone (waitForHealthy, killChild).             *)
(***************************************************************************)
StepAtHand == at # "idle" => ENABLED <<Working>>_vars

(***************************************************************************)
(* The operation lock is released, whether the child obeys, dies, was      *)
(* never started or goes on for ever (withLock, waitForHealthy, killChild).*)
(***************************************************************************)
LockIsReleased == (at # "idle") ~> (at = "idle")

(***************************************************************************)
(* What the documentation says of a stop, "Sends SIGTERM, waits 15 s, then *)
(* SIGKILL if still alive": no child of a stopped service is left.         *)
(***************************************************************************)
StoppedIsDead == state = "stopped" => ours \cap alive = {}
=============================================================================
