--------------------------- MODULE BatchProcessor ---------------------------
(***************************************************************************)
(* The batch processor (open-sse/services/batchProcessor.ts) over the      *)
(* tables of src/lib/db/batches.ts, with the routes that cancel and delete *)
(* a batch (src/app/api/v1/batches).                                       *)
(*                                                                         *)
(* A batch is a file of lines, one request each.  A poll every ten seconds *)
(* recovers the batches a dead process left behind, starts waiting ones    *)
(* and confirms cancellations; a started batch has a job that sends one    *)
(* line after the other, with a checkpoint row before the request leaves   *)
(* and another after the answer.                                           *)
(*                                                                         *)
(* status, mark, files and input are in the database and survive a crash;  *)
(* job is memory.  SQLite is called synchronously, so a job runs in one    *)
(* piece between two of its awaits, and a poll awaits nothing but itself;  *)
(* a crash can fall inside either piece.  Time is abstracted: a poll may   *)
(* find any waiting batch past its window.  The files it deletes thirty    *)
(* days after a batch has ended are not modelled.                          *)
(*                                                                         *)
(* past, sent, late and crashes are history for the properties.            *)
(***************************************************************************)
EXTENDS Integers, FiniteSets

CONSTANTS
    Batches,        \* ids of batches
    Lines,          \* number of lines of each batch's input
    Invalid,        \* batches with an input that does not parse
    MaxConcurrent,  \* BATCH_MAX_CONCURRENT
    MaxTries,       \* attempts at one line (200 in the code)
    MaxCrashes      \* bound on crashes

ASSUME BatchAssumption ==
    /\ IsFiniteSet(Batches) /\ Invalid \subseteq Batches
    /\ Lines \in [Batches -> Nat]
    /\ MaxConcurrent \in Nat \ {0} /\ MaxTries \in Nat \ {0} /\ MaxCrashes \in Nat

Items == UNION {{b} \X (1..Lines[b]) : b \in Batches}

Pending == {"validating", "in_progress", "finalizing", "cancelling"}
Terminal == {"completed", "failed", "expired", "cancelled"}
Statuses == Pending \cup Terminal \cup {"absent", "deleted"}
Marks == {"none", "pending", "processing", "ok", "bad", "errored"}
Phases == {"none", "starting", "throttled", "sent", "backoff"}

VARIABLES
    status,     \* of each batch row; absent before, deleted after it exists
    mark,       \* checkpoint of each line; ok and bad are completed ones
    files,      \* lines in the output file and in the error file
    input,      \* batches whose input file has its content
    job,        \* the job of each batch in this process, as far as it is
    past,       \* items sent by an earlier process
    sent,       \* items sent by this one
    late,       \* items first sent after their batch was cancelled
    crashes

vars == <<status, mark, files, input, job, past, sent, late, crashes>>
database == <<status, mark, files, input>>
history == <<past, sent, late, crashes>>

NoJob == [phase |-> "none", line |-> 0, tries |-> 0, good |-> {}, failed |-> {}]
NoFiles == [output |-> {}, error |-> {}]
NoMarks(b) == [l \in 1..Lines[b] |-> "none"]

(* activeBatches.                                                          *)
Active == {b \in Batches : job[b] # NoJob}

(* Batches are still to be created, or were started by a release that kept *)
(* no checkpoints; any line of those may have been sent.                   *)
Init ==
    \E old \in SUBSET {b \in Batches \ Invalid : Lines[b] > 0} :
        /\ status = [b \in Batches |-> IF b \in old THEN "in_progress" ELSE "absent"]
        /\ mark = [b \in Batches |-> NoMarks(b)]
        /\ files = [b \in Batches |-> NoFiles]
        /\ input = old
        /\ job = [b \in Batches |-> NoJob]
        /\ past = {i \in Items : i[1] \in old}
        /\ sent = {} /\ late = {} /\ crashes = 0

-----------------------------------------------------------------------------
(* The client and the API                                                  *)

Create(b) ==
    /\ status[b] = "absent"
    /\ status' = [status EXCEPT ![b] = "validating"]
    /\ input' = input \cup {b}
    /\ UNCHANGED <<mark, files, job, history>>

Cancel(b) ==
    /\ status[b] \in Pending \ {"cancelling"}
    /\ status' = [status EXCEPT ![b] = "cancelling"]
    /\ UNCHANGED <<mark, files, input, job, history>>

(* deleteBatch and deleteCompletedBatches, with checkpoints and files.     *)
Deleted(D) ==
    /\ status' = [b \in Batches |-> IF b \in D THEN "deleted" ELSE status[b]]
    /\ mark' = [b \in Batches |-> IF b \in D THEN NoMarks(b) ELSE mark[b]]
    /\ files' = [b \in Batches |-> IF b \in D THEN NoFiles ELSE files[b]]
    /\ input' = input \ D
    /\ UNCHANGED <<job, history>>

Delete(b) == status[b] \in Terminal /\ Deleted({b})

DeleteCompleted ==
    LET done == {b \in Batches : status[b] = "completed"}
    IN  done # {} /\ Deleted(done)

DeleteInput(b) ==
    /\ b \in input
    /\ input' = input \ {b}
    /\ UNCHANGED <<status, mark, files, job, history>>

-----------------------------------------------------------------------------
(* The poll                                                                *)

Readable(b) == b \in input /\ b \notin Invalid

(* In progress for the table, unknown to this process.                     *)
Stale == {b \in Batches : status[b] \in {"in_progress", "finalizing"}} \ Active

(* hasPotentialExternalEffects without checkpoints; requestCountsTotal is  *)
(* written together with in_progress.                                      *)
Unsafe(b) ==
    /\ mark[b] = NoMarks(b)
    /\ Lines[b] > 0 \/ status[b] = "finalizing"

(* Mutant: a batch that was being finalised is left as it is.              *)
RecoveredUnlessFinalizing(R) ==
    [b \in Batches |->
        IF b \notin R \/ status[b] = "finalizing" THEN status[b]
        ELSE IF Unsafe(b) THEN "failed" ELSE "validating"]

(* recoverStaleBatch for the batches of R; it deletes no file, since the   *)
(* table names files only once the batch is completed.                     *)
Recovered(R) ==
    [b \in Batches |->
        IF b \notin R THEN status[b] ELSE IF Unsafe(b) THEN "failed" ELSE "validating"]

Room == MaxConcurrent - Cardinality(Active)

Begun(S) == {b \in S : Readable(b)}

(* With the batches of R recovered, of S started, of C found cancelled and *)
(* of X found past their window; ensureBatchItemCheckpoints adds the rows  *)
(* that are missing.  A batch with an unreadable input fails at its start. *)
Polled(R, S, C, X) ==
    /\ status' = [b \in Batches |->
                    IF b \in Begun(S) THEN "in_progress"
                    ELSE IF b \in S THEN "failed"
                    ELSE IF b \in C THEN "cancelled"
                    ELSE IF b \in X THEN "expired"
                    ELSE Recovered(R)[b]]
    /\ mark' = [b \in Batches |->
                    IF b \in Begun(S)
                    THEN [l \in 1..Lines[b] |->
                            IF mark[b][l] = "none" THEN "pending" ELSE mark[b][l]]
                    ELSE mark[b]]

Ready(R) == {b \in Batches : Recovered(R)[b] = "validating"}
Cancelling == {b \in Batches : status[b] = "cancelling"}

(* Batches are started in the order of the table until the limit, a failed *)
(* start included; those left over may be found past their window.         *)
Poll ==
    \E S \in SUBSET Ready(Stale) :
        /\ Cardinality(S) <= Room
        /\ S = Ready(Stale) \/ Cardinality(S) = Room
        /\ \E X \in SUBSET (Ready(Stale) \ S) : Polled(Stale, S, Cancelling, X)
        /\ job' = [b \in Batches |->
                    IF b \in Begun(S) THEN [NoJob EXCEPT !.phase = "starting"] ELSE job[b]]
        /\ UNCHANGED <<files, input, history>>

-----------------------------------------------------------------------------
(* A job                                                                   *)

(* The memory of the process is lost.                                      *)
Lost ==
    /\ crashes < MaxCrashes
    /\ crashes' = crashes + 1
    /\ job' = [b \in Batches |-> NoJob]
    /\ past' = past \cup sent
    /\ sent' = {}
    /\ late' = late

(* Mutant: a batch the poll has already cancelled goes on.                 *)
CancelledUnlessConfirmed(b) == status[b] \in {"cancelling", "deleted"}

(* isBatchCancelled.                                                       *)
Cancelled(b) == status[b] \in {"cancelling", "cancelled", "deleted"}

(* Mutant: a line whose answer was never recorded is taken for unsent.     *)
SettledIfRecorded(m) == m \in {"ok", "bad", "errored"}

(* applyRecoveredCheckpoint: there is something to apply.                  *)
Settled(m) == m \in {"processing", "ok", "bad", "errored"}

(* The loop passes the lines from l on and stops before k.                 *)
Reach(b, m, l, k) ==
    /\ k \in l..(Lines[b] + 1)
    /\ \A i \in l..(k - 1) : Settled(m[i])
    /\ k <= Lines[b] => ~Settled(m[k])

(* Mutant: a line that is found interrupted gets into neither file.        *)
JobUpToRecorded(b, m, j, l, k) ==
    [j EXCEPT !.line = k, !.tries = 0,
              !.good = @ \cup {i \in l..(k - 1) : m[i] = "ok"},
              !.failed = @ \cup {i \in l..(k - 1) : m[i] \in {"bad", "errored"}}]

(* Interrupted lines become errors and are not sent again.                 *)
MarksUpTo(b, m, l, k) ==
    [i \in 1..Lines[b] |-> IF i \in l..(k - 1) /\ m[i] = "processing" THEN "errored" ELSE m[i]]

JobUpTo(b, m, j, l, k) ==
    [j EXCEPT !.line = k, !.tries = 0,
              !.good = @ \cup {i \in l..(k - 1) : m[i] = "ok"},
              !.failed = @ \cup {i \in l..(k - 1) : m[i] \in {"bad", "errored", "processing"}}]

(* markBatchItemProcessing and the first dispatch of line j.line.          *)
Send(b, m, j) ==
    /\ mark' = [mark EXCEPT ![b] = [m EXCEPT ![j.line] = "processing"]]
    /\ job' = [job EXCEPT ![b] = [j EXCEPT !.phase = "sent", !.tries = 1]]
    /\ sent' = sent \cup {<<b, j.line>>}
    /\ late' = IF status[b] = "in_progress" THEN late ELSE late \cup {<<b, j.line>>}
    /\ UNCHANGED <<status, files, past, crashes>>

(* handleCancellation.                                                     *)
Halt(b, m) ==
    /\ status' = [status EXCEPT ![b] = IF @ = "cancelling" THEN "cancelled" ELSE @]
    /\ mark' = [mark EXCEPT ![b] = m]
    /\ job' = [job EXCEPT ![b] = NoJob]
    /\ UNCHANGED <<files, history>>

(* finalizeBatch of a batch that was not cancelled.                        *)
Complete(b, m, j) ==
    /\ status' = [status EXCEPT ![b] = "completed"]
    /\ mark' = [mark EXCEPT ![b] = m]
    /\ files' = [files EXCEPT ![b] = [output |-> j.good, error |-> j.failed]]
    /\ job' = [job EXCEPT ![b] = NoJob]
    /\ UNCHANGED history

(* The process dies after markFinalizing; a file it has written stays in   *)
(* the table of files, without a batch that names it.                      *)
DieFinalizing(b, m) ==
    /\ Lost
    /\ status' = [status EXCEPT ![b] = "finalizing"]
    /\ mark' = [mark EXCEPT ![b] = m]
    /\ UNCHANGED files

(* The loop over the lines from l on, with the marks m and the job j as    *)
(* they are by now, up to the next await.                                  *)
Advance(b, m, j, l) ==
    /\ \/ Cancelled(b) /\ Halt(b, m)
       \/ /\ ~Cancelled(b)
          /\ \E k \in l..(Lines[b] + 1) :
                LET n == MarksUpTo(b, m, l, k)
                    i == JobUpTo(b, m, j, l, k)
                IN  /\ Reach(b, m, l, k)
                    /\ \/ /\ k <= Lines[b]
                          /\ Send(b, n, i)
                       \/ /\ k <= Lines[b]
                          /\ mark' = [mark EXCEPT ![b] = n]
                          /\ job' = [job EXCEPT ![b] = [i EXCEPT !.phase = "throttled"]]
                          /\ UNCHANGED <<status, files, history>>
                       \/ /\ k > Lines[b]
                          /\ Complete(b, n, i) \/ DieFinalizing(b, n)
    /\ UNCHANGED input

(* The API key has been resolved.                                          *)
Begin(b) ==
    /\ job[b].phase = "starting"
    /\ Advance(b, mark[b], job[b], 1)

(* The throttle delay is over; the status is not read again.  Where the    *)
(* batch has been deleted, the row for the checkpoint violates a foreign   *)
(* key and the job ends, unless the driver is sql.js, which lets it pass.  *)
Wake(b) ==
    /\ job[b].phase = "throttled"
    /\ \/ Send(b, mark[b], job[b])
       \/ status[b] = "deleted" /\ Halt(b, mark[b])
    /\ UNCHANGED input

(* markBatchItemResult and markBatchItemError update a row that exists.    *)
Noted(b, v) ==
    IF mark[b][job[b].line] = "none" THEN mark[b]
    ELSE [mark[b] EXCEPT ![job[b].line] = v]

Result(b, v) ==
    /\ job[b].phase = "sent"
    /\ LET j == IF v = "ok" THEN [job[b] EXCEPT !.good = @ \cup {job[b].line}]
                ELSE [job[b] EXCEPT !.failed = @ \cup {job[b].line}]
       IN  Advance(b, Noted(b, v), j, job[b].line + 1)

(* An answer, also the 429, 502 or 504 of the last attempt or of one after *)
(* BATCH_RETRY_DURATION_MS.                                                *)
Answer(b) == \E v \in {"ok", "bad"} : Result(b, v)

(* No answer in BATCH_ITEM_DISPATCH_TIMEOUT_MS, or an exception.           *)
NoAnswer(b) == Result(b, "errored")

(* Mutant: the attempts are not counted.                                   *)
RefuseAlways(b) ==
    /\ job[b].phase = "sent"
    /\ job' = [job EXCEPT ![b].phase = "backoff"]
    /\ UNCHANGED <<database, history>>

(* A 429, 502 or 504: the same line again after a delay.                   *)
Refuse(b) ==
    /\ job[b].phase = "sent" /\ job[b].tries < MaxTries
    /\ job' = [job EXCEPT ![b].phase = "backoff"]
    /\ UNCHANGED <<database, history>>

Retry(b) ==
    /\ job[b].phase = "backoff"
    /\ job' = [job EXCEPT ![b].phase = "sent", ![b].tries = @ + 1]
    /\ sent' = sent \cup {<<b, job[b].line>>}
    /\ UNCHANGED <<database, past, late, crashes>>

-----------------------------------------------------------------------------
(* Crash and restart                                                       *)

Crash == Lost /\ UNCHANGED database

(* Within a poll: its first phase has reached some batches, or all of them *)
(* and the second phase some.                                              *)
CrashPolling ==
    /\ Lost
    /\ \E R \in SUBSET Stale, S \in SUBSET Ready(Stale), C \in SUBSET Cancelling :
          /\ R = Stale \/ (S = {} /\ C = {})
          /\ Cardinality(S) <= Room
          /\ Polled(R, S, C, {})
    /\ UNCHANGED <<files, input>>

-----------------------------------------------------------------------------
Next ==
    \/ \E b \in Batches :
          \/ Create(b) \/ Cancel(b) \/ Delete(b) \/ DeleteInput(b)
          \/ Begin(b) \/ Wake(b) \/ Answer(b) \/ NoAnswer(b) \/ Refuse(b) \/ Retry(b)
    \/ DeleteCompleted \/ Poll \/ Crash \/ CrashPolling

Spec == Init /\ [][Next]_vars

(* The poll's interval and the timers of a job run while the process does. *)
FairSpec ==
    /\ Spec
    /\ WF_vars(Poll)
    /\ \A b \in Batches :
          /\ WF_vars(Begin(b)) /\ WF_vars(Wake(b))
          /\ WF_vars(NoAnswer(b)) /\ WF_vars(Retry(b))

-----------------------------------------------------------------------------
(* Properties                                                              *)

(* The types; a job is at a line of its batch, within its attempts, and    *)
(* has collected lines of its batch.                                       *)
TypeOK ==
    /\ status \in [Batches -> Statuses]
    /\ DOMAIN mark = Batches
    /\ \A b \in Batches : mark[b] \in [1..Lines[b] -> Marks]
    /\ files \in [Batches -> [output : SUBSET Nat, error : SUBSET Nat]]
    /\ \A b \in Batches : files[b].output \cup files[b].error \subseteq 1..Lines[b]
    /\ input \subseteq Batches
    /\ job \in [Batches -> [phase : Phases, line : Nat, tries : Nat,
                            good : SUBSET Nat, failed : SUBSET Nat]]
    /\ \A b \in Batches :
          /\ job[b].good \cup job[b].failed \subseteq 1..Lines[b]
          /\ job[b].phase \in {"throttled", "sent", "backoff"} => job[b].line \in 1..Lines[b]
          /\ job[b].tries <= MaxTries
          /\ job[b].phase = "backoff" => job[b].tries < MaxTries
    /\ past \subseteq Items /\ sent \subseteq Items /\ late \subseteq Items
    /\ crashes \in 0..MaxCrashes

(***************************************************************************)
(* A line that one process sent to a provider is not sent by a later one   *)
(* (recoverStaleBatch, applyRecoveredCheckpoint: "not replayed to avoid    *)
(* duplicate provider work"), wherever the crash fell, batches without     *)
(* checkpoints included.                                                   *)
(***************************************************************************)
NoReplay == past \cap sent = {}

(***************************************************************************)
(* A completed batch has every line of its input in exactly one of its two *)
(* files, the successes and only those in the output (createSuccessFile,   *)
(* createErrorFile), however many processes worked on it: no recorded      *)
(* answer is lost and no interrupted line is left out.                     *)
(***************************************************************************)
FilesComplete ==
    \A b \in Batches : status[b] = "completed" =>
        /\ files[b].output = {l \in 1..Lines[b] : mark[b][l] = "ok"}
        /\ files[b].error = (1..Lines[b]) \ files[b].output
        /\ \A l \in 1..Lines[b] : Settled(mark[b][l]) /\ mark[b][l] # "processing"

(***************************************************************************)
(* Once a batch is cancelled at most one more of its lines is sent: that   *)
(* of a job which was waiting for the throttle.  Confirming the            *)
(* cancellation or deleting the batch does not start the job again.        *)
(***************************************************************************)
CancelStops == \A i, j \in late : i[1] = j[1] => i = j

(***************************************************************************)
(* A batch that has ended stays as it ended until it is deleted, although  *)
(* the job of a cancelled batch may go on for a long time and settles its  *)
(* own end.                                                                *)
(***************************************************************************)
TerminalFinal ==
    [][\A b \in Batches :
          status[b] \in Terminal => status'[b] \in {status[b], "deleted"}]_vars

(***************************************************************************)
(* Every batch ends: with a limit on running batches, retries, timeouts    *)
(* and crashes nobody waits for ever, and a stale batch is taken up.       *)
(***************************************************************************)
BatchEnds == \A b \in Batches : status[b] \in Pending ~> status[b] \notin Pending
=============================================================================
