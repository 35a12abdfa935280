----------------------- MODULE BatchProcessorProofs ------------------------
(***************************************************************************)
(* Proofs about BatchProcessor for every number of batches, lines and      *)
(* crashes: types, no replay, files, cancellation and final states.        *)
(***************************************************************************)
EXTENDS BatchProcessor, TLAPS

USE BatchAssumption

-----------------------------------------------------------------------------
(* The invariant                                                           *)

(* A line that was ever sent is not marked pending; it has no mark only if *)
(* the batch is deleted or comes from the time before the checkpoints.     *)
SentAreMarked ==
    \A b \in Batches : \A l \in 1..Lines[b] : <<b, l>> \in past \cup sent =>
        /\ mark[b][l] # "pending"
        /\ mark[b][l] = "none" =>
              \/ status[b] = "deleted"
              \/ /\ status[b] \notin {"absent", "validating"}
                 /\ job[b] = NoJob
                 /\ mark[b] = NoMarks(b)

(* A job belongs to a batch that was started and has all its checkpoints.  *)
JobsAreStarted ==
    \A b \in Batches : job[b] # NoJob =>
        /\ status[b] \in {"in_progress", "cancelling", "cancelled", "deleted"}
        /\ status[b] # "deleted" => \A l \in 1..Lines[b] : mark[b][l] # "none"

(* The line a job waits to send has not been sent by another process, and  *)
(* the line it has out was sent by this one.                               *)
LinesOut ==
    \A b \in Batches :
        /\ job[b].phase = "throttled" => <<b, job[b].line>> \notin past
        /\ job[b].phase \in {"sent", "backoff"} => <<b, job[b].line>> \in sent

(* After a late line its job does not wait to send another.                *)
LateIsLast ==
    \A b \in Batches : \A l \in 1..Lines[b] : <<b, l>> \in late =>
        /\ Cancelled(b)
        /\ job[b].phase # "throttled"

LateOnce ==
    \A b \in Batches : \A k, l \in 1..Lines[b] :
        <<b, k>> \in late /\ <<b, l>> \in late => k = l

IInv ==
    /\ TypeOK /\ NoReplay /\ SentAreMarked /\ JobsAreStarted
    /\ LinesOut /\ LateIsLast /\ LateOnce

-----------------------------------------------------------------------------
(* Lemmas about the operators                                              *)

(* A line of a batch is an item.                                           *)
LEMMA LineIsItem == \A b \in Batches : \A l \in 1..Lines[b] : <<b, l>> \in Items
<1> TAKE b \in Batches
<1> TAKE l \in 1..Lines[b]
<1>1. <<b, l>> \in {b} \X (1..Lines[b])
  OBVIOUS
<1> QED
  BY <1>1 DEF Items

JobType == [phase : Phases, line : Nat, tries : Nat,
            good : SUBSET Nat, failed : SUBSET Nat]

(* Marks for batch b that differ from those in the table in settled lines. *)
Fits(b, m) ==
    /\ m \in [1..Lines[b] -> Marks]
    /\ \A l \in 1..Lines[b] :
          /\ (m[l] = "none") <=> (mark[b][l] = "none")
          /\ m[l] = "pending" => mark[b][l] = "pending"

(* A job record that can be at any line and has collected lines of b.      *)
Collects(b, j) ==
    /\ j \in JobType
    /\ j.good \cup j.failed \subseteq 1..Lines[b]
    /\ j.tries <= MaxTries

(* Passing over settled lines keeps the marks of the others.               *)
LEMMA MarksUpToFit ==
    ASSUME NEW b \in Batches, NEW m, Fits(b, m), NEW l \in Nat, NEW k \in Nat
    PROVE  Fits(b, MarksUpTo(b, m, l, k))
BY DEF Fits, MarksUpTo, Marks

(* Passing over lines of the batch collects lines of the batch.            *)
LEMMA JobUpToCollects ==
    ASSUME NEW b \in Batches, NEW m, NEW j, Collects(b, j),
           NEW l \in 1..(Lines[b] + 1), NEW k \in l..(Lines[b] + 1)
    PROVE  /\ Collects(b, JobUpTo(b, m, j, l, k))
           /\ JobUpTo(b, m, j, l, k).line = k
           /\ JobUpTo(b, m, j, l, k).tries = 0
<1> DEFINE g == {i \in l..(k - 1) : m[i] = "ok"}
           f == {i \in l..(k - 1) : m[i] \in {"bad", "errored", "processing"}}
<1>1. Lines[b] \in Nat /\ k \in Nat /\ l \in Nat /\ l >= 1 /\ k <= Lines[b] + 1
  OBVIOUS
<1>2. l..(k - 1) \subseteq 1..Lines[b] /\ 1..Lines[b] \subseteq Nat
  BY <1>1
<1>3. g \subseteq 1..Lines[b] /\ f \subseteq 1..Lines[b]
  BY <1>2
<1> HIDE DEF g, f
<1>4. JobUpTo(b, m, j, l, k) =
        [j EXCEPT !.line = k, !.tries = 0, !.good = @ \cup g, !.failed = @ \cup f]
  BY DEF JobUpTo, g, f
<1>5. j.good \cup g \in SUBSET Nat /\ j.failed \cup f \in SUBSET Nat
  BY <1>2, <1>3 DEF Collects, JobType
<1>6. [j EXCEPT !.line = k, !.tries = 0, !.good = @ \cup g, !.failed = @ \cup f]
        \in JobType
  BY <1>1, <1>5 DEF Collects, JobType
<1>7. (j.good \cup g) \cup (j.failed \cup f) \subseteq 1..Lines[b]
  BY <1>3 DEF Collects
<1>8. LET i == [j EXCEPT !.line = k, !.tries = 0, !.good = @ \cup g, !.failed = @ \cup f]
      IN  /\ i.good = j.good \cup g /\ i.failed = j.failed \cup f
          /\ i.line = k /\ i.tries = 0
  BY DEF Collects, JobType
<1> QED
  BY <1>4, <1>6, <1>7, <1>8 DEF Collects

(* What a job in the invariant is.                                         *)
LEMMA JobFacts ==
    ASSUME IInv, NEW b \in Batches
    PROVE  /\ Collects(b, job[b])
           /\ Fits(b, mark[b])
           /\ job[b].phase # "none" => job[b] # NoJob
           /\ job[b].phase \in {"throttled", "sent", "backoff"}
                 => job[b].line \in 1..Lines[b]
BY DEF IInv, TypeOK, Collects, JobType, Fits, NoJob

-----------------------------------------------------------------------------
(* Steps of a job                                                          *)

(* A line that is not in past can be sent, late only as the first one.     *)
LEMMA SendInv ==
    ASSUME IInv, NEW b \in Batches, NEW m, NEW j, Fits(b, m), Collects(b, j),
           job[b] # NoJob, j.line \in 1..Lines[b], <<b, j.line>> \notin past,
           \A l \in 1..Lines[b] : <<b, l>> \notin late,
           Send(b, m, j), input' = input
    PROVE  IInv'
<1> DEFINE n == [m EXCEPT ![j.line] = "processing"]
           i == [j EXCEPT !.phase = "sent", !.tries = 1]
           x == <<b, j.line>>
<1>0. x \in Items
  BY LineIsItem
<1>1. /\ n \in [1..Lines[b] -> Marks]
      /\ n[j.line] = "processing"
      /\ \A l \in 1..Lines[b] : l # j.line => n[l] = m[l]
  BY DEF Fits, Marks
<1>2. /\ i \in JobType /\ i.phase = "sent" /\ i.tries = 1 /\ i.line = j.line
      /\ i.good = j.good /\ i.failed = j.failed
  BY DEF Collects, JobType, Phases
<1> HIDE DEF n, i, x
<1>3. /\ mark' = [mark EXCEPT ![b] = n] /\ job' = [job EXCEPT ![b] = i]
      /\ sent' = sent \cup {x} /\ late' \in {late, late \cup {x}}
      /\ status[b] = "in_progress" => late' = late
      /\ status' = status /\ files' = files /\ past' = past /\ crashes' = crashes
  BY DEF Send, n, i, x
<1>4. i # NoJob
  BY <1>2 DEF NoJob
<1>5. TypeOK'
  <2>1. DOMAIN mark' = Batches /\ \A a \in Batches : mark'[a] \in [1..Lines[a] -> Marks]
    BY <1>1, <1>3 DEF IInv, TypeOK
  <2>2. job' \in [Batches -> JobType]
    BY <1>2, <1>3 DEF IInv, TypeOK, JobType
  <2>3. \A a \in Batches :
          /\ job'[a].good \cup job'[a].failed \subseteq 1..Lines[a]
          /\ job'[a].phase \in {"throttled", "sent", "backoff"} => job'[a].line \in 1..Lines[a]
          /\ job'[a].tries <= MaxTries
          /\ job'[a].phase = "backoff" => job'[a].tries < MaxTries
    <3> SUFFICES ASSUME NEW a \in Batches
                 PROVE /\ job'[a].good \cup job'[a].failed \subseteq 1..Lines[a]
                       /\ job'[a].phase \in {"throttled", "sent", "backoff"}
                             => job'[a].line \in 1..Lines[a]
                       /\ job'[a].tries <= MaxTries
                       /\ job'[a].phase = "backoff" => job'[a].tries < MaxTries
      OBVIOUS
    <3>1. CASE a = b
      BY <3>1, <1>2, <1>3 DEF IInv, TypeOK, Collects
    <3>2. CASE a # b
      BY <3>2, <1>3 DEF IInv, TypeOK
    <3> QED
      BY <3>1, <3>2
  <2>4. past' \subseteq Items /\ sent' \subseteq Items /\ late' \subseteq Items
    BY <1>0, <1>3 DEF IInv, TypeOK
  <2> QED
    BY <2>1, <2>2, <2>3, <2>4, <1>3 DEF IInv, TypeOK, JobType
<1>6. NoReplay'
  BY <1>3 DEF IInv, NoReplay, x
<1>7. SentAreMarked'
  <2> SUFFICES ASSUME NEW a \in Batches, NEW l \in 1..Lines[a], <<a, l>> \in past \cup sent'
               PROVE /\ mark'[a][l] # "pending"
                     /\ mark'[a][l] = "none" =>
                           \/ status[a] = "deleted"
                           \/ /\ status[a] \notin {"absent", "validating"}
                              /\ job'[a] = NoJob /\ mark'[a] = NoMarks(a)
    BY <1>3 DEF SentAreMarked, NoMarks
  <2>1. CASE a # b
    BY <2>1, <1>3 DEF IInv, TypeOK, SentAreMarked, x
  <2>2. CASE a = b /\ l = j.line
    BY <2>2, <1>1, <1>3 DEF IInv, TypeOK
  <2>3. CASE a = b /\ l # j.line
    <3>1. <<b, l>> \in past \cup sent
      BY <2>3, <1>3 DEF x
    <3>2. mark'[a][l] = m[l]
      BY <2>3, <1>1, <1>3 DEF IInv, TypeOK
    <3> QED
      BY <2>3, <3>1, <3>2 DEF IInv, SentAreMarked, Fits
  <2> QED
    BY <2>1, <2>2, <2>3
<1>8. JobsAreStarted'
  <2> SUFFICES ASSUME NEW a \in Batches, job'[a] # NoJob
               PROVE /\ status[a] \in {"in_progress", "cancelling", "cancelled", "deleted"}
                     /\ status[a] # "deleted"
                           => \A l \in 1..Lines[a] : mark'[a][l] # "none"
    BY <1>3 DEF JobsAreStarted
  <2>1. CASE a # b
    BY <2>1, <1>3 DEF IInv, TypeOK, JobsAreStarted
  <2>2. CASE a = b
    BY <2>2, <1>1, <1>3 DEF IInv, TypeOK, JobsAreStarted, Fits
  <2> QED
    BY <2>1, <2>2
<1>9. LinesOut'
  BY <1>2, <1>3 DEF IInv, TypeOK, LinesOut, x
<1>10. LateIsLast'
  <2> SUFFICES ASSUME NEW a \in Batches, NEW l \in 1..Lines[a], <<a, l>> \in late'
               PROVE Cancelled(a) /\ job'[a].phase # "throttled"
    BY <1>3 DEF LateIsLast, Cancelled
  <2>1. CASE a # b
    BY <2>1, <1>3 DEF IInv, TypeOK, LateIsLast, x
  <2>2. CASE a = b
    BY <2>2, <1>2, <1>3 DEF IInv, TypeOK, JobsAreStarted, Cancelled
  <2> QED
    BY <2>1, <2>2
<1>11. LateOnce'
  BY <1>3 DEF IInv, LateOnce, x
<1> QED
  BY <1>5, <1>6, <1>7, <1>8, <1>9, <1>10, <1>11 DEF IInv

Stopping == {"cancelling", "cancelled", "deleted"}

(* Any other step that changes one batch and sends no new line.            *)
LEMMA LocalInv ==
    ASSUME IInv, NEW b \in Batches, NEW s \in Statuses, NEW m, NEW i,
           NEW f \in [output : SUBSET Nat, error : SUBSET Nat],
           Fits(b, m), Collects(b, i), f.output \cup f.error \subseteq 1..Lines[b],
           i.phase \in {"throttled", "sent", "backoff"} => i.line \in 1..Lines[b],
           i.phase = "backoff" => i.tries < MaxTries,
           i.phase = "throttled" => <<b, i.line>> \notin past,
           i.phase \in {"sent", "backoff"} => <<b, i.line>> \in sent,
           i # NoJob => /\ s \in {"in_progress"} \cup Stopping
                        /\ s # "deleted" => \A l \in 1..Lines[b] : m[l] # "none",
           \A l \in 1..Lines[b] : <<b, l>> \in late => s \in Stopping /\ i.phase # "throttled",
           status[b] = "deleted" => s = "deleted",
           status[b] \notin {"absent", "validating"} => s \notin {"absent", "validating"},
           job[b] = NoJob => i = NoJob /\ m = mark[b],
           status' = [status EXCEPT ![b] = s],
           mark' = [mark EXCEPT ![b] = m] \/ (mark' = mark /\ m = mark[b]),
           job' = [job EXCEPT ![b] = i], files' = [files EXCEPT ![b] = f],
           input' \subseteq Batches, UNCHANGED history
    PROVE  IInv'
<1>1. UNCHANGED <<past, sent, late, crashes>>
  BY DEF history
<1>2. /\ status'[b] = s /\ mark'[b] = m /\ job'[b] = i /\ files'[b] = f
      /\ \A a \in Batches : a # b => /\ status'[a] = status[a] /\ mark'[a] = mark[a]
                                    /\ job'[a] = job[a] /\ files'[a] = files[a]
  BY DEF IInv, TypeOK
<1>3. TypeOK'
  <2>1. DOMAIN mark' = Batches /\ \A a \in Batches : mark'[a] \in [1..Lines[a] -> Marks]
    BY <1>2 DEF IInv, TypeOK, Fits
  <2>2. job' \in [Batches -> JobType]
    BY DEF IInv, TypeOK, JobType, Collects
  <2>3. /\ status' \in [Batches -> Statuses]
        /\ files' \in [Batches -> [output : SUBSET Nat, error : SUBSET Nat]]
        /\ \A a \in Batches : files'[a].output \cup files'[a].error \subseteq 1..Lines[a]
    BY <1>2 DEF IInv, TypeOK
  <2>4. ASSUME NEW a \in Batches
        PROVE /\ job'[a].good \cup job'[a].failed \subseteq 1..Lines[a]
              /\ job'[a].phase \in {"throttled", "sent", "backoff"}
                    => job'[a].line \in 1..Lines[a]
              /\ job'[a].tries <= MaxTries
              /\ job'[a].phase = "backoff" => job'[a].tries < MaxTries
    <3>1. CASE a = b
      BY <3>1, <1>2 DEF Collects
    <3>2. CASE a # b
      BY <3>2, <1>2 DEF IInv, TypeOK
    <3> QED
      BY <3>1, <3>2
  <2> QED
    BY <2>1, <2>2, <2>3, <2>4, <1>1 DEF IInv, TypeOK, JobType
<1>4. NoReplay'
  BY <1>1 DEF IInv, NoReplay
<1>5. SentAreMarked'
  <2> SUFFICES ASSUME NEW a \in Batches, NEW l \in 1..Lines[a], <<a, l>> \in past \cup sent
               PROVE /\ mark'[a][l] # "pending"
                     /\ mark'[a][l] = "none" =>
                           \/ status'[a] = "deleted"
                           \/ /\ status'[a] \notin {"absent", "validating"}
                              /\ job'[a] = NoJob /\ mark'[a] = NoMarks(a)
    BY <1>1 DEF SentAreMarked, NoMarks
  <2>1. CASE a # b
    BY <2>1, <1>2 DEF IInv, SentAreMarked
  <2>2. CASE a = b
    <3>1. mark[b][l] # "pending" /\ (m[l] = "none" <=> mark[b][l] = "none")
      BY <2>2 DEF IInv, SentAreMarked, Fits
    <3>2. m[l] # "pending"
      BY <2>2, <3>1 DEF Fits
    <3>3. m[l] = "none" => \/ status[b] = "deleted"
                           \/ /\ status[b] \notin {"absent", "validating"}
                              /\ job[b] = NoJob /\ mark[b] = NoMarks(b)
      BY <2>2, <3>1 DEF IInv, SentAreMarked
    <3> QED
      BY <2>2, <3>2, <3>3, <1>2
  <2> QED
    BY <2>1, <2>2
<1>6. JobsAreStarted'
  BY <1>2 DEF IInv, JobsAreStarted, Stopping
<1>7. LinesOut'
  BY <1>1, <1>2 DEF IInv, LinesOut
<1>8. LateIsLast'
  BY <1>1, <1>2 DEF IInv, LateIsLast, Cancelled, Stopping
<1>9. LateOnce'
  BY <1>1 DEF IInv, LateOnce
<1> QED
  BY <1>3, <1>4, <1>5, <1>6, <1>7, <1>8, <1>9 DEF IInv

(* A crash that leaves the table such that no sent line looks unsent.      *)
LEMMA LostInv ==
    ASSUME IInv, Lost, status' \in [Batches -> Statuses], DOMAIN mark' = Batches,
           \A a \in Batches : mark'[a] \in [1..Lines[a] -> Marks],
           files' = files, input' = input,
           \A a \in Batches : \A l \in 1..Lines[a] : <<a, l>> \in past \cup sent =>
              /\ mark'[a][l] # "pending"
              /\ mark'[a][l] = "none" =>
                    \/ status'[a] = "deleted"
                    \/ /\ status'[a] \notin {"absent", "validating"}
                       /\ mark'[a] = NoMarks(a),
           \A a \in Batches : \A l \in 1..Lines[a] :
              <<a, l>> \in late => status'[a] \in Stopping
    PROVE  IInv'
<1>1. /\ past' \cup sent' = past \cup sent /\ sent' = {} /\ late' = late
      /\ crashes < MaxCrashes /\ crashes' = crashes + 1
      /\ \A a \in Batches : job'[a] = NoJob
      /\ DOMAIN job' = Batches
  BY DEF Lost
<1>2. NoJob \in JobType /\ NoJob.phase = "none" /\ NoJob.tries = 0
      /\ NoJob.good = {} /\ NoJob.failed = {}
  BY DEF NoJob, JobType, Phases
<1>3. job' \in [Batches -> JobType]
  BY <1>2 DEF Lost
<1>4. TypeOK'
  BY <1>1, <1>2, <1>3 DEF IInv, TypeOK, JobType
<1>5. NoReplay' /\ JobsAreStarted' /\ LinesOut'
  BY <1>1, <1>2 DEF NoReplay, JobsAreStarted, LinesOut
<1>6. SentAreMarked'
  BY <1>1 DEF SentAreMarked, NoMarks
<1>7. LateIsLast' /\ LateOnce'
  BY <1>1, <1>2 DEF IInv, LateIsLast, LateOnce, Cancelled, Stopping
<1> QED
  BY <1>4, <1>5, <1>6, <1>7 DEF IInv

(* A job that ends because its batch was cancelled.                        *)
LEMMA HaltInv ==
    ASSUME IInv, NEW b \in Batches, NEW m, Fits(b, m), job[b] # NoJob,
           Cancelled(b), Halt(b, m), input' = input
    PROVE  IInv'
<1> DEFINE s == IF status[b] = "cancelling" THEN "cancelled" ELSE status[b]
<1>1. s \in Statuses /\ s \in Stopping /\ (status[b] = "deleted" <=> s = "deleted")
  BY DEF Cancelled, Statuses, Terminal, Stopping
<1>2. /\ status' = [status EXCEPT ![b] = s]
      /\ mark' = [mark EXCEPT ![b] = m] /\ job' = [job EXCEPT ![b] = NoJob]
      /\ files' = [files EXCEPT ![b] = files[b]] /\ UNCHANGED history
  BY DEF Halt, IInv, TypeOK
<1>3. Collects(b, NoJob) /\ NoJob.phase = "none"
  BY DEF NoJob, Collects, JobType, Phases
<1>4. /\ files[b] \in [output : SUBSET Nat, error : SUBSET Nat]
      /\ files[b].output \cup files[b].error \subseteq 1..Lines[b]
      /\ input' \subseteq Batches
  BY DEF IInv, TypeOK
<1>5. s \notin {"absent", "validating"}
  BY <1>1 DEF Stopping
<1> HIDE DEF s
<1> QED
  BY <1>1, <1>2, <1>3, <1>4, <1>5, LocalInv

(* The loop up to its next await.                                          *)
LEMMA AdvanceInv ==
    ASSUME IInv, NEW b \in Batches, NEW m, NEW j, NEW l \in 1..(Lines[b] + 1),
           Fits(b, m), Collects(b, j), job[b] # NoJob, Advance(b, m, j, l),
           \A x \in 1..Lines[b] : <<b, x>> \in past \cup sent => m[x] # "pending"
    PROVE  IInv'
<1>1. CASE Cancelled(b) /\ Halt(b, m)
  BY <1>1, HaltInv DEF Advance
<1>2. CASE ~Cancelled(b)
  <2>1. PICK k \in l..(Lines[b] + 1) :
          LET n == MarksUpTo(b, m, l, k)
              i == JobUpTo(b, m, j, l, k)
          IN  /\ Reach(b, m, l, k)
              /\ \/ k <= Lines[b] /\ Send(b, n, i)
                 \/ /\ k <= Lines[b]
                    /\ mark' = [mark EXCEPT ![b] = n]
                    /\ job' = [job EXCEPT ![b] = [i EXCEPT !.phase = "throttled"]]
                    /\ UNCHANGED <<status, files, history>>
                 \/ k > Lines[b] /\ (Complete(b, n, i) \/ DieFinalizing(b, n))
    BY <1>2 DEF Advance
  <2> DEFINE n == MarksUpTo(b, m, l, k)
             i == JobUpTo(b, m, j, l, k)
  <2>2. Fits(b, n)
    BY MarksUpToFit
  <2>3. Collects(b, i) /\ i.line = k /\ i.tries = 0
    BY JobUpToCollects
  <2>4. status[b] = "in_progress" /\ \A x \in 1..Lines[b] : mark[b][x] # "none"
    BY <1>2 DEF IInv, JobsAreStarted, Cancelled
  <2>5. \A x \in 1..Lines[b] : <<b, x>> \notin late
    BY <1>2 DEF IInv, LateIsLast
  <2>6. ASSUME k <= Lines[b] PROVE k \in 1..Lines[b] /\ <<b, k>> \notin past \cup sent
    <3>1. k \in 1..Lines[b] /\ ~Settled(m[k])
      BY <2>1, <2>6 DEF Reach
    <3>2. m[k] \in Marks /\ m[k] # "none"
      BY <3>1, <2>4 DEF Fits
    <3>3. m[k] = "pending"
      BY <3>1, <3>2 DEF Settled, Marks
    <3> QED
      BY <3>1, <3>3
  <2>7. input' = input
    BY DEF Advance
  <2>8. \A x \in 1..Lines[b] : n[x] # "none"
    BY <2>2, <2>4 DEF Fits
  <2>9. /\ files[b] \in [output : SUBSET Nat, error : SUBSET Nat]
        /\ files[b].output \cup files[b].error \subseteq 1..Lines[b]
        /\ input' \subseteq Batches
    BY <2>7 DEF IInv, TypeOK
  <2>10. \/ k <= Lines[b] /\ Send(b, n, i)
         \/ /\ k <= Lines[b]
            /\ mark' = [mark EXCEPT ![b] = n]
            /\ job' = [job EXCEPT ![b] = [i EXCEPT !.phase = "throttled"]]
            /\ UNCHANGED <<status, files, history>>
         \/ k > Lines[b] /\ (Complete(b, n, i) \/ DieFinalizing(b, n))
    BY <2>1
  <2> HIDE DEF n, i
  <2>11. CASE k <= Lines[b] /\ Send(b, n, i)
    BY <2>11, <2>2, <2>3, <2>5, <2>6, <2>7, SendInv
  <2>12. CASE /\ k <= Lines[b]
              /\ mark' = [mark EXCEPT ![b] = n]
              /\ job' = [job EXCEPT ![b] = [i EXCEPT !.phase = "throttled"]]
              /\ UNCHANGED <<status, files, history>>
    <3> DEFINE w == [i EXCEPT !.phase = "throttled"]
    <3>1. Collects(b, w) /\ w.phase = "throttled" /\ w.line = k
      BY <2>3 DEF Collects, JobType, Phases
    <3>2. /\ status' = [status EXCEPT ![b] = status[b]]
          /\ files' = [files EXCEPT ![b] = files[b]]
          /\ status[b] \in Statuses
      BY <2>12 DEF IInv, TypeOK
    <3>3. job' = [job EXCEPT ![b] = w] /\ mark' = [mark EXCEPT ![b] = n] /\ UNCHANGED history
      BY <2>12
    <3>4. k \in 1..Lines[b] /\ <<b, k>> \notin past
      BY <2>12, <2>6
    <3> HIDE DEF w
    <3> QED
      BY <3>1, <3>2, <3>3, <3>4, <2>2, <2>4, <2>5, <2>8, <2>9, LocalInv
  <2>13. CASE Complete(b, n, i)
    <3> DEFINE f == [output |-> i.good, error |-> i.failed]
    <3>1. /\ f \in [output : SUBSET Nat, error : SUBSET Nat]
          /\ f.output \cup f.error \subseteq 1..Lines[b]
      BY <2>3 DEF Collects, JobType
    <3>2. Collects(b, NoJob) /\ NoJob.phase = "none"
      BY DEF NoJob, Collects, JobType, Phases
    <3>3. /\ status' = [status EXCEPT ![b] = "completed"]
          /\ mark' = [mark EXCEPT ![b] = n] /\ job' = [job EXCEPT ![b] = NoJob]
          /\ files' = [files EXCEPT ![b] = f] /\ UNCHANGED history
      BY <2>13 DEF Complete
    <3>4. "completed" \in Statuses
      BY DEF Statuses, Terminal
    <3> HIDE DEF f
    <3> QED
      BY <3>1, <3>2, <3>3, <3>4, <2>2, <2>4, <2>5, <2>9, LocalInv
  <2>14. CASE DieFinalizing(b, n)
    <3>1. /\ Lost /\ files' = files
          /\ status' = [status EXCEPT ![b] = "finalizing"] /\ mark' = [mark EXCEPT ![b] = n]
      BY <2>14 DEF DieFinalizing
    <3>2. /\ status' \in [Batches -> Statuses] /\ status'[b] = "finalizing" /\ mark'[b] = n
          /\ DOMAIN mark' = Batches
          /\ \A a \in Batches : a # b => status'[a] = status[a] /\ mark'[a] = mark[a]
      BY <3>1 DEF IInv, TypeOK, Statuses, Pending
    <3>3. \A a \in Batches : mark'[a] \in [1..Lines[a] -> Marks]
      BY <3>2, <2>2 DEF IInv, TypeOK, Fits
    <3>4. ASSUME NEW a \in Batches, NEW x \in 1..Lines[a], <<a, x>> \in past \cup sent
          PROVE  /\ mark'[a][x] # "pending"
                 /\ mark'[a][x] = "none" =>
                       \/ status'[a] = "deleted"
                       \/ /\ status'[a] \notin {"absent", "validating"}
                          /\ mark'[a] = NoMarks(a)
      <4>1. CASE a = b
        <5>1. mark[b][x] # "pending"
          BY <3>4, <4>1 DEF IInv, SentAreMarked
        <5>2. n[x] # "pending"
          BY <5>1, <4>1, <2>2 DEF Fits
        <5> QED
          BY <4>1, <5>2, <3>2, <2>8
      <4>2. CASE a # b
        BY <3>4, <4>2, <3>2 DEF IInv, SentAreMarked
      <4> QED
        BY <4>1, <4>2
    <3>5. ASSUME NEW a \in Batches, NEW x \in 1..Lines[a], <<a, x>> \in late
          PROVE  status'[a] \in Stopping
      BY <3>5, <3>2, <2>5 DEF IInv, LateIsLast, Cancelled, Stopping
    <3> QED
      BY <3>1, <3>2, <3>3, <3>4, <3>5, <2>7, LostInv
  <2> QED
    BY <2>10, <2>11, <2>12, <2>13, <2>14
<1> QED
  BY <1>1, <1>2 DEF Advance

LEMMA BeginInv == ASSUME IInv, NEW b \in Batches, Begin(b) PROVE IInv'
<1>1. job[b].phase = "starting" /\ Advance(b, mark[b], job[b], 1)
  BY DEF Begin
<1>2. /\ Collects(b, job[b]) /\ Fits(b, mark[b]) /\ job[b] # NoJob
      /\ 1 \in 1..(Lines[b] + 1)
  BY <1>1, JobFacts
<1>3. \A x \in 1..Lines[b] : <<b, x>> \in past \cup sent => mark[b][x] # "pending"
  BY DEF IInv, SentAreMarked
<1> QED
  BY <1>1, <1>2, <1>3, AdvanceInv

LEMMA ResultInv ==
    ASSUME IInv, NEW b \in Batches, NEW v \in {"ok", "bad", "errored"}, Result(b, v)
    PROVE  IInv'
<1> DEFINE x == job[b].line
           m == Noted(b, v)
           j == IF v = "ok" THEN [job[b] EXCEPT !.good = @ \cup {x}]
                ELSE [job[b] EXCEPT !.failed = @ \cup {x}]
<1>1. job[b].phase = "sent" /\ Advance(b, m, j, x + 1)
  BY DEF Result
<1>2. /\ Collects(b, job[b]) /\ Fits(b, mark[b]) /\ job[b] # NoJob
      /\ x \in 1..Lines[b]
  BY <1>1, JobFacts
<1>3. x + 1 \in 1..(Lines[b] + 1)
  BY <1>2
<1>4. Fits(b, m)
  BY <1>2 DEF Fits, Noted, Marks
<1>5. Collects(b, j)
  <2>1. x \in Nat /\ 1..Lines[b] \subseteq Nat
    BY <1>2
  <2>2. job[b].good \cup {x} \in SUBSET Nat /\ job[b].failed \cup {x} \in SUBSET Nat
    BY <1>2, <2>1 DEF Collects, JobType
  <2> HIDE DEF x
  <2>3. j \in JobType /\ j.tries = job[b].tries
        /\ j.good \cup j.failed \subseteq (job[b].good \cup job[b].failed) \cup {x}
    BY <1>2, <2>2 DEF Collects, JobType
  <2> QED
    BY <1>2, <2>3 DEF Collects
<1>6. ASSUME NEW l \in 1..Lines[b], <<b, l>> \in past \cup sent PROVE m[l] # "pending"
  <2>1. mark[b][l] # "pending"
    BY <1>6 DEF IInv, SentAreMarked
  <2> QED
    BY <1>4, <2>1 DEF Fits
<1> HIDE DEF m, j, x
<1> QED
  BY <1>1, <1>2, <1>3, <1>4, <1>5, <1>6, AdvanceInv

LEMMA WakeInv == ASSUME IInv, NEW b \in Batches, Wake(b) PROVE IInv'
<1>1. /\ job[b].phase = "throttled" /\ input' = input
      /\ Send(b, mark[b], job[b]) \/ (status[b] = "deleted" /\ Halt(b, mark[b]))
  BY DEF Wake
<1>2. /\ Collects(b, job[b]) /\ Fits(b, mark[b]) /\ job[b] # NoJob
      /\ job[b].line \in 1..Lines[b]
  BY <1>1, JobFacts
<1>3. /\ <<b, job[b].line>> \notin past
      /\ \A l \in 1..Lines[b] : <<b, l>> \notin late
  BY <1>1 DEF IInv, LinesOut, LateIsLast
<1>4. CASE Send(b, mark[b], job[b])
  BY <1>1, <1>2, <1>3, <1>4, SendInv
<1>5. CASE status[b] = "deleted" /\ Halt(b, mark[b])
  BY <1>1, <1>2, <1>5, HaltInv DEF Cancelled
<1> QED
  BY <1>1, <1>4, <1>5

(* A step of a job that leaves the table alone.                            *)
LEMMA WaitInv == ASSUME IInv, NEW b \in Batches, Refuse(b) \/ Retry(b) PROVE IInv'
<1> DEFINE i == IF Refuse(b) THEN [job[b] EXCEPT !.phase = "backoff"]
                ELSE [job[b] EXCEPT !.phase = "sent", !.tries = @ + 1]
<1>0. /\ Collects(b, job[b]) /\ Fits(b, mark[b]) /\ job[b] # NoJob
      /\ job[b].line \in 1..Lines[b] /\ job[b].phase \in {"sent", "backoff"}
  BY JobFacts DEF Refuse, Retry
<1>1. <<b, job[b].line>> \in sent
  BY <1>0 DEF IInv, LinesOut
<1>2. job[b].phase = "backoff" => job[b].tries < MaxTries
  BY DEF IInv, TypeOK
<1>3. Refuse(b) => job[b].phase = "sent" /\ job[b].tries < MaxTries
  BY DEF Refuse
<1>4. ~Refuse(b) => job[b].phase = "backoff" /\ job[b].tries < MaxTries
  BY <1>2 DEF Retry
<1>5. job[b] \in JobType
  BY <1>0 DEF Collects
<1>6. /\ i \in JobType /\ i.phase \in {"sent", "backoff"} /\ i.line = job[b].line
      /\ i.good = job[b].good /\ i.failed = job[b].failed
      /\ i.tries <= MaxTries /\ (i.phase = "backoff" => i.tries < MaxTries)
  <2>1. CASE Refuse(b)
    BY <2>1, <1>3, <1>5 DEF JobType, Phases
  <2>2. CASE ~Refuse(b)
    <3>1. job[b].tries + 1 \in Nat /\ job[b].tries + 1 <= MaxTries
      BY <2>2, <1>4, <1>5 DEF JobType
    <3>2. i = [job[b] EXCEPT !.phase = "sent", !.tries = job[b].tries + 1]
      BY <2>2
    <3>3. i \in JobType
      BY <3>1, <3>2, <1>5 DEF JobType, Phases
    <3>4. /\ i.phase = "sent" /\ i.line = job[b].line /\ i.tries = job[b].tries + 1
          /\ i.good = job[b].good /\ i.failed = job[b].failed
      BY <3>2, <1>5 DEF JobType
    <3> QED
      BY <3>1, <3>3, <3>4
  <2> QED
    BY <2>1, <2>2
<1>7. job' = [job EXCEPT ![b] = i]
  <2>1. CASE Refuse(b)
    BY <2>1 DEF Refuse, IInv, TypeOK
  <2>2. CASE ~Refuse(b)
    BY <2>2 DEF Retry, IInv, TypeOK
  <2> QED
    BY <2>1, <2>2
<1>8. UNCHANGED <<status, mark, files, input>> /\ UNCHANGED history
  BY <1>1, <1>3 DEF Refuse, Retry, database, history
<1>9. /\ status' = [status EXCEPT ![b] = status[b]] /\ mark' = mark
      /\ files' = [files EXCEPT ![b] = files[b]] /\ input' \subseteq Batches
      /\ status[b] \in Statuses /\ files[b] \in [output : SUBSET Nat, error : SUBSET Nat]
      /\ files[b].output \cup files[b].error \subseteq 1..Lines[b]
  BY <1>8 DEF IInv, TypeOK
<1>10. /\ status[b] \in {"in_progress"} \cup Stopping
       /\ status[b] # "deleted" => \A l \in 1..Lines[b] : mark[b][l] # "none"
  BY <1>0 DEF IInv, JobsAreStarted, Stopping
<1>11. \A l \in 1..Lines[b] : <<b, l>> \in late => status[b] \in Stopping
  BY DEF IInv, LateIsLast, Cancelled, Stopping
<1>12. Collects(b, i)
  BY <1>0, <1>6 DEF Collects
<1> HIDE DEF i
<1> QED
  BY <1>0, <1>1, <1>6, <1>7, <1>8, <1>9, <1>10, <1>11, <1>12, LocalInv

-----------------------------------------------------------------------------
(* Steps of the API                                                        *)

LEMMA RequestInv ==
    ASSUME IInv, NEW b \in Batches, Create(b) \/ Cancel(b) \/ DeleteInput(b)
    PROVE  IInv'
<1>1. UNCHANGED <<mark, files, job>> /\ UNCHANGED history /\ input' \subseteq Batches
  BY DEF Create, Cancel, DeleteInput, IInv, TypeOK
<1>2. PICK s \in Statuses :
        /\ status' = [status EXCEPT ![b] = s]
        /\ status[b] = "deleted" => s = "deleted"
        /\ status[b] \notin {"absent", "validating"} => s \notin {"absent", "validating"}
        /\ status[b] \in {"in_progress"} \cup Stopping => s \in {"in_progress"} \cup Stopping
        /\ status[b] \in Stopping => s \in Stopping
        /\ s = "deleted" => status[b] = "deleted"
  <2>1. CASE Create(b)
    <3>1. "validating" \in Statuses /\ status[b] \notin {"in_progress"} \cup Stopping
      BY <2>1 DEF Create, Statuses, Pending, Stopping
    <3> QED
      BY <2>1, <3>1 DEF Create
  <2>2. CASE Cancel(b)
    <3>1. /\ "cancelling" \in Statuses /\ "cancelling" \in Stopping
          /\ status[b] # "deleted"
      BY <2>2 DEF Cancel, Statuses, Pending, Stopping
    <3> QED
      BY <2>2, <3>1 DEF Cancel
  <2>3. CASE DeleteInput(b)
    <3>1. status[b] \in Statuses /\ status' = [status EXCEPT ![b] = status[b]]
      BY <2>3 DEF DeleteInput, IInv, TypeOK
    <3> QED
      BY <3>1
  <2> QED
    BY <2>1, <2>2, <2>3
<1> DEFINE i == job[b]
           m == mark[b]
<1>3. /\ Collects(b, i) /\ Fits(b, m)
      /\ i.phase \in {"throttled", "sent", "backoff"} => i.line \in 1..Lines[b]
      /\ i.phase = "backoff" => i.tries < MaxTries
      /\ i.phase = "throttled" => <<b, i.line>> \notin past
      /\ i.phase \in {"sent", "backoff"} => <<b, i.line>> \in sent
  BY JobFacts DEF IInv, LinesOut, TypeOK
<1>4. ASSUME i # NoJob
      PROVE  /\ s \in {"in_progress"} \cup Stopping
             /\ s # "deleted" => \A l \in 1..Lines[b] : m[l] # "none"
  BY <1>2, <1>4 DEF IInv, JobsAreStarted, Stopping
<1>5. ASSUME NEW l \in 1..Lines[b], <<b, l>> \in late
      PROVE  s \in Stopping /\ i.phase # "throttled"
  BY <1>2, <1>5 DEF IInv, LateIsLast, Cancelled, Stopping
<1>6. /\ job' = [job EXCEPT ![b] = i]
      /\ files' = [files EXCEPT ![b] = files[b]]
      /\ files[b] \in [output : SUBSET Nat, error : SUBSET Nat]
      /\ files[b].output \cup files[b].error \subseteq 1..Lines[b]
  BY <1>1 DEF IInv, TypeOK
<1>7. mark' = mark /\ m = mark[b] /\ (job[b] = NoJob => i = NoJob)
  BY <1>1
<1> HIDE DEF i, m
<1> QED
  BY <1>1, <1>2, <1>3, <1>4, <1>5, <1>6, <1>7, LocalInv

(* Deleting batches that have ended.                                       *)
LEMMA DeletedInv ==
    ASSUME IInv, NEW D \in SUBSET Batches, Deleted(D), \A b \in D : status[b] \in Terminal
    PROVE  IInv'
<1>1. /\ \A b \in D : status'[b] = "deleted" /\ mark'[b] = NoMarks(b) /\ files'[b] = NoFiles
      /\ \A b \in Batches \ D : /\ status'[b] = status[b] /\ mark'[b] = mark[b]
                              /\ files'[b] = files[b]
      /\ DOMAIN status' = Batches /\ DOMAIN mark' = Batches /\ DOMAIN files' = Batches
      /\ input' = input \ D
      /\ UNCHANGED <<job, past, sent, late, crashes>>
  BY DEF Deleted, history
<1>2. TypeOK'
  <2>1. status' \in [Batches -> Statuses]
    BY DEF Deleted, IInv, TypeOK, Statuses
  <2>2. \A b \in Batches : mark'[b] \in [1..Lines[b] -> Marks]
    BY <1>1 DEF IInv, TypeOK, NoMarks, Marks
  <2>3. /\ files' \in [Batches -> [output : SUBSET Nat, error : SUBSET Nat]]
        /\ \A b \in Batches : files'[b].output \cup files'[b].error \subseteq 1..Lines[b]
    BY <1>1 DEF Deleted, IInv, TypeOK, NoFiles
  <2> QED
    BY <1>1, <2>1, <2>2, <2>3 DEF IInv, TypeOK
<1>3. NoReplay' /\ LinesOut' /\ LateOnce'
  BY <1>1 DEF IInv, NoReplay, LinesOut, LateOnce
<1>4. SentAreMarked'
  <2> SUFFICES ASSUME NEW a \in Batches, NEW l \in 1..Lines[a], <<a, l>> \in past \cup sent
               PROVE /\ mark'[a][l] # "pending"
                     /\ mark'[a][l] = "none" =>
                           \/ status'[a] = "deleted"
                           \/ /\ status'[a] \notin {"absent", "validating"}
                              /\ job[a] = NoJob /\ mark'[a] = NoMarks(a)
    BY <1>1 DEF SentAreMarked, NoMarks
  <2>1. CASE a \in D
    BY <2>1, <1>1 DEF NoMarks
  <2>2. CASE a \notin D
    BY <2>2, <1>1 DEF IInv, SentAreMarked
  <2> QED
    BY <2>1, <2>2
<1>5. JobsAreStarted'
  <2> SUFFICES ASSUME NEW a \in Batches, job[a] # NoJob
               PROVE /\ status'[a] \in {"in_progress", "cancelling", "cancelled", "deleted"}
                     /\ status'[a] # "deleted"
                           => \A l \in 1..Lines[a] : mark'[a][l] # "none"
    BY <1>1 DEF JobsAreStarted, NoJob
  <2>1. CASE a \in D
    BY <2>1, <1>1
  <2>2. CASE a \notin D
    BY <2>2, <1>1 DEF IInv, JobsAreStarted
  <2> QED
    BY <2>1, <2>2
<1>6. LateIsLast'
  <2> SUFFICES ASSUME NEW a \in Batches, NEW l \in 1..Lines[a], <<a, l>> \in late
               PROVE status'[a] \in Stopping /\ job[a].phase # "throttled"
    BY <1>1 DEF LateIsLast, Cancelled, Stopping
  <2> QED
    BY <1>1 DEF IInv, LateIsLast, Cancelled, Stopping
<1> QED
  BY <1>2, <1>3, <1>4, <1>5, <1>6 DEF IInv

-----------------------------------------------------------------------------
(* The poll                                                                *)

(* What a poll, or the part of one before a crash, does to a batch: no     *)
(* sent line looks unsent, a batch with a job goes on or is cancelled, and *)
(* one that is started has no job and gets all its checkpoints.            *)
PolledBatch(S, a) ==
    /\ status'[a] \in Statuses
    /\ mark'[a] \in [1..Lines[a] -> Marks]
    /\ \A l \in 1..Lines[a] : <<a, l>> \in past \cup sent =>
          /\ mark'[a][l] # "pending"
          /\ mark'[a][l] = "none" =>
                \/ status'[a] = "deleted"
                \/ /\ status'[a] \notin {"absent", "validating"}
                   /\ mark'[a] = NoMarks(a)
                   /\ job[a] = NoJob /\ a \notin Begun(S)
    /\ \A l \in 1..Lines[a] : <<a, l>> \in late => status'[a] \in Stopping
    /\ status[a] \in Terminal => status'[a] = status[a]
    /\ a \in Begun(S) => /\ job[a] = NoJob /\ status'[a] = "in_progress"
                         /\ \A l \in 1..Lines[a] : mark'[a][l] # "none"
    /\ a \notin Begun(S) => mark'[a] = mark[a]
    /\ job[a] # NoJob => /\ status'[a] \in {"in_progress"} \cup Stopping
                         /\ status'[a] = "deleted" => status[a] = "deleted"

LEMMA PolledFacts ==
    ASSUME IInv, NEW R \in SUBSET Stale, NEW S \in SUBSET Ready(R),
           NEW C \in SUBSET Cancelling, NEW X \in SUBSET Ready(R), Polled(R, S, C, X),
           NEW a \in Batches
    PROVE  PolledBatch(S, a)
<1>1. /\ a \in R => status[a] \in {"in_progress", "finalizing"} /\ job[a] = NoJob
      /\ a \in C => status[a] = "cancelling"
      /\ a \in S \cup X =>
            (a \in R /\ ~Unsafe(a)) \/ (a \notin R /\ status[a] = "validating")
  BY DEF Stale, Active, Cancelling, Ready, Recovered
<1>2. /\ status'[a] = IF a \in Begun(S) THEN "in_progress" ELSE IF a \in S THEN "failed"
                      ELSE IF a \in C THEN "cancelled" ELSE IF a \in X THEN "expired"
                      ELSE IF a \notin R THEN status[a]
                      ELSE IF Unsafe(a) THEN "failed" ELSE "validating"
      /\ mark'[a] = IF a \in Begun(S)
                    THEN [l \in 1..Lines[a] |->
                            IF mark[a][l] = "none" THEN "pending" ELSE mark[a][l]]
                    ELSE mark[a]
  BY DEF Polled, Recovered
<1>3. /\ status[a] \in Statuses /\ mark[a] \in [1..Lines[a] -> Marks]
      /\ job[a] # NoJob => status[a] \in {"in_progress"} \cup Stopping
      /\ \A l \in 1..Lines[a] : <<a, l>> \in late => status[a] \in Stopping
  BY DEF IInv, TypeOK, JobsAreStarted, LateIsLast, Cancelled, Stopping
<1>4. Begun(S) \subseteq S
  BY DEF Begun
<1>5. a \in S \cup X => job[a] = NoJob /\ status[a] \in Pending \ Stopping
  BY <1>1, <1>3 DEF Pending, Stopping
<1>6. status'[a] \in Statuses /\ mark'[a] \in [1..Lines[a] -> Marks]
  BY <1>2, <1>3 DEF Statuses, Pending, Terminal, Marks
<1>7. ASSUME NEW l \in 1..Lines[a], <<a, l>> \in past \cup sent
      PROVE  /\ mark'[a][l] # "pending"
             /\ mark'[a][l] = "none" =>
                   \/ status'[a] = "deleted"
                   \/ /\ status'[a] \notin {"absent", "validating"}
                      /\ mark'[a] = NoMarks(a)
                      /\ job[a] = NoJob /\ a \notin Begun(S)
  <2>1. /\ mark[a][l] # "pending"
        /\ mark[a][l] = "none" =>
              \/ status[a] = "deleted"
              \/ /\ status[a] \notin {"absent", "validating"}
                 /\ job[a] = NoJob /\ mark[a] = NoMarks(a)
    BY <1>7 DEF IInv, SentAreMarked
  <2>2. CASE mark[a][l] # "none"
    BY <2>1, <2>2, <1>2
  <2>3. CASE mark[a][l] = "none" /\ status[a] = "deleted"
    BY <2>3, <1>1, <1>2, <1>4
  <2>4. CASE /\ mark[a][l] = "none" /\ status[a] \notin {"absent", "validating"}
             /\ job[a] = NoJob /\ mark[a] = NoMarks(a)
    <3>1. Lines[a] > 0
      OBVIOUS
    <3>2. Unsafe(a)
      BY <2>4, <3>1 DEF Unsafe
    <3> QED
      BY <2>4, <3>2, <1>1, <1>2, <1>4
  <2> QED
    BY <2>1, <2>2, <2>3, <2>4
<1>8. ASSUME NEW l \in 1..Lines[a], <<a, l>> \in late
      PROVE  status'[a] \in Stopping
  BY <1>1, <1>2, <1>3, <1>4, <1>5, <1>8 DEF Stopping
<1>9. status[a] \in Terminal => status'[a] = status[a]
  BY <1>1, <1>2, <1>4 DEF Terminal
<1>10. a \in Begun(S) => /\ job[a] = NoJob /\ status'[a] = "in_progress"
                         /\ \A l \in 1..Lines[a] : mark'[a][l] # "none"
  BY <1>2, <1>4, <1>5
<1>11. a \notin Begun(S) => mark'[a] = mark[a]
  BY <1>2
<1>12. job[a] # NoJob => /\ status'[a] \in {"in_progress"} \cup Stopping
                         /\ status'[a] = "deleted" => status[a] = "deleted"
  BY <1>1, <1>2, <1>3, <1>4, <1>5 DEF Stopping
<1>13. \A l \in 1..Lines[a] : <<a, l>> \in past \cup sent =>
          /\ mark'[a][l] # "pending"
          /\ mark'[a][l] = "none" =>
                \/ status'[a] = "deleted"
                \/ /\ status'[a] \notin {"absent", "validating"}
                   /\ mark'[a] = NoMarks(a)
                   /\ job[a] = NoJob /\ a \notin Begun(S)
  BY <1>7
<1>14. \A l \in 1..Lines[a] : <<a, l>> \in late => status'[a] \in Stopping
  BY <1>8
<1> QED
  BY <1>6, <1>9, <1>10, <1>11, <1>12, <1>13, <1>14, Zenon DEF PolledBatch

LEMMA PollInv == ASSUME IInv, Poll PROVE IInv'
<1>1. PICK S \in SUBSET Ready(Stale) :
        /\ \E X \in SUBSET (Ready(Stale) \ S) : Polled(Stale, S, Cancelling, X)
        /\ job' = [b \in Batches |->
                    IF b \in Begun(S) THEN [NoJob EXCEPT !.phase = "starting"] ELSE job[b]]
        /\ UNCHANGED <<files, input, history>>
  BY DEF Poll
<1>2. PICK X \in SUBSET (Ready(Stale) \ S) : Polled(Stale, S, Cancelling, X)
  BY <1>1
<1>3. \A a \in Batches : PolledBatch(S, a)
  BY <1>2, PolledFacts
<1> DEFINE j == [NoJob EXCEPT !.phase = "starting"]
<1>4. j \in JobType /\ j.phase = "starting" /\ j.good = {} /\ j.failed = {} /\ j.tries = 0
  BY DEF NoJob, JobType, Phases
<1>5. /\ \A a \in Batches : job'[a] = IF a \in Begun(S) THEN j ELSE job[a]
      /\ UNCHANGED <<past, sent, late, crashes, files, input>>
  BY <1>1 DEF history
<1>6. j # NoJob
  BY <1>4 DEF NoJob
<1>7. job' \in [Batches -> JobType]
  <2> HIDE DEF j
  <2> QED
    BY <1>1, <1>4 DEF IInv, TypeOK, JobType, j
<1> HIDE DEF j
<1>8. DOMAIN status' = Batches /\ DOMAIN mark' = Batches
      /\ status' = [a \in Batches |-> status'[a]]
  BY <1>2 DEF Polled
<1>9. TypeOK'
  <2>1. status' \in [Batches -> Statuses]
    BY <1>3, <1>8 DEF PolledBatch
  <2>2. \A a \in Batches : mark'[a] \in [1..Lines[a] -> Marks]
    BY <1>3 DEF PolledBatch
  <2>3. ASSUME NEW a \in Batches
        PROVE  /\ job'[a].good \cup job'[a].failed \subseteq 1..Lines[a]
               /\ job'[a].phase \in {"throttled", "sent", "backoff"}
                     => job'[a].line \in 1..Lines[a]
               /\ job'[a].tries <= MaxTries
               /\ job'[a].phase = "backoff" => job'[a].tries < MaxTries
    <3>1. CASE a \in Begun(S)
      BY <3>1, <1>4, <1>5
    <3>2. CASE a \notin Begun(S)
      BY <3>2, <1>5 DEF IInv, TypeOK
    <3> QED
      BY <3>1, <3>2
  <2> QED
    BY <1>5, <1>7, <1>8, <2>1, <2>2, <2>3 DEF IInv, TypeOK, JobType
<1>10. NoReplay' /\ LateOnce'
  BY <1>5 DEF IInv, NoReplay, LateOnce
<1>11. SentAreMarked'
  BY <1>3, <1>5 DEF SentAreMarked, PolledBatch, NoMarks
<1>12. JobsAreStarted'
  <2> SUFFICES ASSUME NEW a \in Batches, job'[a] # NoJob
               PROVE /\ status'[a] \in {"in_progress", "cancelling", "cancelled", "deleted"}
                     /\ status'[a] # "deleted"
                           => \A l \in 1..Lines[a] : mark'[a][l] # "none"
    BY DEF JobsAreStarted, NoJob
  <2>1. CASE a \in Begun(S)
    BY <2>1, <1>3 DEF PolledBatch
  <2>2. CASE a \notin Begun(S)
    <3>1. job[a] # NoJob /\ mark'[a] = mark[a]
      BY <2>2, <1>3, <1>5 DEF PolledBatch
    <3>2. /\ status'[a] \in {"in_progress"} \cup Stopping
          /\ status'[a] = "deleted" => status[a] = "deleted"
      BY <3>1, <1>3 DEF PolledBatch
    <3>3. status[a] # "deleted" => \A l \in 1..Lines[a] : mark[a][l] # "none"
      BY <3>1 DEF IInv, JobsAreStarted
    <3>4. status'[a] # "deleted" => status[a] # "deleted"
      <4>1. Polled(Stale, S, Cancelling, X) /\ S \subseteq Ready(Stale) /\ X \subseteq Ready(Stale)
        BY <1>2
      <4> QED
        BY <4>1, <2>2 DEF Polled, Recovered, Ready, Stale, Cancelling
    <3> QED
      BY <3>1, <3>2, <3>3, <3>4 DEF Stopping
  <2> QED
    BY <2>1, <2>2
<1>13. LinesOut'
  BY <1>4, <1>5 DEF IInv, LinesOut
<1>14. LateIsLast'
  <2> SUFFICES ASSUME NEW a \in Batches, NEW l \in 1..Lines[a], <<a, l>> \in late
               PROVE status'[a] \in Stopping /\ job'[a].phase # "throttled"
    BY <1>5 DEF LateIsLast, Cancelled, Stopping
  <2> QED
    BY <1>3, <1>4, <1>5 DEF PolledBatch, IInv, LateIsLast
<1> QED
  BY <1>9, <1>10, <1>11, <1>12, <1>13, <1>14 DEF IInv

LEMMA CrashInv == ASSUME IInv, Crash PROVE IInv'
<1>1. Lost /\ UNCHANGED <<status, mark, files, input>>
  BY DEF Crash, database
<1>2. \A a \in Batches : \A l \in 1..Lines[a] : <<a, l>> \in late => status'[a] \in Stopping
  BY <1>1 DEF IInv, LateIsLast, Cancelled, Stopping
<1>3. \A a \in Batches : \A l \in 1..Lines[a] : <<a, l>> \in past \cup sent =>
         /\ mark'[a][l] # "pending"
         /\ mark'[a][l] = "none" =>
               \/ status'[a] = "deleted"
               \/ /\ status'[a] \notin {"absent", "validating"}
                  /\ mark'[a] = NoMarks(a)
  BY <1>1 DEF IInv, SentAreMarked
<1>4. /\ status' \in [Batches -> Statuses] /\ DOMAIN mark' = Batches
      /\ \A a \in Batches : mark'[a] \in [1..Lines[a] -> Marks]
  BY <1>1 DEF IInv, TypeOK
<1> QED
  BY <1>1, <1>2, <1>3, <1>4, LostInv

LEMMA CrashPollingInv == ASSUME IInv, CrashPolling PROVE IInv'
<1>1. PICK R \in SUBSET Stale, S \in SUBSET Ready(Stale), C \in SUBSET Cancelling :
        /\ R = Stale \/ (S = {} /\ C = {})
        /\ Polled(R, S, C, {})
  BY DEF CrashPolling
<1>2. Lost /\ files' = files /\ input' = input
  BY DEF CrashPolling
<1>3. S \in SUBSET Ready(R)
  BY <1>1
<1>4. \A a \in Batches : PolledBatch(S, a)
  BY <1>1, <1>3, PolledFacts
<1>5. /\ DOMAIN mark' = Batches /\ status' = [a \in Batches |-> status'[a]]
  BY <1>1 DEF Polled
<1>6. status' \in [Batches -> Statuses]
  BY <1>4, <1>5 DEF PolledBatch
<1> QED
  BY <1>2, <1>4, <1>5, <1>6, LostInv DEF PolledBatch

-----------------------------------------------------------------------------
(* The theorems                                                            *)

LEMMA InitInv == ASSUME Init PROVE IInv
<1>1. PICK old \in SUBSET {b \in Batches \ Invalid : Lines[b] > 0} :
        /\ status = [b \in Batches |-> IF b \in old THEN "in_progress" ELSE "absent"]
        /\ mark = [b \in Batches |-> NoMarks(b)]
        /\ files = [b \in Batches |-> NoFiles]
        /\ input = old
        /\ job = [b \in Batches |-> NoJob]
        /\ past = {i \in Items : i[1] \in old}
        /\ sent = {} /\ late = {} /\ crashes = 0
  BY DEF Init
<1>2. /\ NoJob \in JobType /\ NoJob.phase = "none" /\ NoJob.good = {} /\ NoJob.failed = {}
      /\ NoJob.tries = 0
  BY DEF NoJob, JobType, Phases
<1>3. TypeOK
  <2>1. status \in [Batches -> Statuses]
    BY <1>1 DEF Statuses, Pending
  <2>2. DOMAIN mark = Batches /\ \A b \in Batches : mark[b] \in [1..Lines[b] -> Marks]
    BY <1>1 DEF NoMarks, Marks
  <2>3. /\ files \in [Batches -> [output : SUBSET Nat, error : SUBSET Nat]]
        /\ \A b \in Batches : files[b].output \cup files[b].error \subseteq 1..Lines[b]
    BY <1>1 DEF NoFiles
  <2>4. job \in [Batches -> JobType] /\ \A b \in Batches : job[b] = NoJob
    BY <1>1, <1>2
  <2>5. input \subseteq Batches /\ past \subseteq Items
    BY <1>1
  <2> QED
    BY <1>1, <1>2, <2>1, <2>2, <2>3, <2>4, <2>5 DEF TypeOK, JobType
<1>4. \A b \in Batches : \A l \in 1..Lines[b] : <<b, l>> \in past => status[b] = "in_progress"
  BY <1>1
<1>5. SentAreMarked
  BY <1>1, <1>4 DEF SentAreMarked, NoMarks
<1> QED
  BY <1>1, <1>2, <1>3, <1>5 DEF IInv, NoReplay, JobsAreStarted, LinesOut, LateIsLast, LateOnce

LEMMA NextInv == IInv /\ [Next]_vars => IInv'
<1> SUFFICES ASSUME IInv, [Next]_vars PROVE IInv'
  OBVIOUS
<1>1. ASSUME NEW b \in Batches, Create(b) \/ Cancel(b) \/ DeleteInput(b) PROVE IInv'
  BY <1>1, RequestInv
<1>2. ASSUME NEW b \in Batches, Delete(b) PROVE IInv'
  BY <1>2, DeletedInv DEF Delete
<1>3. ASSUME NEW b \in Batches, Begin(b) PROVE IInv'
  BY <1>3, BeginInv
<1>4. ASSUME NEW b \in Batches, Wake(b) PROVE IInv'
  BY <1>4, WakeInv
<1>5. ASSUME NEW b \in Batches, Answer(b) \/ NoAnswer(b) PROVE IInv'
  BY <1>5, ResultInv DEF Answer, NoAnswer
<1>6. ASSUME NEW b \in Batches, Refuse(b) \/ Retry(b) PROVE IInv'
  BY <1>6, WaitInv
<1>7. CASE DeleteCompleted
  <2>1. Deleted({b \in Batches : status[b] = "completed"})
    BY <1>7 DEF DeleteCompleted
  <2>2. {b \in Batches : status[b] = "completed"} \in SUBSET Batches
        /\ \A b \in {a \in Batches : status[a] = "completed"} : status[b] \in Terminal
    BY DEF Terminal
  <2> QED
    BY <2>1, <2>2, DeletedInv
<1>8. CASE Poll
  BY <1>8, PollInv
<1>9. CASE Crash
  BY <1>9, CrashInv
<1>10. CASE CrashPolling
  BY <1>10, CrashPollingInv
<1>11. CASE UNCHANGED vars
  BY <1>11 DEF vars, IInv, TypeOK, NoReplay, SentAreMarked, JobsAreStarted, LinesOut,
               LateIsLast, LateOnce, Cancelled, NoMarks
<1> QED
  BY <1>1, <1>2, <1>3, <1>4, <1>5, <1>6, <1>7, <1>8, <1>9, <1>10, <1>11 DEF Next

LEMMA Invariance == Spec => []IInv
<1>1. Init => IInv
  BY InitInv
<1> QED
  BY <1>1, NextInv, PTL DEF Spec

(* The variables of the batch processor keep their types: a job is at a    *)
(* line of its batch and within its attempts.                              *)
THEOREM TypeCorrect == Spec => []TypeOK
<1>1. IInv => TypeOK
  BY DEF IInv
<1> QED
  BY <1>1, Invariance, PTL

(* However often and wherever processes die, no line that one of them sent *)
(* to a provider is sent by another.                                       *)
THEOREM NeverReplayed == Spec => []NoReplay
<1>1. IInv => NoReplay
  BY DEF IInv
<1> QED
  BY <1>1, Invariance, PTL

(* A cancelled batch sends at most one more line.                          *)
THEOREM CancellationStops == Spec => []CancelStops
<1>1. ASSUME IInv PROVE CancelStops
  <2> SUFFICES ASSUME NEW i \in late, NEW j \in late, i[1] = j[1] PROVE i = j
    BY DEF CancelStops
  <2>1. i \in Items /\ j \in Items
    BY <1>1 DEF IInv, TypeOK
  <2>2. PICK a \in Batches : i \in {a} \X (1..Lines[a])
    BY <2>1 DEF Items
  <2>3. PICK b \in Batches : j \in {b} \X (1..Lines[b])
    BY <2>1 DEF Items
  <2>4. i = <<a, i[2]>> /\ j = <<b, j[2]>> /\ i[1] = a /\ j[1] = b
    BY <2>2, <2>3
  <2>5. a = b /\ i[2] \in 1..Lines[a] /\ j[2] \in 1..Lines[a]
    BY <2>2, <2>3, <2>4
  <2>6. <<a, i[2]>> \in late /\ <<a, j[2]>> \in late
    BY <2>4, <2>5
  <2> QED
    BY <1>1, <2>4, <2>5, <2>6 DEF IInv, LateOnce
<1> QED
  BY <1>1, Invariance, PTL

(* A batch that has ended stays as it ended until it is deleted.           *)
THEOREM EndIsFinal == Spec => TerminalFinal
<1>1. IInv /\ [Next]_vars =>
         [\A b \in Batches :
             status[b] \in Terminal => status'[b] \in {status[b], "deleted"}]_vars
  <2> SUFFICES ASSUME IInv, Next, NEW a \in Batches, status[a] \in Terminal
               PROVE  status'[a] \in {status[a], "deleted"}
    BY DEF vars
  <2>0. status \in [Batches -> Statuses]
    BY DEF IInv, TypeOK
  <2>1. ASSUME NEW b \in Batches, NEW s, status' = [status EXCEPT ![b] = s],
               status[b] \notin Terminal \/ s = status[b]
        PROVE  status'[a] = status[a]
    BY <2>0, <2>1
  <2>2. ASSUME NEW b \in Batches, NEW m, NEW j, NEW l, Advance(b, m, j, l), job[b] # NoJob
        PROVE  status'[a] = status[a]
    <3>1. status[b] \in {"in_progress"} \cup Stopping
      BY <2>2 DEF IInv, JobsAreStarted, Stopping
    <3>2. CASE Cancelled(b) /\ Halt(b, m)
      <4>1. status' = [status EXCEPT ![b] =
                         IF status[b] = "cancelling" THEN "cancelled" ELSE status[b]]
        BY <3>2 DEF Halt
      <4> QED
        BY <4>1, <2>1 DEF Terminal
    <3>3. CASE ~Cancelled(b)
      <4>1. status[b] \notin Terminal
        BY <3>1, <3>3 DEF Cancelled, Terminal, Stopping
      <4>2. \/ status' = status \/ status' = [status EXCEPT ![b] = "completed"]
            \/ status' = [status EXCEPT ![b] = "finalizing"]
        BY <2>2, <3>3 DEF Advance, Send, Complete, DieFinalizing
      <4> QED
        BY <4>1, <4>2, <2>1
    <3> QED
      BY <2>2, <3>2, <3>3 DEF Advance
  <2>3. ASSUME NEW b \in Batches, Create(b) \/ Cancel(b) \/ DeleteInput(b)
        PROVE  status'[a] = status[a]
    BY <2>0, <2>3 DEF Create, Cancel, DeleteInput, Terminal, Pending
  <2>4. ASSUME NEW D, Deleted(D) PROVE status'[a] \in {status[a], "deleted"}
    BY <2>4 DEF Deleted
  <2>5. ASSUME NEW b \in Batches, Begin(b) PROVE status'[a] = status[a]
    <3>1. job[b] # NoJob
      BY <2>5 DEF Begin, NoJob
    <3> QED
      BY <2>2, <2>5, <3>1 DEF Begin
  <2>6. ASSUME NEW b \in Batches, NEW v, Result(b, v) PROVE status'[a] = status[a]
    <3>1. job[b] # NoJob
      BY <2>6 DEF Result, NoJob
    <3> QED
      BY <2>2, <2>6, <3>1 DEF Result
  <2>7. ASSUME NEW b \in Batches, Wake(b) PROVE status'[a] = status[a]
    <3>1. CASE status' = status
      BY <3>1
    <3>2. CASE status[b] = "deleted" /\ Halt(b, mark[b])
      <4>1. status' = [status EXCEPT ![b] =
                         IF status[b] = "cancelling" THEN "cancelled" ELSE status[b]]
        BY <3>2 DEF Halt
      <4> QED
        BY <4>1, <3>2, <2>1 DEF Terminal
    <3> QED
      BY <2>7, <3>1, <3>2 DEF Wake, Send
  <2>8. ASSUME NEW b \in Batches, Refuse(b) \/ Retry(b) PROVE status'[a] = status[a]
    BY <2>8 DEF Refuse, Retry, database
  <2>9. CASE Poll
    <3>1. PICK S \in SUBSET Ready(Stale), X \in SUBSET Ready(Stale) :
            Polled(Stale, S, Cancelling, X)
      BY <2>9 DEF Poll
    <3> QED
      BY <3>1, PolledFacts DEF PolledBatch
  <2>10. CASE CrashPolling
    <3>1. PICK R \in SUBSET Stale, S \in SUBSET Ready(Stale), C \in SUBSET Cancelling :
            (R = Stale \/ (S = {} /\ C = {})) /\ Polled(R, S, C, {})
      BY <2>10 DEF CrashPolling
    <3>2. S \in SUBSET Ready(R)
      BY <3>1
    <3> QED
      BY <3>1, <3>2, PolledFacts DEF PolledBatch
  <2>11. CASE Crash
    BY <2>11 DEF Crash, database
  <2> QED
    BY <2>3, <2>4, <2>5, <2>6, <2>7, <2>8, <2>9, <2>10, <2>11
       DEF Next, Delete, DeleteCompleted, Answer, NoAnswer
<1>2. Spec => []IInv /\ [][Next]_vars
  BY Invariance, PTL DEF Spec
<1> QED
  BY <1>1, <1>2, PTL DEF TerminalFinal

-----------------------------------------------------------------------------
(***************************************************************************)
(* The files.  A job has collected the lines it has passed, each with its  *)
(* recorded outcome; what it has collected at the end goes into the files. *)
(***************************************************************************)
Collected(m, j, l) ==
    /\ \A i \in 1..(l - 1) : m[i] \in {"ok", "bad", "errored"}
    /\ j.good = {i \in 1..(l - 1) : m[i] = "ok"}
    /\ j.failed = {i \in 1..(l - 1) : m[i] # "ok"}

Full(b, m, f) ==
    /\ f.output = {l \in 1..Lines[b] : m[l] = "ok"}
    /\ f.error = (1..Lines[b]) \ f.output
    /\ \A l \in 1..Lines[b] : Settled(m[l]) /\ m[l] # "processing"

(* Of a batch in state s with marks m, job j and files f.                  *)
Told(b, s, m, j, f) ==
    /\ s # "deleted" /\ j.phase = "starting" => Collected(m, j, 1)
    /\ s # "deleted" /\ j.phase \in {"throttled", "sent", "backoff"} => Collected(m, j, j.line)
    /\ s = "completed" => Full(b, m, f)

AllTold == \A b \in Batches : Told(b, status[b], mark[b], job[b], files[b])

(* Passing over settled lines collects them.                               *)
LEMMA CollectedOn ==
    ASSUME NEW b \in Batches, NEW m \in [1..Lines[b] -> Marks], NEW j, Collects(b, j),
           NEW l \in 1..(Lines[b] + 1), NEW k \in l..(Lines[b] + 1), Reach(b, m, l, k),
           Collected(m, j, l)
    PROVE  Collected(MarksUpTo(b, m, l, k), JobUpTo(b, m, j, l, k), k)
<1> DEFINE n == MarksUpTo(b, m, l, k)
           i == JobUpTo(b, m, j, l, k)
           g == {x \in l..(k - 1) : m[x] = "ok"}
           f == {x \in l..(k - 1) : m[x] \in {"bad", "errored", "processing"}}
<1>1. /\ Lines[b] \in Nat /\ l \in Nat /\ k \in Nat /\ 1 <= l /\ l <= k /\ k <= Lines[b] + 1
      /\ \A x \in 1..(k - 1) : x \in 1..Lines[b] /\ (x \in 1..(l - 1) \/ x \in l..(k - 1))
      /\ \A x \in 1..(l - 1) : x \in 1..(k - 1) /\ x \notin l..(k - 1)
      /\ \A x \in l..(k - 1) : x \in 1..(k - 1)
  OBVIOUS
<1>2. i.good = j.good \cup g /\ i.failed = j.failed \cup f
  BY DEF JobUpTo, Collects, JobType
<1>3. ASSUME NEW x \in 1..(l - 1) PROVE n[x] = m[x] /\ m[x] \in {"ok", "bad", "errored"}
  BY <1>1 DEF MarksUpTo, Collected
<1>4. ASSUME NEW x \in l..(k - 1)
      PROVE  /\ m[x] \in {"processing", "ok", "bad", "errored"}
             /\ n[x] = IF m[x] = "processing" THEN "errored" ELSE m[x]
  BY <1>1 DEF MarksUpTo, Reach, Settled
<1> HIDE DEF n, i
<1>5. \A x \in 1..(k - 1) : n[x] \in {"ok", "bad", "errored"}
  BY <1>1, <1>3, <1>4
<1>6. i.good = {x \in 1..(k - 1) : n[x] = "ok"}
  BY <1>1, <1>2, <1>3, <1>4 DEF Collected
<1>7. i.failed = {x \in 1..(k - 1) : n[x] # "ok"}
  BY <1>1, <1>2, <1>3, <1>4 DEF Collected
<1> QED
  BY <1>5, <1>6, <1>7 DEF Collected, n, i

(* A step that changes one batch.                                          *)
LEMMA OneTold ==
    ASSUME IInv, AllTold, NEW b \in Batches, NEW s, NEW m, NEW i, NEW f, Told(b, s, m, i, f),
           status' = [status EXCEPT ![b] = s],
           mark' = [mark EXCEPT ![b] = m] \/ (mark' = mark /\ m = mark[b]),
           job' = [job EXCEPT ![b] = i], files' = [files EXCEPT ![b] = f]
    PROVE  AllTold'
<1>1. DOMAIN status = Batches /\ DOMAIN mark = Batches /\ DOMAIN job = Batches /\ DOMAIN files = Batches
  BY DEF IInv, TypeOK
<1> SUFFICES ASSUME NEW a \in Batches PROVE Told(a, status'[a], mark'[a], job'[a], files'[a])
  BY DEF AllTold, Told, Full, Collected, Settled
<1>2. CASE a = b
  <2>1. status'[a] = s /\ mark'[a] = m /\ job'[a] = i /\ files'[a] = f
    BY <1>1, <1>2
  <2> QED
    BY <2>1, <1>2
<1>3. CASE a # b
  <2>1. status'[a] = status[a] /\ mark'[a] = mark[a] /\ job'[a] = job[a] /\ files'[a] = files[a]
    BY <1>1, <1>3
  <2> QED
    BY <2>1 DEF AllTold
<1> QED
  BY <1>2, <1>3

(* A step after which no job is left, and no other batch is completed.     *)
LEMMA LostTold ==
    ASSUME AllTold, Lost, files' = files,
           \A a \in Batches : status'[a] = "completed" => status[a] = "completed" /\ mark'[a] = mark[a]
    PROVE  AllTold'
<1> SUFFICES ASSUME NEW a \in Batches PROVE Told(a, status'[a], mark'[a], job'[a], files'[a])
  BY DEF AllTold, Told, Full, Collected, Settled
<1>1. job'[a].phase = "none"
  BY DEF Lost, NoJob
<1>2. status'[a] = "completed" => Full(a, mark'[a], files'[a])
  BY DEF AllTold, Told
<1> QED
  BY <1>1, <1>2 DEF Told

(* A job that ends because its batch was cancelled.                        *)
LEMMA HaltTold ==
    ASSUME IInv, AllTold, NEW b \in Batches, NEW m, Cancelled(b), Halt(b, m)
    PROVE  AllTold'
<1> DEFINE s == IF status[b] = "cancelling" THEN "cancelled" ELSE status[b]
<1>1. /\ status' = [status EXCEPT ![b] = s]
      /\ mark' = [mark EXCEPT ![b] = m] /\ job' = [job EXCEPT ![b] = NoJob]
      /\ files' = [files EXCEPT ![b] = files[b]]
  BY DEF Halt, IInv, TypeOK
<1>2. s # "completed" /\ NoJob.phase = "none"
  BY DEF Cancelled, NoJob
<1> HIDE DEF s
<1>3. Told(b, s, m, NoJob, files[b])
  BY <1>2 DEF Told
<1> QED
  BY <1>1, <1>3, OneTold

(* Sending a line leaves those before it.                                  *)
LEMMA SendTold ==
    ASSUME IInv, AllTold, NEW b \in Batches, NEW m, NEW j, Fits(b, m), Collects(b, j),
           j.line \in 1..Lines[b], Send(b, m, j), status[b] # "completed",
           status[b] # "deleted" => Collected(m, j, j.line)
    PROVE  AllTold'
<1> DEFINE n == [m EXCEPT ![j.line] = "processing"]
           i == [j EXCEPT !.phase = "sent", !.tries = 1]
<1>1. /\ status' = [status EXCEPT ![b] = status[b]]
      /\ mark' = [mark EXCEPT ![b] = n] /\ job' = [job EXCEPT ![b] = i]
      /\ files' = [files EXCEPT ![b] = files[b]]
  BY DEF Send, IInv, TypeOK
<1>2. i.phase = "sent" /\ i.line = j.line /\ i.good = j.good /\ i.failed = j.failed
  BY DEF Collects, JobType
<1>3. \A x \in 1..(j.line - 1) : n[x] = m[x]
  BY DEF Fits
<1> HIDE DEF n, i
<1>4. status[b] # "deleted" => Collected(n, i, i.line)
  BY <1>2, <1>3 DEF Collected
<1>5. Told(b, status[b], n, i, files[b])
  BY <1>2, <1>4 DEF Told
<1> QED
  BY <1>1, <1>5, OneTold

(* The loop up to its next await.                                          *)
LEMMA AdvanceTold ==
    ASSUME IInv, AllTold, NEW b \in Batches, NEW m, NEW j, NEW l \in 1..(Lines[b] + 1),
           Fits(b, m), Collects(b, j), job[b] # NoJob, Advance(b, m, j, l),
           status[b] # "deleted" => Collected(m, j, l)
    PROVE  AllTold'
<1>1. CASE Cancelled(b) /\ Halt(b, m)
  BY <1>1, HaltTold
<1>2. CASE ~Cancelled(b)
  <2>1. PICK k \in l..(Lines[b] + 1) :
          LET n == MarksUpTo(b, m, l, k)
              i == JobUpTo(b, m, j, l, k)
          IN  /\ Reach(b, m, l, k)
              /\ \/ k <= Lines[b] /\ Send(b, n, i)
                 \/ /\ k <= Lines[b]
                    /\ mark' = [mark EXCEPT ![b] = n]
                    /\ job' = [job EXCEPT ![b] = [i EXCEPT !.phase = "throttled"]]
                    /\ UNCHANGED <<status, files, history>>
                 \/ k > Lines[b] /\ (Complete(b, n, i) \/ DieFinalizing(b, n))
    BY <1>2 DEF Advance
  <2> DEFINE n == MarksUpTo(b, m, l, k)
             i == JobUpTo(b, m, j, l, k)
  <2>2. status[b] = "in_progress"
    BY <1>2 DEF IInv, JobsAreStarted, Cancelled
  <2>3. /\ Fits(b, n) /\ Collects(b, i) /\ i.line = k /\ k \in Nat
        /\ k <= Lines[b] => k \in 1..Lines[b]
    BY MarksUpToFit, JobUpToCollects
  <2>4. Collected(n, i, k)
    BY <2>1, <2>2, CollectedOn DEF Fits
  <2>5. \/ k <= Lines[b] /\ Send(b, n, i)
        \/ /\ k <= Lines[b]
           /\ mark' = [mark EXCEPT ![b] = n]
           /\ job' = [job EXCEPT ![b] = [i EXCEPT !.phase = "throttled"]]
           /\ UNCHANGED <<status, files, history>>
        \/ k > Lines[b] /\ (Complete(b, n, i) \/ DieFinalizing(b, n))
    BY <2>1
  <2> HIDE DEF n, i
  <2>6. CASE k <= Lines[b] /\ Send(b, n, i)
    BY <2>6, <2>2, <2>3, <2>4, SendTold
  <2>7. CASE /\ mark' = [mark EXCEPT ![b] = n]
             /\ job' = [job EXCEPT ![b] = [i EXCEPT !.phase = "throttled"]]
             /\ UNCHANGED <<status, files, history>>
    <3> DEFINE w == [i EXCEPT !.phase = "throttled"]
    <3>1. w.phase = "throttled" /\ w.line = k /\ w.good = i.good /\ w.failed = i.failed
      BY <2>3 DEF Collects, JobType
    <3>2. /\ status' = [status EXCEPT ![b] = status[b]] /\ mark' = [mark EXCEPT ![b] = n]
          /\ job' = [job EXCEPT ![b] = w] /\ files' = [files EXCEPT ![b] = files[b]]
      BY <2>7 DEF IInv, TypeOK
    <3> HIDE DEF w
    <3>3. Told(b, status[b], n, w, files[b])
      BY <2>2, <2>4, <3>1 DEF Told, Collected
    <3> QED
      BY <3>2, <3>3, OneTold
  <2>8. CASE k > Lines[b] /\ Complete(b, n, i)
    <3> DEFINE f == [output |-> i.good, error |-> i.failed]
    <3>1. /\ status' = [status EXCEPT ![b] = "completed"] /\ mark' = [mark EXCEPT ![b] = n]
          /\ job' = [job EXCEPT ![b] = NoJob] /\ files' = [files EXCEPT ![b] = f]
      BY <2>8 DEF Complete
    <3>2. k = Lines[b] + 1 /\ 1..(k - 1) = 1..Lines[b]
      BY <2>8, <2>3
    <3>3. f.output = i.good /\ f.error = i.failed /\ NoJob.phase = "none"
      BY DEF NoJob
    <3> HIDE DEF f
    <3>4. Full(b, n, f)
      BY <2>4, <3>2, <3>3 DEF Full, Collected, Settled
    <3>5. Told(b, "completed", n, NoJob, f)
      BY <3>3, <3>4 DEF Told
    <3> QED
      BY <3>1, <3>5, OneTold
  <2>9. CASE DieFinalizing(b, n)
    <3>1. /\ Lost /\ files' = files
          /\ status' = [status EXCEPT ![b] = "finalizing"] /\ mark' = [mark EXCEPT ![b] = n]
      BY <2>9 DEF DieFinalizing
    <3>2. \A a \in Batches : status'[a] = "completed" => status[a] = "completed" /\ mark'[a] = mark[a]
      BY <3>1 DEF IInv, TypeOK
    <3> QED
      BY <3>1, <3>2, LostTold
  <2> QED
    BY <2>5, <2>6, <2>7, <2>8, <2>9
<1> QED
  BY <1>1, <1>2 DEF Advance

(* A result that is recorded goes with those collected.                    *)
LEMMA ResultTold ==
    ASSUME IInv, AllTold, NEW b \in Batches, NEW v \in {"ok", "bad", "errored"}, Result(b, v)
    PROVE  AllTold'
<1> DEFINE x == job[b].line
           m == Noted(b, v)
           j == IF v = "ok" THEN [job[b] EXCEPT !.good = @ \cup {x}]
                ELSE [job[b] EXCEPT !.failed = @ \cup {x}]
<1>1. job[b].phase = "sent" /\ Advance(b, m, j, x + 1)
  BY DEF Result
<1>2. /\ Collects(b, job[b]) /\ Fits(b, mark[b]) /\ job[b] # NoJob
      /\ x \in 1..Lines[b]
  BY <1>1, JobFacts
<1>3. x + 1 \in 1..(Lines[b] + 1) /\ x \in Nat /\ (x + 1) - 1 = x
  BY <1>2
<1>4. Fits(b, m)
  BY <1>2 DEF Fits, Noted, Marks
<1>5. /\ Collects(b, j)
      /\ v = "ok" => j.good = job[b].good \cup {x} /\ j.failed = job[b].failed
      /\ v # "ok" => j.failed = job[b].failed \cup {x} /\ j.good = job[b].good
  <2>1. x \in Nat /\ 1..Lines[b] \subseteq Nat
    BY <1>2
  <2>2. job[b].good \cup {x} \in SUBSET Nat /\ job[b].failed \cup {x} \in SUBSET Nat
    BY <1>2, <2>1 DEF Collects, JobType
  <2> HIDE DEF x
  <2>3. /\ j \in JobType /\ j.tries = job[b].tries
        /\ j.good \cup j.failed \subseteq (job[b].good \cup job[b].failed) \cup {x}
        /\ v = "ok" => j.good = job[b].good \cup {x} /\ j.failed = job[b].failed
        /\ v # "ok" => j.failed = job[b].failed \cup {x} /\ j.good = job[b].good
    BY <1>2, <2>2 DEF Collects, JobType
  <2> HIDE DEF j
  <2>4. j.good \cup j.failed \subseteq 1..Lines[b] /\ j.tries <= MaxTries
    <3>1. job[b].good \cup job[b].failed \subseteq 1..Lines[b] /\ job[b].tries <= MaxTries
      BY <1>2 DEF Collects
    <3>2. x \in 1..Lines[b]
      BY <1>2
    <3>3. /\ j.good \cup j.failed \subseteq (job[b].good \cup job[b].failed) \cup {x}
          /\ j.tries = job[b].tries
      BY <2>3
    <3> QED
      BY <3>1, <3>2, <3>3, Zenon
  <2>5. Collects(b, j)
    BY <2>3, <2>4 DEF Collects
  <2>6. /\ v = "ok" => j.good = job[b].good \cup {x} /\ j.failed = job[b].failed
        /\ v # "ok" => j.failed = job[b].failed \cup {x} /\ j.good = job[b].good
    BY <2>3
  <2> QED
    BY <2>5, <2>6
<1>6. ASSUME status[b] # "deleted" PROVE Collected(m, j, x + 1)
  <2>1. Collected(mark[b], job[b], x) /\ mark[b][x] # "none"
    BY <1>1, <1>2, <1>6 DEF AllTold, Told, IInv, JobsAreStarted
  <2>2. m[x] = v /\ \A y \in 1..(x - 1) : m[y] = mark[b][y]
    BY <2>1, <1>2 DEF Noted, Fits
  <2>3. /\ \A y \in 1..x : y = x \/ y \in 1..(x - 1)
        /\ \A y \in 1..(x - 1) : y \in 1..x /\ y # x
        /\ x \in 1..x
    BY <1>2
  <2> HIDE DEF m, j, x
  <2>4. \A y \in 1..x : m[y] \in {"ok", "bad", "errored"}
    BY <2>1, <2>2, <2>3 DEF Collected
  <2>5. j.good = {y \in 1..x : m[y] = "ok"}
    BY <1>5, <2>1, <2>2, <2>3 DEF Collected
  <2>6. j.failed = {y \in 1..x : m[y] # "ok"}
    BY <1>5, <2>1, <2>2, <2>3 DEF Collected
  <2> QED
    BY <1>3, <2>4, <2>5, <2>6 DEF Collected
<1> HIDE DEF m, j, x
<1> QED
  BY <1>1, <1>2, <1>3, <1>4, <1>5, <1>6, AdvanceTold

(* The other steps of a job.                                               *)
LEMMA JobTold ==
    ASSUME IInv, AllTold, NEW b \in Batches, Begin(b) \/ Wake(b) \/ Refuse(b) \/ Retry(b)
    PROVE  AllTold'
<1>1. Told(b, status[b], mark[b], job[b], files[b])
  BY DEF AllTold
<1>2. /\ Collects(b, job[b]) /\ Fits(b, mark[b])
      /\ job[b].phase # "none" => job[b] # NoJob
      /\ job[b].phase \in {"throttled", "sent", "backoff"} => job[b].line \in 1..Lines[b]
  BY JobFacts
<1>3. CASE Begin(b)
  <2>1. job[b].phase = "starting" /\ Advance(b, mark[b], job[b], 1) /\ 1 \in 1..(Lines[b] + 1)
    BY <1>3 DEF Begin
  <2>2. status[b] # "deleted" => Collected(mark[b], job[b], 1)
    BY <1>1, <2>1 DEF Told
  <2> QED
    BY <1>2, <2>1, <2>2, AdvanceTold
<1>4. CASE Wake(b)
  <2>1. /\ job[b].phase = "throttled"
        /\ Send(b, mark[b], job[b]) \/ (Cancelled(b) /\ Halt(b, mark[b]))
    BY <1>4 DEF Wake, Cancelled
  <2>2. status[b] # "deleted" => Collected(mark[b], job[b], job[b].line)
    BY <1>1, <2>1 DEF Told
  <2>3. status[b] # "completed"
    BY <1>2, <2>1 DEF IInv, JobsAreStarted
  <2> QED
    BY <1>2, <2>1, <2>2, <2>3, SendTold, HaltTold
<1>5. CASE Refuse(b) \/ Retry(b)
  <2> DEFINE i == job'[b]
  <2>1. /\ job[b].phase \in {"sent", "backoff"} /\ i.phase \in {"sent", "backoff"}
        /\ i.line = job[b].line /\ i.good = job[b].good /\ i.failed = job[b].failed
        /\ job' = [job EXCEPT ![b] = i]
    BY <1>2, <1>5 DEF Refuse, Retry, IInv, TypeOK, Collects, JobType
  <2>2. /\ status' = [status EXCEPT ![b] = status[b]] /\ mark' = mark
        /\ files' = [files EXCEPT ![b] = files[b]]
    BY <1>5 DEF Refuse, Retry, database, IInv, TypeOK
  <2> HIDE DEF i
  <2>3. Told(b, status[b], mark[b], i, files[b])
    BY <1>1, <2>1 DEF Told, Collected
  <2> QED
    BY <2>1, <2>2, <2>3, OneTold
<1> QED
  BY <1>3, <1>4, <1>5

(* The API and the crash outside a call.                                   *)
LEMMA RequestTold ==
    ASSUME IInv, AllTold, NEW b \in Batches, Create(b) \/ Cancel(b) \/ DeleteInput(b)
    PROVE  AllTold'
<1>1. PICK s :
        /\ status' = [status EXCEPT ![b] = s]
        /\ s = status[b] \/ (s \in {"validating", "cancelling"} /\ status[b] # "deleted")
  <2>1. CASE Create(b)
    BY <2>1 DEF Create
  <2>2. CASE Cancel(b)
    BY <2>2 DEF Cancel, Pending
  <2>3. CASE DeleteInput(b)
    <3>1. status' = [status EXCEPT ![b] = status[b]]
      BY <2>3 DEF DeleteInput, IInv, TypeOK
    <3> QED
      BY <3>1
  <2> QED
    BY <2>1, <2>2, <2>3
<1>2. /\ mark' = mark /\ job' = [job EXCEPT ![b] = job[b]]
      /\ files' = [files EXCEPT ![b] = files[b]]
  BY DEF Create, Cancel, DeleteInput, IInv, TypeOK
<1>3. Told(b, status[b], mark[b], job[b], files[b])
  BY DEF AllTold
<1>4. Told(b, s, mark[b], job[b], files[b])
  BY <1>1, <1>3 DEF Told
<1> QED
  BY <1>1, <1>2, <1>4, OneTold

(* Deleted batches have no files, the others keep theirs.                  *)
LEMMA DeletedTold ==
    ASSUME AllTold, NEW D, Deleted(D)
    PROVE  AllTold'
<1> SUFFICES ASSUME NEW a \in Batches PROVE Told(a, status'[a], mark'[a], job'[a], files'[a])
  BY DEF AllTold, Told, Full, Collected, Settled
<1>1. CASE a \in D
  <2>1. status'[a] = "deleted"
    BY <1>1 DEF Deleted
  <2> QED
    BY <2>1 DEF Told
<1>2. CASE a \notin D
  <2>1. status'[a] = status[a] /\ mark'[a] = mark[a] /\ job'[a] = job[a] /\ files'[a] = files[a]
    BY <1>2 DEF Deleted
  <2> QED
    BY <2>1 DEF AllTold
<1> QED
  BY <1>1, <1>2

(* A poll completes and deletes no batch, and starts with nothing told.    *)
LEMMA PolledLeaves ==
    ASSUME NEW R \in SUBSET Stale, NEW S \in SUBSET Ready(R), NEW C \in SUBSET Cancelling,
           NEW X \in SUBSET Ready(R), Polled(R, S, C, X), NEW a \in Batches
    PROVE  /\ status'[a] = "completed" => status[a] = "completed" /\ mark'[a] = mark[a]
           /\ a \notin Begun(S) => mark'[a] = mark[a]
           /\ status[a] = "deleted" => status'[a] = "deleted"
           /\ a \in Begun(S) => status'[a] = "in_progress"
  BY DEF Polled, Recovered, Ready, Stale, Cancelling, Begun

LEMMA PollTold == ASSUME IInv, AllTold, Poll PROVE AllTold'
<1>1. PICK S \in SUBSET Ready(Stale), X \in SUBSET Ready(Stale) :
        /\ Polled(Stale, S, Cancelling, X)
        /\ job' = [b \in Batches |->
                    IF b \in Begun(S) THEN [NoJob EXCEPT !.phase = "starting"] ELSE job[b]]
        /\ UNCHANGED <<files, input, history>>
  BY DEF Poll
<1> SUFFICES ASSUME NEW a \in Batches PROVE Told(a, status'[a], mark'[a], job'[a], files'[a])
  BY DEF AllTold, Told, Full, Collected, Settled
<1>2. /\ status'[a] = "completed" => status[a] = "completed" /\ mark'[a] = mark[a]
      /\ a \notin Begun(S) => mark'[a] = mark[a]
      /\ status[a] = "deleted" => status'[a] = "deleted"
      /\ a \in Begun(S) => status'[a] = "in_progress"
  BY <1>1, PolledLeaves
<1>3. files'[a] = files[a] /\ Told(a, status[a], mark[a], job[a], files[a])
  BY <1>1 DEF AllTold
<1>4. CASE a \in Begun(S)
  <2>1. job'[a].phase = "starting" /\ job'[a].good = {} /\ job'[a].failed = {}
    BY <1>1, <1>4 DEF NoJob
  <2>2. Collected(mark'[a], job'[a], 1)
    BY <2>1 DEF Collected
  <2> QED
    BY <1>2, <1>4, <2>1, <2>2 DEF Told
<1>5. CASE a \notin Begun(S)
  <2>1. job'[a] = job[a] /\ mark'[a] = mark[a]
    BY <1>1, <1>2, <1>5
  <2> QED
    BY <1>2, <1>3, <2>1 DEF Told
<1> QED
  BY <1>4, <1>5

LEMMA CrashTold == ASSUME IInv, AllTold, Crash \/ CrashPolling PROVE AllTold'
<1>1. Lost /\ files' = files
  BY DEF Crash, CrashPolling, database
<1>2. \A a \in Batches : status'[a] = "completed" => status[a] = "completed" /\ mark'[a] = mark[a]
  <2>1. CASE Crash
    BY <2>1 DEF Crash, database
  <2>2. CASE CrashPolling
    <3>1. PICK R \in SUBSET Stale, S \in SUBSET Ready(Stale), C \in SUBSET Cancelling :
            (R = Stale \/ (S = {} /\ C = {})) /\ Polled(R, S, C, {})
      BY <2>2 DEF CrashPolling
    <3>2. S \in SUBSET Ready(R)
      BY <3>1
    <3> QED
      BY <3>1, <3>2, PolledLeaves
  <2> QED
    BY <2>1, <2>2
<1> QED
  BY <1>1, <1>2, LostTold

LEMMA NextTold == IInv /\ AllTold /\ [Next]_vars => AllTold'
<1> SUFFICES ASSUME IInv, AllTold, [Next]_vars PROVE AllTold'
  OBVIOUS
<1>1. ASSUME NEW b \in Batches, Create(b) \/ Cancel(b) \/ DeleteInput(b) PROVE AllTold'
  BY <1>1, RequestTold
<1>2. ASSUME NEW D, Deleted(D) PROVE AllTold'
  BY <1>2, DeletedTold
<1>3. ASSUME NEW b \in Batches, Begin(b) \/ Wake(b) \/ Refuse(b) \/ Retry(b) PROVE AllTold'
  BY <1>3, JobTold
<1>4. ASSUME NEW b \in Batches, Answer(b) \/ NoAnswer(b) PROVE AllTold'
  BY <1>4, ResultTold DEF Answer, NoAnswer
<1>5. CASE Poll
  BY <1>5, PollTold
<1>6. CASE Crash \/ CrashPolling
  BY <1>6, CrashTold
<1>7. CASE UNCHANGED vars
  BY <1>7 DEF vars, AllTold, Told, Full, Collected, Settled
<1> QED
  BY <1>1, <1>2, <1>3, <1>4, <1>5, <1>6, <1>7 DEF Next, Delete, DeleteCompleted

(* A completed batch has every line of its input in exactly one of its     *)
(* files, by the recorded outcome, however many processes worked on it.    *)
THEOREM FilesAreComplete == Spec => []FilesComplete
<1>1. Init => AllTold
  <2> SUFFICES ASSUME Init, NEW b \in Batches PROVE Told(b, status[b], mark[b], job[b], files[b])
    BY DEF AllTold
  <2>1. job[b].phase = "none" /\ status[b] # "completed"
    BY DEF Init, NoJob
  <2> QED
    BY <2>1 DEF Told
<1>2. AllTold => FilesComplete
  BY DEF AllTold, Told, Full, FilesComplete
<1> QED
  BY <1>1, <1>2, NextTold, Invariance, PTL DEF Spec
=============================================================================
