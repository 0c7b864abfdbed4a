---------------------------- MODULE JobQueueProofs ----------------------------
(***************************************************************************)
(* Theorems about JobQueue, for any number of files, jobs, stages, workers *)
(* and attempts, and any number of crashes and leases outlived.            *)
(*                                                                         *)
(* What a worker holds is its own as long as its lease runs: the row is    *)
(* neither pending nor taken over unless the lease was outlived (HeldRuns),*)
(* so nobody else can claim it, and what a failing worker has read is      *)
(* still so when it writes (WriterSaw).                                    *)
(***************************************************************************)
EXTENDS JobQueue, TLAPS

\* The row of a worker is about its file, or gone; a follow-up row is understood.
RowFits == \A w \in Workers : HeldBy(w) # None =>
              \/ job[HeldBy(w)].state = "none"
              \/ /\ job[HeldBy(w)].file = work[w].file
                 /\ pc[w] = "understand" => job[HeldBy(w)].stage = FollowUp

\* The file a worker is about to mark, and complete, has its text.
MarkHasText == \A w \in Workers : pc[w] \in {"mark", "complete"} => text[work[w].file]

\* A row that is held has a lease that runs, unless it was outlived.
HeldRuns == \A j \in Jobs : Held(j) /\ ~ job[j].late =>
              job[j].state # "pending" /\ (job[j].state = "processing" => job[j].lease = "fresh")

\* What the worker that fails a job has read is still so, unless its lease was outlived.
WriterSaw == \A w \in Workers : pc[w] = "write" /\ ~ job[HeldBy(w)].late =>
                job[HeldBy(w)].state = "processing"

JobInv == /\ TypeOK /\ RowFits /\ MarkHasText /\ HeldRuns /\ SoleWorker /\ WriterSaw
          /\ DoneMeansText

USE StageAssumption, NoneAssumption, BoundAssumption

-----------------------------------------------------------------------------
(* Which actions there are. *)

Repair == \/ RepairDrift \/ DeleteOrphans \/ RequeueStuck
          \/ \E f \in Files : RetryUnsupported(f)
          \/ \E j \in Jobs : GrowOld(j)

LEMMA StepSplit ==
  ASSUME Next
  PROVE  \/ \E w \in Workers : \/ Proceed(w) \/ Stumble(w) \/ Crash(w)
                               \/ \E f \in Files : Announce(w, f) \/ FindMissing(w, f)
                               \/ \E s \in Stages, j \in Jobs : Claim(w, s, j)
         \/ Repair
  BY Zenon DEF Next, Repair

-----------------------------------------------------------------------------
(* Type correctness. *)

RowsOK == /\ job \in [Jobs -> JobRecords]
          /\ \A j \in Jobs : job[j].state # "none" => job[j].file # None /\ job[j].stage # None

\* What a step needs of the record of its worker.
Fits(step, r) == /\ step # "idle" => r.file # None
                 /\ step \notin {"idle", "kickoff", "requeue", "lookup", "pend"} => r.job # None
                 /\ step = "write" => r.next # "none"

WorkersOK == /\ pc \in [Workers -> Steps] /\ work \in [Workers -> WorkRecords]
             /\ \A w \in Workers : Fits(pc[w], work[w])

FilesOK == /\ arriving \subseteq Files /\ status \in [Files -> Statuses]
           /\ text \in [Files -> BOOLEAN]
           /\ slow \in 0 .. MaxSlow /\ fails \in 0 .. MaxFails

LEMMA TypeParts == TypeOK <=> RowsOK /\ WorkersOK /\ FilesOK
  BY Zenon DEF TypeOK, RowsOK, WorkersOK, FilesOK, Fits

LEMMA Moved ==
  ASSUME WorkersOK, NEW w \in Workers, NEW step \in Steps, NEW r \in WorkRecords,
         Fits(step, r), Goto(w, step), work' = [work EXCEPT ![w] = r]
  PROVE  WorkersOK'
  BY DEF WorkersOK, Goto

LEMMA Stayed ==
  ASSUME WorkersOK, NEW w \in Workers, NEW step \in Steps,
         Fits(step, work[w]), Goto(w, step), UNCHANGED work
  PROVE  WorkersOK'
  BY DEF WorkersOK, Goto

LEMMA Retired ==
  ASSUME WorkersOK, NEW w \in Workers, Retire(w)
  PROVE  WorkersOK'
  BY Moved DEF Retire, NoWork, WorkRecords, Steps, Fits

LEMMA Failing ==
  ASSUME WorkersOK, NEW w \in Workers, NEW again \in BOOLEAN, FailJob(w, again),
         pc[w] \in {"load", "extract", "understand"}
  PROVE  WorkersOK'
<1>1. [work[w] EXCEPT !.retry = again] \in WorkRecords
  BY DEF WorkersOK, WorkRecords
<1>2. Fits("fail", [work[w] EXCEPT !.retry = again])
  BY DEF WorkersOK, WorkRecords, Fits
<1>3. work' = [work EXCEPT ![w] = [work[w] EXCEPT !.retry = again]]
  BY DEF FailJob, WorkersOK
<1> QED
  BY <1>1, <1>2, <1>3, Moved DEF FailJob, Steps

\* An enqueued job is on a row that nobody holds; the others are as they were.
LEMMA Enqueued ==
  ASSUME RowsOK, NEW f \in Files, NEW s \in Stages, Enqueue(f, s)
  PROVE  /\ RowsOK'
         /\ \A x \in Jobs : job'[x] = job[x] \/ (x \in Spare /\ job'[x] = NewJob(f, s))
<1>1. CASE UNCHANGED job
  BY <1>1 DEF RowsOK
<1>2. ASSUME NEW j \in Spare, job' = [job EXCEPT ![j] = NewJob(f, s)]
      PROVE  /\ RowsOK'
             /\ \A x \in Jobs : job'[x] = job[x] \/ (x \in Spare /\ job'[x] = NewJob(f, s))
  <2>1. NewJob(f, s) \in JobRecords /\ NewJob(f, s).file = f /\ NewJob(f, s).stage = s
    BY DEF NewJob, JobRecords
  <2> QED
    BY <1>2, <2>1 DEF RowsOK, Spare
<1> QED
  BY <1>1, <1>2 DEF Enqueue

\* What may change of a row without a look at its type.
LEMMA RowSet ==
  ASSUME NEW row \in JobRecords, NEW a \in 0 .. MaxAttempts,
         NEW s \in {"none", "pending", "processing", "succeeded", "failed"},
         NEW l \in {"none", "fresh", "old"}, NEW b \in BOOLEAN
  PROVE  /\ [row EXCEPT !.state = s, !.lease = l] \in JobRecords
         /\ [row EXCEPT !.lease = l, !.late = b] \in JobRecords
         /\ [row EXCEPT !.state = s, !.lease = l, !.attempts = a] \in JobRecords
         /\ NoJob(b) \in JobRecords
<1>1. /\ [row EXCEPT !.state = s, !.lease = l] \in JobRecords
      /\ [row EXCEPT !.lease = l, !.late = b] \in JobRecords
      /\ [row EXCEPT !.state = s, !.lease = l, !.attempts = a] \in JobRecords
  BY DEF JobRecords
<1>2. NoJob(b) \in JobRecords
  BY DEF NoJob, JobRecords
<1> QED
  BY <1>1, <1>2

\* Rows that change otherwise keep their file and stage, or are emptied.
LEMMA RowsChanged ==
  ASSUME RowsOK, job' \in [Jobs -> JobRecords],
         \A j \in Jobs : job'[j].state = "none"
            \/ (job[j].state # "none" /\ job'[j].file = job[j].file /\ job'[j].stage = job[j].stage)
  PROVE  RowsOK'
  BY DEF RowsOK

LEMMA RowUpdated ==
  ASSUME RowsOK, NEW j \in Jobs, NEW row \in JobRecords, job' = [job EXCEPT ![j] = row],
         job[j].state # "none", row.file = job[j].file, row.stage = job[j].stage
  PROVE  RowsOK'
  BY DEF RowsOK

LEMMA TypeInit == Init => TypeOK
<1> SUFFICES ASSUME Init PROVE RowsOK /\ WorkersOK /\ FilesOK
  BY TypeParts
<1>1. RowsOK
  BY DEF Init, RowsOK, JobRecords, NoJob
<1>2. WorkersOK
  BY DEF Init, WorkersOK, WorkRecords, NoWork, Steps, Fits
<1>3. FilesOK
  BY DEF Init, FilesOK, Statuses
<1> QED
  BY <1>1, <1>2, <1>3

LEMMA RowsNext ==
  ASSUME TypeOK, [Next]_vars
  PROVE  RowsOK'
<1> USE DEF files
<1>0. RowsOK /\ WorkersOK /\ FilesOK
  BY TypeParts
<1>1. CASE UNCHANGED job
  BY <1>0, <1>1 DEF RowsOK
<1>2. ASSUME NEW w \in Workers, Kickoff(w) \/ Requeue(w) \/ Follow(w)
      PROVE  RowsOK'
  <2>1. work[w].file \in Files
    BY <1>0, <1>2 DEF WorkersOK, WorkRecords, Fits, Kickoff, Requeue, Follow
  <2>2. FirstStage[work[w].file] \in Stages /\ FollowUp \in Stages
    BY <2>1
  <2> QED
    BY <1>0, <1>2, <2>1, <2>2, Enqueued DEF Kickoff, Requeue, Follow
<1>3. ASSUME NEW w \in Workers, Complete(w) \/ FailWrite(w)
      PROVE  RowsOK'
  <2> DEFINE j == HeldBy(w)
  <2>1. j \in Jobs
    BY <1>0, <1>3 DEF WorkersOK, WorkRecords, Fits, Complete, FailWrite, HeldBy
  <2>2. PICK s \in {"pending", "failed", "succeeded"} :
          \/ UNCHANGED job
          \/ job[j].state # "none" /\ job' = [job EXCEPT ![j].state = s, ![j].lease = "none"]
    BY <1>0, <1>3 DEF WorkersOK, WorkRecords, Fits, Complete, FailWrite, HeldBy, Writable
  <2>3. CASE job[j].state # "none" /\ job' = [job EXCEPT ![j].state = s, ![j].lease = "none"]
    <3>1. [job[j] EXCEPT !.state = s, !.lease = "none"] \in JobRecords
      <4>1. job[j] \in JobRecords
        BY <1>0, <2>1 DEF RowsOK
      <4> HIDE DEF j
      <4> QED
        BY <4>1 DEF JobRecords
    <3>2. job' = [job EXCEPT ![j] = [job[j] EXCEPT !.state = s, !.lease = "none"]]
      BY <1>0, <2>1, <2>3 DEF RowsOK
    <3> QED
      BY <1>0, <2>1, <2>3, <3>1, <3>2, RowUpdated DEF RowsOK, JobRecords
  <2> QED
    BY <1>1, <2>2, <2>3
<1>4. ASSUME NEW w \in Workers, NEW s \in Stages, NEW j \in Jobs, Claim(w, s, j)
      PROVE  RowsOK'
  <2> DEFINE n == IF job[j].attempts < MaxAttempts THEN job[j].attempts + 1 ELSE job[j].attempts
             row == [job[j] EXCEPT !.state = "processing", !.lease = "fresh", !.attempts = n]
  <2>1. job[j] \in JobRecords /\ job[j].attempts \in 0 .. MaxAttempts
    BY <1>0 DEF RowsOK, JobRecords
  <2>2. n \in 0 .. MaxAttempts
    BY <2>1
  <2>3. row \in JobRecords /\ row.file = job[j].file /\ row.stage = job[j].stage
    <3> HIDE DEF n
    <3>1. row \in JobRecords
      BY <2>1, <2>2, RowSet
    <3> QED
      BY <2>1, <3>1 DEF JobRecords
  <2>4. job' = [job EXCEPT ![j] = row]
    BY <1>0, <1>4 DEF Claim, RowsOK
  <2>5. job[j].state # "none"
    BY <1>4 DEF Claim, Claimable
  <2> QED
    BY <1>0, <2>3, <2>4, <2>5, RowUpdated
<1>5. CASE DeleteOrphans
  <2>1. ASSUME NEW j \in Jobs
        PROVE  NoJob(job[j].late) \in JobRecords /\ NoJob(job[j].late).state = "none"
    <3>1. job[j].late \in BOOLEAN
      BY <1>0 DEF RowsOK, JobRecords
    <3> QED
      BY <3>1 DEF NoJob, JobRecords
  <2> QED
    BY <1>0, <1>5, <2>1, RowsChanged DEF DeleteOrphans, RowsOK
<1>6. CASE RequeueStuck
  <2> DEFINE row(j) == [job[j] EXCEPT !.state = "pending", !.lease = "none"]
  <2>1. ASSUME NEW j \in Jobs
        PROVE  job[j] \in JobRecords /\ row(j) \in JobRecords
    <3>1. job[j] \in JobRecords
      BY <1>0 DEF RowsOK
    <3> QED
      BY <3>1 DEF JobRecords
  <2>2. \A j \in Jobs : row(j).file = job[j].file /\ row(j).stage = job[j].stage
    BY <2>1 DEF JobRecords
  <2>3. /\ job' \in [Jobs -> JobRecords]
        /\ \A j \in Jobs : job'[j] = job[j] \/ (job[j].state = "processing" /\ job'[j] = row(j))
    BY <1>0, <1>6, <2>1 DEF RequeueStuck, RowsOK
  <2> HIDE DEF row
  <2> QED
    BY <1>0, <2>2, <2>3 DEF RowsOK, JobRecords
<1>7. ASSUME NEW f \in Files, RetryUnsupported(f)
      PROVE  RowsOK'
  <2>1. "text" \in Stages
    BY <1>7 DEF RetryUnsupported
  <2> QED
    BY <1>0, <1>7, <2>1, Enqueued DEF RetryUnsupported
<1>8. ASSUME NEW j \in Jobs, GrowOld(j)
      PROVE  RowsOK'
  <2> DEFINE row == [job[j] EXCEPT !.lease = "old", !.late = job[j].late \/ Held(j)]
  <2>1. job[j] \in JobRecords /\ (job[j].late \/ Held(j)) \in BOOLEAN
    BY <1>0 DEF RowsOK, Held
  <2>2. row \in JobRecords
    BY <2>1 DEF JobRecords
  <2>3. row.file = job[j].file /\ row.stage = job[j].stage
    BY <2>1 DEF JobRecords
  <2>4. job' = [job EXCEPT ![j] = row] /\ job[j].state # "none"
    BY <1>0, <1>8 DEF GrowOld, RowsOK
  <2> HIDE DEF row
  <2> QED
    BY <1>0, <2>2, <2>3, <2>4, RowUpdated
<1>9. ASSUME NEW w \in Workers, Proceed(w)
      PROVE  RowsOK'
  BY <1>9, <1>1, <1>2, <1>3
     DEF Proceed, Lookup, MarkPending, MarkProcessing, Persist, MarkAnalyzed, FailRead, GiveUp
<1>10. ASSUME NEW w \in Workers, NEW f \in Files,
              Stumble(w) \/ Crash(w) \/ Announce(w, f) \/ FindMissing(w, f)
       PROVE  RowsOK'
  BY <1>10, <1>1 DEF Stumble, Crash, Announce, FindMissing
<1>11. ASSUME NEW w \in Workers, Stumble(w) \/ Crash(w)
       PROVE  RowsOK'
  BY <1>11, <1>1 DEF Stumble, Crash
<1>12. CASE RepairDrift \/ UNCHANGED vars
  BY <1>12, <1>1 DEF RepairDrift, vars
<1> QED
  BY <1>4, <1>5, <1>6, <1>7, <1>8, <1>9, <1>10, <1>11, <1>12, StepSplit DEF Repair

LEMMA WorkersNext ==
  ASSUME TypeOK, [Next]_vars
  PROVE  WorkersOK'
<1>0. RowsOK /\ WorkersOK /\ FilesOK
  BY TypeParts
<1>1. CASE UNCHANGED <<pc, work>>
  BY <1>0, <1>1 DEF WorkersOK, Fits
<1>2. ASSUME NEW w \in Workers, Proceed(w)
      PROVE  WorkersOK'
  <2>1. CASE Kickoff(w) \/ MarkPending(w) \/ Follow(w) \/ FailWrite(w)
    BY <1>0, <2>1, Retired DEF Kickoff, MarkPending, Follow, FailWrite
  <2>2. CASE Requeue(w) \/ MarkProcessing(w) \/ Persist(w) \/ MarkAnalyzed(w)
    <3>1. Fits(pc[w], work[w])
      BY <1>0 DEF WorkersOK
    <3> QED
      BY <1>0, <2>2, <3>1, Stayed
         DEF Requeue, MarkProcessing, Persist, MarkAnalyzed, Steps, Fits
  <2>3. CASE Complete(w)
    <3>1. Fits(pc[w], work[w])
      BY <1>0 DEF WorkersOK
    <3> QED
      BY <1>0, <2>3, <3>1, Stayed, Retired DEF Complete, Steps, Fits
  <2>4. CASE FailRead(w)
    <3>1. CASE Retire(w)
      BY <1>0, <3>1, Retired
    <3>2. ASSUME NEW n \in {"pending", "failed"}, work' = [work EXCEPT ![w].next = n],
                 Goto(w, "write")
          PROVE  WorkersOK'
      <4>1. [work[w] EXCEPT !.next = n] \in WorkRecords
        BY <1>0 DEF WorkersOK, WorkRecords
      <4>2. Fits("write", [work[w] EXCEPT !.next = n])
        BY <1>0, <2>4 DEF WorkersOK, WorkRecords, Fits, FailRead
      <4>3. work' = [work EXCEPT ![w] = [work[w] EXCEPT !.next = n]]
        BY <1>0, <3>2 DEF WorkersOK
      <4> QED
        BY <1>0, <3>2, <4>1, <4>2, <4>3, Moved DEF Steps
    <3> QED
      BY <2>4, <3>1, <3>2 DEF FailRead
  <2>5. CASE GiveUp(w)
    BY <1>0, <2>5, Failing DEF GiveUp
  <2>6. CASE Lookup(w)
    <3>1. Fits(pc[w], work[w])
      BY <1>0 DEF WorkersOK
    <3> QED
      BY <1>0, <2>6, <3>1, Stayed, Retired DEF Lookup, Steps, Fits
  <2> QED
    BY <1>2, <2>1, <2>2, <2>3, <2>4, <2>5, <2>6 DEF Proceed
<1>3. ASSUME NEW w \in Workers, Stumble(w)
      PROVE  WorkersOK'
  <2>1. PICK again \in BOOLEAN : FailJob(w, again)
    BY <1>3 DEF Stumble
  <2> QED
    BY <1>0, <1>3, <2>1, Failing DEF Stumble
<1>4. ASSUME NEW w \in Workers, Crash(w)
      PROVE  WorkersOK'
  BY <1>0, <1>4, Retired DEF Crash
<1>5. ASSUME NEW w \in Workers, NEW f \in Files, Announce(w, f) \/ FindMissing(w, f)
      PROVE  WorkersOK'
  <2>1. [NoWork EXCEPT !.file = f] \in WorkRecords /\ [NoWork EXCEPT !.file = f].file = f
    BY DEF NoWork, WorkRecords
  <2>2. Fits("kickoff", [NoWork EXCEPT !.file = f]) /\ Fits("requeue", [NoWork EXCEPT !.file = f])
    BY <2>1 DEF Fits
  <2> QED
    BY <1>0, <1>5, <2>1, <2>2, Moved DEF Announce, FindMissing, Steps
<1>6. ASSUME NEW w \in Workers, NEW s \in Stages, NEW j \in Jobs, Claim(w, s, j)
      PROVE  WorkersOK'
  <2> DEFINE mine == job[j].stage = s
             r == [NoWork EXCEPT !.job = j, !.file = job[j].file, !.retry = ~ mine]
             step == IF ~ mine THEN "fail" ELSE IF s = FollowUp THEN "understand" ELSE "load"
  <2>1. job[j].file \in Files
    BY <1>0, <1>6 DEF RowsOK, JobRecords, Claim, Claimable
  <2>2. r \in WorkRecords /\ r.job = j /\ r.file = job[j].file
    BY <2>1 DEF NoWork, WorkRecords
  <2>3. step \in Steps /\ Fits(step, r)
    BY <2>1, <2>2 DEF Steps, Fits
  <2>4. Goto(w, step) /\ work' = [work EXCEPT ![w] = r]
    BY <1>6 DEF Claim
  <2> QED
    BY <1>0, <2>2, <2>3, <2>4, Moved
<1>7. CASE Repair \/ UNCHANGED vars
  BY <1>1, <1>7 DEF Repair, RepairDrift, DeleteOrphans, RequeueStuck, RetryUnsupported, GrowOld, vars
<1> QED
  BY <1>2, <1>3, <1>4, <1>5, <1>6, <1>7, StepSplit

LEMMA FilesNext ==
  ASSUME TypeOK, [Next]_vars
  PROVE  FilesOK'
<1> USE DEF files, FilesOK, Statuses
<1>0. RowsOK /\ WorkersOK /\ FilesOK
  BY TypeParts
<1>1. CASE UNCHANGED <<files, slow, fails>>
  BY <1>0, <1>1
<1>2. ASSUME NEW w \in Workers, Proceed(w)
      PROVE  FilesOK'
  <2>1. CASE \/ Kickoff(w) \/ Requeue(w) \/ Lookup(w) \/ Complete(w)
             \/ Follow(w) \/ FailRead(w) \/ FailWrite(w)
    BY <1>1, <2>1 DEF Kickoff, Requeue, Lookup, Complete, Follow, FailRead, FailWrite
  <2>2. CASE MarkPending(w) \/ MarkProcessing(w) \/ MarkAnalyzed(w) \/ GiveUp(w)
    <3>1. PICK s \in Statuses : status' = [status EXCEPT ![work[w].file] = s]
      BY <2>2 DEF MarkPending, MarkProcessing, MarkAnalyzed, GiveUp
    <3> QED
      BY <1>0, <2>2, <3>1 DEF MarkPending, MarkProcessing, MarkAnalyzed, GiveUp
  <2>3. CASE Persist(w)
    BY <1>0, <2>3 DEF Persist
  <2> QED
    BY <1>2, <2>1, <2>2, <2>3 DEF Proceed
<1>3. ASSUME NEW w \in Workers, Stumble(w) \/ Crash(w)
      PROVE  FilesOK'
  <2>1. fails < MaxFails /\ fails' = fails + 1 /\ UNCHANGED <<files, slow>>
    BY <1>3 DEF Stumble, Crash
  <2> QED
    BY <1>0, <2>1
<1>4. ASSUME NEW w \in Workers, NEW f \in Files, Announce(w, f) \/ FindMissing(w, f)
      PROVE  FilesOK'
  BY <1>0, <1>4 DEF Announce, FindMissing
<1>5. ASSUME NEW w \in Workers, NEW s \in Stages, NEW j \in Jobs, Claim(w, s, j)
      PROVE  FilesOK'
  BY <1>1, <1>5 DEF Claim
<1>6. CASE Repair \/ UNCHANGED vars
  <2>1. CASE RepairDrift
    BY <1>0, <2>1 DEF RepairDrift
  <2>2. ASSUME NEW f \in Files, RetryUnsupported(f)
        PROVE  FilesOK'
    BY <1>0, <2>2 DEF RetryUnsupported
  <2>3. ASSUME NEW j \in Jobs, GrowOld(j)
        PROVE  FilesOK'
    BY <1>0, <2>3 DEF GrowOld
  <2>4. CASE DeleteOrphans \/ RequeueStuck \/ UNCHANGED vars
    BY <1>1, <2>4 DEF DeleteOrphans, RequeueStuck, vars
  <2> QED
    BY <1>6, <2>1, <2>2, <2>3, <2>4 DEF Repair
<1> QED
  BY <1>2, <1>3, <1>4, <1>5, <1>6, StepSplit

LEMMA TypeNext ==
  ASSUME TypeOK, [Next]_vars
  PROVE  TypeOK'
<1>1. TypeOK' <=> RowsOK' /\ WorkersOK' /\ FilesOK'
  BY Zenon DEF TypeOK, RowsOK, WorkersOK, FilesOK, Fits
<1> QED
  BY <1>1, RowsNext, WorkersNext, FilesNext

-----------------------------------------------------------------------------
(* What a step may do to a row, and to a worker. *)

SameRow(j) == job'[j].file = job[j].file /\ job'[j].stage = job[j].stage

Refilled(j) == j \in Spare /\ job'[j].state = "pending" /\ ~ job'[j].late
Claimed(j)  == /\ job[j].state = "pending" /\ SameRow(j) /\ job'[j].late = job[j].late
               /\ job'[j].state = "processing" /\ job'[j].lease = "fresh"
Emptied(j)  == /\ job[j].state = "pending" /\ job'[j].state = "none"
               /\ job'[j].late = job[j].late
Returned(j) == /\ job[j].state = "processing" /\ Expired(j) /\ SameRow(j)
               /\ job'[j].state = "pending" /\ job'[j].late = job[j].late
Aged(j)     == /\ job[j].state = "processing" /\ job'[j].state = "processing" /\ SameRow(j)
               /\ Held(j) => job'[j].late
               /\ job[j].late => job'[j].late
Finished(j) == \E w \in Workers :
                 /\ HeldBy(w) = j /\ pc[w] \in {"complete", "understand"}
                 /\ job[j].state = "processing" /\ job'[j].state = "succeeded"
                 /\ SameRow(j) /\ job'[j].late = job[j].late
Written(j)  == \E w \in Workers :
                 /\ HeldBy(w) = j /\ pc[w] = "write" /\ work'[w].job = None
                 /\ job[j].state # "none" /\ job'[j].state \in {"pending", "failed"}
                 /\ SameRow(j) /\ job'[j].late = job[j].late

RowMove(j) == \/ job'[j] = job[j]
              \/ Refilled(j) \/ Claimed(j) \/ Emptied(j) \/ Returned(j) \/ Aged(j)
              \/ Finished(j) \/ Written(j)

\* A worker stays, ends what it did, begins or claims something, or goes on.
Begun(w)   == work'[w].job = None /\ pc'[w] \in {"idle", "kickoff", "requeue"}
Taken(w)   == \E j \in Jobs :
                /\ work'[w].job = j /\ work'[w].file = job[j].file /\ Claimed(j)
                /\ pc'[w] \in {"fail", "load", "understand"}
                /\ pc'[w] = "understand" => job[j].stage = FollowUp
                /\ \A v \in Workers \ {w} : work'[v] = work[v]
Goes(w)    == /\ work'[w].job = work[w].job /\ work'[w].file = work[w].file
              /\ pc'[w] # "understand"
              /\ pc'[w] = "mark" => text'[work[w].file]
              /\ pc'[w] = "complete" => pc[w] = "mark"
              /\ pc'[w] = "write" => job[HeldBy(w)].state = "processing" /\ job' = job

WorkerMove(w) == \/ work'[w] = work[w] /\ pc'[w] = pc[w]
                 \/ Begun(w) \/ Taken(w) \/ Goes(w)

LEMMA RowEnqueued ==
  ASSUME TypeOK, NEW f \in Files, NEW s \in Stages, Enqueue(f, s), NEW j \in Jobs
  PROVE  RowMove(j)
<1>1. job'[j] = job[j] \/ (j \in Spare /\ job'[j] = NewJob(f, s))
  BY TypeParts, Enqueued
<1> QED
  BY <1>1 DEF RowMove, Refilled, NewJob

LEMMA ClaimRow ==
  ASSUME TypeOK, NEW w \in Workers, NEW s \in Stages, NEW j \in Jobs, Claim(w, s, j)
  PROVE  Claimed(j) /\ \A i \in Jobs \ {j} : job'[i] = job[i]
<1> DEFINE n == IF job[j].attempts < MaxAttempts THEN job[j].attempts + 1 ELSE job[j].attempts
<1>0. RowsOK
  BY TypeParts
<1>1. job'[j] = [job[j] EXCEPT !.state = "processing", !.lease = "fresh", !.attempts = n]
  BY <1>0 DEF Claim, RowsOK
<1>2. job[j] \in JobRecords /\ job[j].state = "pending"
  BY <1>0 DEF RowsOK, Claim, Claimable
<1>3. Claimed(j)
  <2> HIDE DEF n
  <2> QED
    BY <1>1, <1>2 DEF Claimed, SameRow, JobRecords
<1>4. \A i \in Jobs \ {j} : job'[i] = job[i]
  BY <1>0 DEF Claim, RowsOK
<1> QED
  BY <1>3, <1>4

LEMMA RowMoves ==
  ASSUME TypeOK, [Next]_vars, NEW j \in Jobs
  PROVE  RowMove(j)
<1> USE DEF files
<1>0. RowsOK /\ WorkersOK /\ FilesOK
  BY TypeParts
<1>1. CASE UNCHANGED job
  BY <1>1 DEF RowMove
<1>2. ASSUME NEW w \in Workers, Kickoff(w) \/ Requeue(w) \/ Follow(w)
      PROVE  RowMove(j)
  <2>1. work[w].file \in Files
    BY <1>0, <1>2 DEF WorkersOK, WorkRecords, Fits, Kickoff, Requeue, Follow
  <2>2. FirstStage[work[w].file] \in Stages /\ FollowUp \in Stages
    BY <2>1
  <2> QED
    BY <1>2, <2>1, <2>2, RowEnqueued DEF Kickoff, Requeue, Follow
<1>3. ASSUME NEW w \in Workers, Complete(w)
      PROVE  RowMove(j)
  <2>1. job' = job \/ job' = [job EXCEPT ![HeldBy(w)].state = "succeeded", ![HeldBy(w)].lease = "none"]
    BY <1>3 DEF Complete
  <2>2. CASE HeldBy(w) = j /\ job' # job
    <3>1. job[j].state = "processing" /\ pc[w] \in {"complete", "understand"}
      BY <1>3, <2>2 DEF Complete
    <3>2. job'[j] = [job[j] EXCEPT !.state = "succeeded", !.lease = "none"]
      BY <1>0, <2>1, <2>2 DEF RowsOK
    <3>3. job'[j].state = "succeeded" /\ SameRow(j) /\ job'[j].late = job[j].late
      BY <1>0, <3>2 DEF RowsOK, JobRecords, SameRow
    <3> QED
      BY <2>2, <3>1, <3>3 DEF RowMove, Finished
  <2>3. CASE HeldBy(w) # j \/ job' = job
    BY <1>0, <2>1, <2>3 DEF RowMove, RowsOK
  <2> QED
    BY <2>2, <2>3
<1>4. ASSUME NEW w \in Workers, FailWrite(w)
      PROVE  RowMove(j)
  <2>1. PICK n \in {"pending", "failed"} :
          job' = job \/ job' = [job EXCEPT ![HeldBy(w)].state = n, ![HeldBy(w)].lease = "none"]
    BY <1>0, <1>4 DEF FailWrite, WorkersOK, WorkRecords, Fits
  <2>2. CASE HeldBy(w) = j /\ job' # job
    <3>1. job[j].state # "none" /\ pc[w] = "write"
      BY <1>4, <2>2 DEF FailWrite, Writable
    <3>2. work'[w].job = None
      BY <1>0, <1>4 DEF FailWrite, Retire, WorkersOK, NoWork
    <3>3. job'[j] = [job[j] EXCEPT !.state = n, !.lease = "none"]
      BY <1>0, <2>1, <2>2 DEF RowsOK
    <3>4. job'[j].state = n /\ SameRow(j) /\ job'[j].late = job[j].late
      BY <1>0, <3>3 DEF RowsOK, JobRecords, SameRow
    <3> QED
      BY <2>2, <3>1, <3>2, <3>4 DEF RowMove, Written
  <2>3. CASE HeldBy(w) # j \/ job' = job
    BY <1>0, <2>1, <2>3 DEF RowMove, RowsOK
  <2> QED
    BY <2>2, <2>3
<1>5. ASSUME NEW w \in Workers, NEW s \in Stages, NEW i \in Jobs, Claim(w, s, i)
      PROVE  RowMove(j)
  BY <1>5, ClaimRow DEF RowMove
<1>6. CASE DeleteOrphans
  <2>1. job'[j] = job[j] \/ (job[j].state = "pending" /\ job'[j] = NoJob(job[j].late))
    BY <1>6 DEF DeleteOrphans
  <2> QED
    BY <2>1 DEF RowMove, Emptied, NoJob
<1>7. CASE RequeueStuck
  <2>1. \/ job'[j] = job[j]
        \/ /\ job[j].state = "processing" /\ Expired(j)
           /\ job'[j] = [job[j] EXCEPT !.state = "pending", !.lease = "none"]
    BY <1>7 DEF RequeueStuck
  <2>2. job[j] \in JobRecords
    BY <1>0 DEF RowsOK
  <2> QED
    BY <2>1, <2>2 DEF RowMove, Returned, SameRow, JobRecords
<1>8. ASSUME NEW f \in Files, RetryUnsupported(f)
      PROVE  RowMove(j)
  BY <1>8, RowEnqueued DEF RetryUnsupported
<1>9. ASSUME NEW i \in Jobs, GrowOld(i)
      PROVE  RowMove(j)
  <2>1. job'[i] = [job[i] EXCEPT !.lease = "old", !.late = job[i].late \/ Held(i)]
    BY <1>0, <1>9 DEF GrowOld, RowsOK
  <2>2. job[i] \in JobRecords /\ job[i].state = "processing"
    BY <1>0, <1>9 DEF RowsOK, GrowOld
  <2>3. Aged(i)
    BY <2>1, <2>2 DEF Aged, SameRow, JobRecords
  <2>4. i # j => job'[j] = job[j]
    BY <1>0, <1>9 DEF GrowOld, RowsOK
  <2> QED
    BY <2>3, <2>4 DEF RowMove
<1>10. ASSUME NEW w \in Workers, Proceed(w)
       PROVE  RowMove(j)
  BY <1>10, <1>1, <1>2, <1>3, <1>4
     DEF Proceed, Lookup, MarkPending, MarkProcessing, Persist, MarkAnalyzed, FailRead, GiveUp
<1>11. ASSUME NEW w \in Workers, Stumble(w) \/ Crash(w)
       PROVE  RowMove(j)
  BY <1>11, <1>1 DEF Stumble, Crash
<1>12. ASSUME NEW w \in Workers, NEW f \in Files, Announce(w, f) \/ FindMissing(w, f)
       PROVE  RowMove(j)
  BY <1>12, <1>1 DEF Announce, FindMissing
<1>13. CASE RepairDrift \/ UNCHANGED vars
  BY <1>13, <1>1 DEF RepairDrift, vars
<1> QED
  BY <1>5, <1>6, <1>7, <1>8, <1>9, <1>10, <1>11, <1>12, <1>13, StepSplit DEF Repair

LEMMA RetiredMoves ==
  ASSUME TypeOK, NEW w \in Workers, NEW v \in Workers, Retire(v)
  PROVE  WorkerMove(w)
<1>1. WorkersOK
  BY TypeParts
<1> QED
  BY <1>1 DEF WorkersOK, Retire, Goto, NoWork, WorkerMove, Begun

LEMMA FailingMoves ==
  ASSUME TypeOK, NEW w \in Workers, NEW v \in Workers, NEW again \in BOOLEAN, FailJob(v, again)
  PROVE  WorkerMove(w)
<1>1. WorkersOK
  BY TypeParts
<1>2. work'[v].job = work[v].job /\ work'[v].file = work[v].file /\ pc'[v] = "fail"
  BY <1>1 DEF WorkersOK, WorkRecords, FailJob, Goto
<1>3. w # v => work'[w] = work[w] /\ pc'[w] = pc[w]
  BY <1>1 DEF WorkersOK, FailJob, Goto
<1> QED
  BY <1>2, <1>3 DEF WorkerMove, Goes

LEMMA ProceedMoves ==
  ASSUME TypeOK, NEW w \in Workers, NEW v \in Workers, Proceed(v)
  PROVE  WorkerMove(w)
<1>0. RowsOK /\ WorkersOK /\ FilesOK
  BY TypeParts
<1>1. CASE Retire(v)
  BY <1>1, RetiredMoves
<1>2. ASSUME NEW step \in {"lookup", "pend", "extract", "mark", "complete", "follow"},
             UNCHANGED work, Goto(v, step),
             step = "mark" => text'[work[v].file],
             step = "complete" => pc[v] = "mark"
      PROVE  WorkerMove(w)
  <2>1. w # v => pc'[w] = pc[w]
    BY <1>0, <1>2 DEF WorkersOK, Goto
  <2>2. pc'[v] = step
    BY <1>0, <1>2 DEF WorkersOK, Goto
  <2> QED
    BY <1>2, <2>1, <2>2 DEF WorkerMove, Goes
<1>3. CASE Persist(v)
  <2>1. work[v].file \in Files
    BY <1>0, <1>3 DEF WorkersOK, WorkRecords, Fits, Persist
  <2>2. text'[work[v].file]
    BY <1>0, <1>3, <2>1 DEF Persist, FilesOK
  <2> QED
    BY <1>2, <1>3, <2>2 DEF Persist
<1>4. CASE Complete(v)
  BY <1>1, <1>2, <1>4 DEF Complete
<1>5. CASE FailRead(v)
  <2>1. ASSUME NEW n \in {"pending", "failed"}, work' = [work EXCEPT ![v].next = n],
               Goto(v, "write"), job[HeldBy(v)].state = "processing", UNCHANGED job
        PROVE  WorkerMove(w)
    <3>1. work'[v].job = work[v].job /\ work'[v].file = work[v].file /\ pc'[v] = "write"
      BY <1>0, <2>1 DEF WorkersOK, WorkRecords, Goto
    <3>2. w # v => work'[w] = work[w] /\ pc'[w] = pc[w]
      BY <1>0, <2>1 DEF WorkersOK, Goto
    <3> QED
      BY <2>1, <3>1, <3>2 DEF WorkerMove, Goes
  <2> QED
    BY <1>1, <1>5, <2>1 DEF FailRead
<1>6. CASE GiveUp(v)
  BY <1>6, FailingMoves DEF GiveUp
<1>7. CASE Requeue(v) \/ Lookup(v) \/ MarkProcessing(v) \/ MarkAnalyzed(v)
  BY <1>1, <1>2, <1>7 DEF Requeue, Lookup, MarkProcessing, MarkAnalyzed
<1> QED
  BY <1>1, <1>3, <1>4, <1>5, <1>6, <1>7
     DEF Proceed, Kickoff, MarkPending, Follow, FailWrite

LEMMA WorkerMoves ==
  ASSUME TypeOK, [Next]_vars, NEW w \in Workers
  PROVE  WorkerMove(w)
<1>0. RowsOK /\ WorkersOK /\ FilesOK
  BY TypeParts
<1>1. CASE UNCHANGED <<pc, work>>
  BY <1>1 DEF WorkerMove
<1>2. ASSUME NEW v \in Workers, Proceed(v)
      PROVE  WorkerMove(w)
  BY <1>2, ProceedMoves
<1>3. ASSUME NEW v \in Workers, Stumble(v) \/ Crash(v)
      PROVE  WorkerMove(w)
  BY <1>3, FailingMoves, RetiredMoves DEF Stumble, Crash
<1>4. ASSUME NEW v \in Workers, NEW f \in Files, Announce(v, f) \/ FindMissing(v, f)
      PROVE  WorkerMove(w)
  <2>1. work' = [work EXCEPT ![v] = [NoWork EXCEPT !.file = f]]
    BY <1>4 DEF Announce, FindMissing
  <2>2. work'[v].job = None
    BY <1>0, <2>1 DEF WorkersOK, NoWork
  <2>3. pc'[v] \in {"kickoff", "requeue"}
    BY <1>0, <1>4 DEF WorkersOK, Announce, FindMissing, Goto
  <2>4. w # v => work'[w] = work[w] /\ pc'[w] = pc[w]
    BY <1>0, <1>4, <2>1 DEF WorkersOK, Announce, FindMissing, Goto
  <2> QED
    BY <2>2, <2>3, <2>4 DEF WorkerMove, Begun
<1>5. ASSUME NEW v \in Workers, NEW s \in Stages, NEW j \in Jobs, Claim(v, s, j)
      PROVE  WorkerMove(w)
  <2>1. Claimed(j)
    BY <1>5, ClaimRow
  <2>2. work'[v].job = j /\ work'[v].file = job[j].file
    BY <1>0, <1>5 DEF Claim, WorkersOK, NoWork
  <2>3. /\ pc'[v] \in {"fail", "load", "understand"}
        /\ pc'[v] = "understand" => job[j].stage = FollowUp
    BY <1>0, <1>5 DEF Claim, WorkersOK, Goto
  <2>4. \A x \in Workers \ {v} : work'[x] = work[x] /\ pc'[x] = pc[x]
    BY <1>0, <1>5 DEF Claim, WorkersOK, Goto
  <2> QED
    BY <2>1, <2>2, <2>3, <2>4 DEF WorkerMove, Taken
<1>6. CASE Repair \/ UNCHANGED vars
  BY <1>1, <1>6 DEF Repair, RepairDrift, DeleteOrphans, RequeueStuck, RetryUnsupported, GrowOld, vars
<1> QED
  BY <1>2, <1>3, <1>4, <1>5, <1>6, StepSplit

-----------------------------------------------------------------------------
(* The invariant. *)

LEMMA InvInit == Init => JobInv
<1> SUFFICES ASSUME Init PROVE JobInv
  OBVIOUS
<1>1. \A w \in Workers : HeldBy(w) = None /\ pc[w] = "idle"
  BY DEF Init, HeldBy, NoWork
<1>2. \A j \in Jobs : job[j].state = "none" /\ ~ Held(j)
  BY <1>1 DEF Init, NoJob, Held
<1>3. \A f \in Files : status[f] # "analyzed"
  BY DEF Init
<1> QED
  BY <1>1, <1>2, <1>3, TypeInit
     DEF JobInv, RowFits, MarkHasText, HeldRuns, SoleWorker, WriterSaw, DoneMeansText

\* Who holds a job after a step held it before, or has claimed it.
LEMMA HolderMoves ==
  ASSUME TypeOK, [Next]_vars, NEW w \in Workers, HeldBy(w)' # None
  PROVE  \/ HeldBy(w) = HeldBy(w)' /\ work'[w].file = work[w].file
         \/ Taken(w)
  BY WorkerMoves DEF WorkerMove, Begun, Goes, Taken, HeldBy

LEMMA LateStays ==
  ASSUME NEW j \in Jobs, RowMove(j), Held(j), job[j].late
  PROVE  job'[j].late
  BY DEF RowMove, Refilled, Claimed, Emptied, Returned, Aged, Finished, Written, Spare

LEMMA SoleNext ==
  ASSUME JobInv, [Next]_vars
  PROVE  SoleWorker'
<1> SUFFICES ASSUME NEW v \in Workers, NEW w \in Workers, v # w,
                    HeldBy(v)' = HeldBy(w)', HeldBy(v)' # None
             PROVE  job'[HeldBy(v)'].late
  BY DEF SoleWorker
<1> DEFINE j == HeldBy(v)'
<1>0. TypeOK /\ TypeOK'
  BY TypeNext DEF JobInv
<1>1. j \in Jobs
  BY <1>0 DEF TypeOK, WorkRecords, HeldBy
<1>2. RowMove(j)
  BY <1>0, <1>1, RowMoves
<1>3. ASSUME NEW x \in {v, w}, NEW y \in {v, w}, x # y, Taken(x)
      PROVE  job'[j].late
  <2>1. HeldBy(y) = j /\ Claimed(j)
    BY <1>3 DEF Taken, HeldBy
  <2>2. Held(j) /\ job[j].state = "pending"
    BY <2>1 DEF Held, Claimed
  <2>3. job[j].late
    BY <1>1, <2>2 DEF JobInv, HeldRuns
  <2> QED
    BY <1>1, <1>2, <2>2, <2>3, LateStays
<1>4. CASE ~ Taken(v) /\ ~ Taken(w)
  <2>1. HeldBy(v) = j /\ HeldBy(w) = j
    BY <1>0, <1>4, HolderMoves
  <2>2. job[j].late /\ Held(j)
    BY <1>1, <2>1 DEF JobInv, SoleWorker, Held
  <2> QED
    BY <1>1, <1>2, <2>2, LateStays
<1> QED
  BY <1>3, <1>4

\* A row that is held, on time, before and after a step.
LEMMA OnTime ==
  ASSUME JobInv, [Next]_vars, NEW w \in Workers, HeldBy(w) # None, HeldBy(w)' = HeldBy(w),
         ~ job'[HeldBy(w)].late
  PROVE  LET j == HeldBy(w)
         IN /\ j \in Jobs /\ Held(j) /\ ~ job[j].late
            /\ \/ job'[j] = job[j]
               \/ /\ job'[j].state = "succeeded"
                  /\ pc[w] \in {"complete", "understand"}
<1> DEFINE j == HeldBy(w)
<1>0. TypeOK
  BY DEF JobInv
<1>1. j \in Jobs /\ Held(j)
  BY <1>0 DEF TypeOK, WorkRecords, HeldBy, Held
<1>2. RowMove(j)
  BY <1>0, <1>1, RowMoves
<1>3. ~ job[j].late
  BY <1>1, <1>2, LateStays
<1>4. job[j].state # "pending" /\ (job[j].state = "processing" => job[j].lease = "fresh")
  BY <1>1, <1>3 DEF JobInv, HeldRuns
<1>5. \A v \in Workers : HeldBy(v) = j => v = w
  BY <1>1, <1>3, NoneAssumption DEF JobInv, SoleWorker
<1>6. ~ Refilled(j) /\ ~ Claimed(j) /\ ~ Emptied(j) /\ ~ Returned(j) /\ ~ Aged(j)
  BY <1>1, <1>4 DEF Refilled, Spare, Claimed, Emptied, Returned, Expired, Aged
<1>7. ~ Written(j)
  BY <1>1, <1>5, NoneAssumption DEF Written, HeldBy
<1>8. Finished(j) => job'[j].state = "succeeded" /\ pc[w] \in {"complete", "understand"}
  BY <1>5 DEF Finished
<1> QED
  BY <1>1, <1>2, <1>3, <1>6, <1>7, <1>8 DEF RowMove

LEMMA HeldNext ==
  ASSUME JobInv, [Next]_vars
  PROVE  HeldRuns'
<1>0. TypeOK
  BY DEF JobInv
<1> SUFFICES ASSUME NEW j \in Jobs, NEW w \in Workers, HeldBy(w)' = j, ~ job'[j].late
             PROVE  job'[j].state # "pending" /\ (job'[j].state = "processing" => job'[j].lease = "fresh")
  BY DEF HeldRuns, Held
<1>1. CASE Taken(w)
  BY <1>1 DEF Taken, Claimed, HeldBy
<1>2. CASE HeldBy(w) = j
  <2>1. Held(j) /\ ~ job[j].late /\ (job'[j] = job[j] \/ job'[j].state = "succeeded")
    BY <1>2, OnTime, NoneAssumption
  <2> QED
    BY <2>1 DEF JobInv, HeldRuns
<1> QED
  BY <1>0, <1>1, <1>2, HolderMoves, NoneAssumption

LEMMA SawNext ==
  ASSUME JobInv, [Next]_vars
  PROVE  WriterSaw'
<1>0. TypeOK /\ TypeOK'
  BY TypeNext DEF JobInv
<1> SUFFICES ASSUME NEW w \in Workers, pc'[w] = "write", ~ job'[HeldBy(w)'].late
             PROVE  job'[HeldBy(w)'].state = "processing"
  BY DEF WriterSaw
<1>1. HeldBy(w)' # None
  BY <1>0 DEF TypeOK, HeldBy
<1>2. CASE work'[w] = work[w] /\ pc'[w] = pc[w]
  <2>1. HeldBy(w)' = HeldBy(w)
    BY <1>2 DEF HeldBy
  <2>2. job'[HeldBy(w)] = job[HeldBy(w)] /\ ~ job[HeldBy(w)].late
    BY <1>1, <1>2, <2>1, OnTime
  <2> QED
    BY <1>2, <2>1, <2>2 DEF JobInv, WriterSaw
<1>3. CASE Goes(w)
  BY <1>3 DEF Goes, HeldBy
<1> QED
  BY <1>0, <1>2, <1>3, WorkerMoves DEF WorkerMove, Begun, Taken

LEMMA FitsNext ==
  ASSUME JobInv, [Next]_vars
  PROVE  RowFits'
<1>0. TypeOK /\ TypeOK'
  BY TypeNext DEF JobInv
<1> SUFFICES ASSUME NEW w \in Workers, HeldBy(w)' # None
             PROVE  \/ job'[HeldBy(w)'].state = "none"
                    \/ /\ job'[HeldBy(w)'].file = work'[w].file
                       /\ pc'[w] = "understand" => job'[HeldBy(w)'].stage = FollowUp
  BY DEF RowFits
<1>1. CASE Taken(w)
  BY <1>1 DEF Taken, Claimed, SameRow, HeldBy
<1>2. CASE ~ Taken(w)
  <2>1. /\ HeldBy(w) = HeldBy(w)' /\ work'[w].file = work[w].file
        /\ pc'[w] = "understand" => pc[w] = "understand"
    BY <1>0, <1>2, WorkerMoves DEF WorkerMove, Begun, Goes, HeldBy
  <2>2. HeldBy(w) \in Jobs /\ Held(HeldBy(w))
    BY <1>0, <2>1 DEF TypeOK, WorkRecords, HeldBy, Held
  <2>3. \/ job[HeldBy(w)].state = "none"
        \/ /\ job[HeldBy(w)].file = work[w].file
           /\ pc[w] = "understand" => job[HeldBy(w)].stage = FollowUp
    BY <2>2, NoneAssumption DEF JobInv, RowFits
  <2>4. RowMove(HeldBy(w))
    BY <1>0, <2>2, RowMoves
  <2>5. \/ job'[HeldBy(w)] = job[HeldBy(w)]
        \/ job'[HeldBy(w)].state = "none"
        \/ job[HeldBy(w)].state # "none" /\ SameRow(HeldBy(w))
    BY <2>2, <2>4
       DEF RowMove, Refilled, Claimed, Emptied, Returned, Aged, Finished, Written, Spare
  <2> QED
    BY <2>1, <2>3, <2>5 DEF SameRow
<1> QED
  BY <1>1, <1>2

\* Texts stay, and a file is shown as analyzed when it has one.
LEMMA FileMoves ==
  ASSUME JobInv, [Next]_vars, NEW f \in Files
  PROVE  /\ text[f] => text'[f]
         /\ status'[f] = "analyzed" => text'[f]
<1> USE DEF files
<1>0. RowsOK /\ WorkersOK /\ FilesOK
  BY TypeParts DEF JobInv
<1>1. status[f] = "analyzed" => text[f]
  BY DEF JobInv, DoneMeansText
<1>2. CASE UNCHANGED <<status, text>>
  BY <1>1, <1>2
<1>3. ASSUME NEW g \in Files, NEW s \in Statuses, status' = [status EXCEPT ![g] = s],
             UNCHANGED text, s = "analyzed" => text[g]
      PROVE  /\ text[f] => text'[f]
             /\ status'[f] = "analyzed" => text'[f]
  BY <1>0, <1>1, <1>3 DEF FilesOK
<1>4. ASSUME NEW w \in Workers, Proceed(w)
      PROVE  /\ text[f] => text'[f]
             /\ status'[f] = "analyzed" => text'[f]
  <2>1. CASE MarkPending(w) \/ MarkProcessing(w) \/ GiveUp(w) \/ MarkAnalyzed(w)
    <3>1. work[w].file \in Files
      BY <1>0, <2>1
         DEF WorkersOK, WorkRecords, Fits, MarkPending, MarkProcessing, GiveUp, MarkAnalyzed
    <3>2. MarkAnalyzed(w) => text[work[w].file]
      BY DEF MarkAnalyzed, JobInv, MarkHasText
    <3>3. PICK s \in Statuses : /\ status' = [status EXCEPT ![work[w].file] = s]
                                /\ UNCHANGED text
                                /\ s = "analyzed" => MarkAnalyzed(w)
      BY <2>1 DEF MarkPending, MarkProcessing, GiveUp, MarkAnalyzed, Statuses
    <3> QED
      BY <1>3, <3>1, <3>2, <3>3
  <2>2. CASE Persist(w)
    BY <1>0, <1>1, <2>2 DEF Persist, FilesOK
  <2> QED
    BY <1>2, <1>4, <2>1, <2>2
       DEF Proceed, Kickoff, Requeue, Lookup, Complete, Follow, FailRead, FailWrite
<1>5. ASSUME NEW w \in Workers, NEW g \in Files, Announce(w, g)
      PROVE  /\ text[f] => text'[f]
             /\ status'[f] = "analyzed" => text'[f]
  BY <1>3, <1>5 DEF Announce, Statuses
<1>6. ASSUME NEW g \in Files, RetryUnsupported(g)
      PROVE  /\ text[f] => text'[f]
             /\ status'[f] = "analyzed" => text'[f]
  BY <1>3, <1>6 DEF RetryUnsupported, Statuses
<1>7. CASE RepairDrift
  BY <1>1, <1>7 DEF RepairDrift, Drifted
<1>8. ASSUME NEW w \in Workers, Stumble(w) \/ Crash(w)
      PROVE  UNCHANGED <<status, text>>
  BY <1>8 DEF Stumble, Crash
<1>9. ASSUME NEW w \in Workers, NEW g \in Files, FindMissing(w, g)
      PROVE  UNCHANGED <<status, text>>
  BY <1>9 DEF FindMissing
<1>10. ASSUME NEW w \in Workers, NEW s \in Stages, NEW j \in Jobs, Claim(w, s, j)
       PROVE  UNCHANGED <<status, text>>
  BY <1>10 DEF Claim
<1>11. ASSUME NEW j \in Jobs, GrowOld(j)
       PROVE  UNCHANGED <<status, text>>
  BY <1>11 DEF GrowOld
<1>12. CASE DeleteOrphans \/ RequeueStuck \/ UNCHANGED vars
  BY <1>2, <1>12 DEF DeleteOrphans, RequeueStuck, vars
<1> QED
  BY <1>2, <1>4, <1>5, <1>6, <1>7, <1>8, <1>9, <1>10, <1>11, <1>12, StepSplit DEF Repair

LEMMA MarkNext ==
  ASSUME JobInv, [Next]_vars
  PROVE  MarkHasText'
<1>0. TypeOK
  BY DEF JobInv
<1> SUFFICES ASSUME NEW w \in Workers, pc'[w] \in {"mark", "complete"}
             PROVE  text'[work'[w].file]
  BY DEF MarkHasText
<1>1. WorkerMove(w)
  BY <1>0, WorkerMoves
<1>2. ASSUME pc[w] \in {"mark", "complete"}, work'[w].file = work[w].file
      PROVE  text'[work'[w].file]
  <2>1. work[w].file \in Files
    BY <1>0, <1>2 DEF TypeOK, WorkRecords
  <2>2. text[work[w].file]
    BY <1>2 DEF JobInv, MarkHasText
  <2> QED
    BY <1>2, <2>1, <2>2, FileMoves
<1> QED
  BY <1>1, <1>2 DEF WorkerMove, Begun, Taken, Goes

LEMMA DoneNext ==
  ASSUME JobInv, [Next]_vars
  PROVE  DoneMeansText'
<1>0. TypeOK
  BY DEF JobInv
<1>1. ASSUME NEW f \in Files, status'[f] = "analyzed"
      PROVE  text'[f]
  BY <1>1, FileMoves
<1>2. ASSUME NEW j \in Jobs, job'[j].state = "succeeded", job'[j].stage # FollowUp
      PROVE  text'[job'[j].file]
  <2>1. RowMove(j)
    BY <1>0, RowMoves
  <2>2. job[j] \in JobRecords /\ (job[j].state # "none" => job[j].file # None)
    BY <1>0 DEF TypeOK
  <2>3. CASE job'[j] = job[j]
    <3>1. job[j].file \in Files /\ text[job[j].file]
      BY <1>2, <2>2, <2>3 DEF JobRecords, JobInv, DoneMeansText
    <3> QED
      BY <2>3, <3>1, FileMoves
  <2>4. ASSUME NEW w \in Workers, HeldBy(w) = j, pc[w] \in {"complete", "understand"},
               job[j].state = "processing", SameRow(j)
        PROVE  text'[job'[j].file]
    <3>1. /\ job[j].file = work[w].file
          /\ pc[w] = "understand" => job[j].stage = FollowUp
      BY <2>4, NoneAssumption DEF JobInv, RowFits
    <3>2. pc[w] = "complete"
      BY <1>2, <2>4, <3>1 DEF SameRow
    <3>3. job[j].file \in Files /\ text[job[j].file]
      BY <2>2, <2>4, <3>1, <3>2 DEF JobRecords, JobInv, MarkHasText
    <3> QED
      BY <2>4, <3>3, FileMoves DEF SameRow
  <2>5. job'[j] = job[j] \/ Finished(j)
    BY <1>2, <2>1 DEF RowMove, Refilled, Claimed, Emptied, Returned, Aged, Written
  <2> QED
    BY <2>3, <2>4, <2>5 DEF Finished
<1> QED
  BY <1>1, <1>2 DEF DoneMeansText

LEMMA InvNext == JobInv /\ [Next]_vars => JobInv'
  BY TypeNext, FitsNext, MarkNext, HeldNext, SoleNext, SawNext, DoneNext DEF JobInv

\* What the theorems below rest on: JobInv holds in every reachable state.
THEOREM Invariant == Spec => []JobInv
  BY InvInit, InvNext, PTL DEF Spec

-----------------------------------------------------------------------------
(* The properties. *)

\* Every variable has its type.
THEOREM JobTypes == Spec => []TypeOK
  BY TypeInit, TypeNext, PTL DEF Spec

\* Two workers are at one job only after one has outlived its lease: SoleWorker.
THEOREM OneWorker == Spec => []SoleWorker
<1>1. JobInv => SoleWorker
  BY DEF JobInv
<1> QED
  BY <1>1, Invariant, PTL

\* What is shown as done has its text, however workers overlap and die: DoneMeansText.
THEOREM DoneHasText == Spec => []DoneMeansText
<1>1. JobInv => DoneMeansText
  BY DEF JobInv
<1> QED
  BY <1>1, Invariant, PTL

\* A success is undone only by workers that overlapped: DoneStaysDone.
THEOREM SuccessStays == Spec => DoneStaysDone
<1>1. ASSUME JobInv, [Next]_vars, NEW j \in Jobs,
             job[j].state = "succeeded", Held(j), ~ job[j].late
      PROVE  job'[j].state = "succeeded"
  <2>1. RowMove(j)
    BY <1>1, RowMoves DEF JobInv
  <2>2. ~ Written(j)
    BY <1>1 DEF Written, JobInv, WriterSaw
  <2> QED
    BY <1>1, <2>1, <2>2
       DEF RowMove, Refilled, Spare, Claimed, Emptied, Returned, Aged, Finished
<1>2. JobInv /\ [Next]_vars =>
        [\A j \in Jobs : job[j].state = "succeeded" /\ Held(j) /\ ~ job[j].late
                            => job'[j].state = "succeeded"]_vars
  BY <1>1
<1> QED
  BY <1>2, Invariant, PTL DEF Spec, DoneStaysDone

=============================================================================
