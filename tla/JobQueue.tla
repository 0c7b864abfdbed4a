------------------------------- MODULE JobQueue -------------------------------
(***************************************************************************)
(* The queue of analysis jobs: uploads and repairs enqueue (main.py,       *)
(* vault_analysis.py, vault_reconciler.py), drains of one stage claim and  *)
(* work (vault_analysis_worker.py, vault_ocr_worker.py and their like).    *)
(*                                                                         *)
(* A step is one SQL transaction, except the failure of a job, whose two   *)
(* statements see different states.  What an extractor finds is a choice.  *)
(* Clocks of the processes stamp scheduled_at, so jobs are claimed in any  *)
(* order.                                                                  *)
(***************************************************************************)
EXTENDS Integers, FiniteSets

CONSTANTS
    Files,        \* uploaded files
    FirstStage,   \* [Files -> Stages]: the stage that extracts their text
    FollowUp,     \* the stage enqueued when text was found
    Stages,       \* stages that have a drain
    Jobs,         \* ids of rows of vault_analysis_jobs
    Workers,      \* threads that drain, and handlers and repairs that enqueue
    MaxAttempts,  \* max_attempts
    MaxSlow,      \* bound: leases that grow old while their worker still works
    MaxFails,     \* bound: crashes and statements that fail
    None          \* no file, no job, no stage

ASSUME StageAssumption ==
    /\ FirstStage \in [Files -> Stages \ {FollowUp}] /\ FollowUp \in Stages
ASSUME NoneAssumption == None \notin Files \cup Jobs \cup Stages
ASSUME BoundAssumption == MaxAttempts \in Nat \ {0} /\ MaxSlow \in Nat /\ MaxFails \in Nat

VARIABLES
    arriving,  \* files whose upload has been committed and not yet announced
    status,    \* uploaded_files.analysis_status
    text,      \* extracted_text is there
    job,       \* vault_analysis_jobs
    pc,        \* where a worker stands
    work,      \* what it works on
    slow,      \* leases outlived
    fails      \* crashes and failed statements

files == <<arriving, status, text>>
vars == <<files, job, pc, work, slow, fails>>

\* late records that a worker outlived its lease on the job.
NoJob(late) == [file |-> None, stage |-> None, state |-> "none", attempts |-> 0,
                lease |-> "none", late |-> late]
NewJob(f, s) == [file |-> f, stage |-> s, state |-> "pending", attempts |-> 0,
                 lease |-> "none", late |-> FALSE]
NoWork == [job |-> None, file |-> None, next |-> "none", retry |-> FALSE]

Goto(w, step) == pc' = [pc EXCEPT ![w] = step]
Retire(w) == Goto(w, "idle") /\ work' = [work EXCEPT ![w] = NoWork]
Active(j) == job[j].state \in {"pending", "processing"}
HeldBy(w) == work[w].job
Held(j)   == \E w \in Workers : HeldBy(w) = j
Clean(f)  == status[f] = "analyzed"

\* An upload may bring its text along.
Init == /\ arriving = Files
        /\ status = [f \in Files |-> "not_started"]
        /\ text \in [Files -> BOOLEAN]
        /\ job = [j \in Jobs |-> NoJob(FALSE)]
        /\ pc = [w \in Workers |-> "idle"]
        /\ work = [w \in Workers |-> NoWork]
        /\ slow = 0 /\ fails = 0

-----------------------------------------------------------------------------
(* Enqueueing. *)

\* The partial unique index on (file_id, stage)
Queued(f, s) == \E j \in Jobs : Active(j) /\ job[j].file = f /\ job[j].stage = s

\* Rows that ended are read by nobody but the workers that still hold them.
Spare == {j \in Jobs : ~ Active(j) /\ ~ Held(j)}

\* enqueue_analysis_job: an active row of the stage is taken for the new one.
Enqueue(f, s) ==
    IF Queued(f, s) THEN UNCHANGED job
    ELSE \E j \in Spare : job' = [job EXCEPT ![j] = NewJob(f, s)]

\* kickoff_analysis_for_uploaded_file: the file is marked first ...
Announce(w, f) ==
    /\ pc[w] = "idle" /\ f \in arriving
    /\ arriving' = arriving \ {f}
    /\ status' = [status EXCEPT ![f] = "pending"]
    /\ work' = [work EXCEPT ![w] = [NoWork EXCEPT !.file = f]]
    /\ Goto(w, "kickoff")
    /\ UNCHANGED <<text, job, slow, fails>>

\* ... and then enqueued.
Kickoff(w) == /\ pc[w] = "kickoff"
              /\ Enqueue(work[w].file, FirstStage[work[w].file])
              /\ Retire(w)
              /\ UNCHANGED <<files, slow, fails>>

\* Mutant: a file that is marked is taken to be queued.
NeverStarted(f) == status[f] = "not_started"

Unserved(f) == status[f] \in {"not_started", "pending"}

\* enqueue_missing_analysis_jobs: files without an active row, of any stage ...
FindMissing(w, f) ==
    /\ pc[w] = "idle" /\ Unserved(f)
    /\ \A j \in Jobs : Active(j) => job[j].file # f
    /\ work' = [work EXCEPT ![w] = [NoWork EXCEPT !.file = f]]
    /\ Goto(w, "requeue")
    /\ UNCHANGED <<files, job, slow, fails>>

\* ... get one, and the mark, whatever has happened to them since.  An INSERT that the
\* unique index refuses is followed by a SELECT of the row it met ...
Requeue(w) ==
    LET f == work[w].file
    IN /\ pc[w] = "requeue"
       /\ Enqueue(f, FirstStage[f])
       /\ Goto(w, IF Queued(f, FirstStage[f]) THEN "lookup" ELSE "pend")
       /\ UNCHANGED <<files, work, slow, fails>>

\* ... and when that row has ended there is no job id, and no mark.
Lookup(w) ==
    LET f == work[w].file
    IN /\ pc[w] = "lookup"
       /\ IF Queued(f, FirstStage[f]) THEN Goto(w, "pend") /\ UNCHANGED work ELSE Retire(w)
       /\ UNCHANGED <<files, job, slow, fails>>

MarkPending(w) == /\ pc[w] = "pend"
                  /\ status' = [status EXCEPT ![work[w].file] = "pending"]
                  /\ Retire(w)
                  /\ UNCHANGED <<arriving, text, job, slow, fails>>

-----------------------------------------------------------------------------
(* Repairs in one transaction. *)

\* Mutant: the text is not looked for.
DriftUnread(f) == status[f] \in {"not_started", "pending"}

Drifted(f) == text[f] /\ status[f] \in {"not_started", "pending"}

\* repair_status_drift_for_vault
RepairDrift ==
    /\ \E f \in Files : Drifted(f)
    /\ status' = [f \in Files |-> IF Drifted(f) THEN "analyzed" ELSE status[f]]
    /\ UNCHANGED <<arriving, text, job, pc, work, slow, fails>>

\* repair_orphan_queue_rows_for_vault, pending rows of every stage
DeleteOrphans ==
    LET orphans == {j \in Jobs : job[j].state = "pending" /\ Clean(job[j].file)}
    IN /\ orphans # {}
       /\ job' = [j \in Jobs |-> IF j \in orphans THEN NoJob(job[j].late) ELSE job[j]]
       /\ UNCHANGED <<files, pc, work, slow, fails>>

\* Mutants: a lease counts as expired when there is none; no lease is looked at.
NoLease(j) == job[j].lease = "none"
AnyLease(j) == TRUE

Expired(j) == job[j].lease \in {"none", "old"}

\* repair_stuck_processing_for_vault
RequeueStuck ==
    LET stuck == {j \in Jobs : job[j].state = "processing" /\ Expired(j)}
    IN /\ stuck # {}
       /\ job' = [j \in Jobs |-> IF j \in stuck
                    THEN [job[j] EXCEPT !.state = "pending", !.lease = "none"] ELSE job[j]]
       /\ UNCHANGED <<files, pc, work, slow, fails>>

\* repair_text_like_unsupported_for_vault: text files whose extraction found none
\* are marked and enqueued in one transaction, time and again.
RetryUnsupported(f) ==
    /\ status[f] = "unsupported" /\ ~ text[f] /\ FirstStage[f] = "text"
    /\ status' = [status EXCEPT ![f] = "pending"]
    /\ Enqueue(f, "text")
    /\ UNCHANGED <<arriving, text, pc, work, slow, fails>>

\* The clock: a lease grows old, while its worker works or after it died.
GrowOld(j) ==
    /\ job[j].state = "processing" /\ job[j].lease = "fresh"
    /\ Held(j) => slow < MaxSlow
    /\ slow' = IF Held(j) THEN slow + 1 ELSE slow
    /\ job' = [job EXCEPT ![j].lease = "old", ![j].late = @ \/ Held(j)]
    /\ UNCHANGED <<files, pc, work, fails>>

-----------------------------------------------------------------------------
(* Drains. *)

\* Mutant: rows are claimed whoever works on them.
ClaimableActive(j) == Active(j)

Claimable(j) == job[j].state = "pending"

\* claim_next_analysis_job, in the drain of stage s, takes a row of any stage.  The
\* drain claims again after each job; to end and to start again is the same.  Only
\* "attempts >= max" is ever asked, so attempts stop at the maximum here.
Claim(w, s, j) ==
    LET mine == job[j].stage = s
    IN /\ pc[w] = "idle" /\ Claimable(j)
       /\ job' = [job EXCEPT ![j].state = "processing", ![j].lease = "fresh",
                    ![j].attempts = IF @ < MaxAttempts THEN @ + 1 ELSE @]
       /\ work' = [work EXCEPT ![w] = [NoWork EXCEPT !.job = j, !.file = job[j].file,
                                                     !.retry = ~ mine]]
       /\ Goto(w, IF ~ mine THEN "fail" ELSE IF s = FollowUp THEN "understand" ELSE "load")
       /\ UNCHANGED <<files, slow, fails>>

\* The job ends in fail_analysis_job, for good or to be tried again.
FailJob(w, again) == Goto(w, "fail") /\ work' = [work EXCEPT ![w].retry = again]

\* The file cannot be read, or its kind, its bytes or its extractor end the job.
GiveUp(w) ==
    /\ pc[w] \in {"load", "extract"}
    /\ \E s \in {"unsupported", "failed"} : status' = [status EXCEPT ![work[w].file] = s]
    /\ FailJob(w, FALSE)
    /\ UNCHANGED <<arriving, text, job, slow, fails>>

MarkProcessing(w) ==
    /\ pc[w] = "load"
    /\ status' = [status EXCEPT ![work[w].file] = "processing"]
    /\ Goto(w, "extract")
    /\ UNCHANGED <<arriving, text, job, work, slow, fails>>

\* Text is found and stored; a transaction of its own, before the mark.
Persist(w) == /\ pc[w] = "extract"
              /\ text' = [text EXCEPT ![work[w].file] = TRUE]
              /\ Goto(w, "mark")
              /\ UNCHANGED <<arriving, status, job, work, slow, fails>>

\* A statement fails: reading the row or storing the text is tried again later,
\* encryption and follow-up work are not.
Stumble(w) == /\ pc[w] \in {"load", "extract", "understand"} /\ fails < MaxFails
              /\ \E again \in (IF pc[w] = "load" THEN {TRUE} ELSE BOOLEAN) : FailJob(w, again)
              /\ fails' = fails + 1
              /\ UNCHANGED <<files, job, slow>>

MarkAnalyzed(w) ==
    /\ pc[w] = "mark"
    /\ status' = [status EXCEPT ![work[w].file] = "analyzed"]
    /\ Goto(w, "complete")
    /\ UNCHANGED <<arriving, text, job, work, slow, fails>>

\* complete_analysis_job does not ask whose lease it is.
Complete(w) ==
    LET j == HeldBy(w)
    IN /\ pc[w] \in {"complete", "understand"}
       /\ job' = IF job[j].state = "processing"
                 THEN [job EXCEPT ![j].state = "succeeded", ![j].lease = "none"] ELSE job
       /\ IF pc[w] = "understand" THEN Retire(w) ELSE Goto(w, "follow") /\ UNCHANGED work
       /\ UNCHANGED <<files, slow, fails>>

Follow(w) == /\ pc[w] = "follow"
             /\ Enqueue(work[w].file, FollowUp)
             /\ Retire(w)
             /\ UNCHANGED <<files, slow, fails>>

\* Mutant: a row that is gone is written again.
WritableGone(j) == TRUE

Writable(j) == job[j].state # "none"

\* fail_analysis_job decides from what its SELECT returns ...
FailRead(w) ==
    LET j == HeldBy(w)
    IN /\ pc[w] = "fail"
       /\ IF job[j].state = "processing"
          THEN /\ work' = [work EXCEPT ![w].next =
                     IF work[w].retry /\ job[j].attempts < MaxAttempts
                     THEN "pending" ELSE "failed"]
               /\ Goto(w, "write")
          ELSE Retire(w)
       /\ UNCHANGED <<files, job, slow, fails>>

\* ... and writes by id, whatever the row has become, unless it is gone or the
\* unique index stops it.
FailWrite(w) ==
    LET j == HeldBy(w)
        refused == /\ work[w].next = "pending" /\ ~ Active(j)
                   /\ Queued(job[j].file, job[j].stage)
    IN /\ pc[w] = "write"
       /\ job' = IF refused \/ ~ Writable(j) THEN job
                 ELSE [job EXCEPT ![j].state = work[w].next, ![j].lease = "none"]
       /\ Retire(w)
       /\ UNCHANGED <<files, slow, fails>>

Crash(w) == /\ pc[w] # "idle" /\ fails < MaxFails
            /\ fails' = fails + 1
            /\ Retire(w)
            /\ UNCHANGED <<files, job, slow>>

-----------------------------------------------------------------------------
\* What a worker does once it has begun something
Proceed(w) ==
    \/ Kickoff(w) \/ Requeue(w) \/ Lookup(w) \/ MarkPending(w)
    \/ MarkProcessing(w) \/ Persist(w) \/ MarkAnalyzed(w)
    \/ Complete(w) \/ Follow(w) \/ FailRead(w) \/ FailWrite(w) \/ GiveUp(w)

Next == \/ \E w \in Workers :
             \/ Proceed(w) \/ Stumble(w) \/ Crash(w)
             \/ \E f \in Files : Announce(w, f) \/ FindMissing(w, f)
             \/ \E s \in Stages, j \in Jobs : Claim(w, s, j)
        \/ RepairDrift \/ DeleteOrphans \/ RequeueStuck
        \/ \E f \in Files : RetryUnsupported(f)
        \/ \E j \in Jobs : GrowOld(j)

Spec == Init /\ [][Next]_vars

\* Threads run and clocks advance; the daemon repairs a vault again and again as
\* long as its key is in memory.
Fairness ==
    /\ \A w \in Workers : WF_vars(Proceed(w))
    /\ \A j \in Jobs : WF_vars(GrowOld(j))
    /\ WF_vars(RepairDrift) /\ WF_vars(RequeueStuck)
    /\ \A f \in Files : WF_vars(\E w \in Workers : FindMissing(w, f))

FairSpec == Spec /\ Fairness

-----------------------------------------------------------------------------
(* Properties. *)

Steps == {"idle", "kickoff", "requeue", "lookup", "pend", "load", "extract", "mark",
          "complete", "follow", "understand", "fail", "write"}
Statuses == {"not_started", "pending", "processing", "analyzed", "failed", "unsupported"}
JobRecords == [file : Files \cup {None}, stage : Stages \cup {None},
               state : {"none", "pending", "processing", "succeeded", "failed"},
               attempts : 0 .. MaxAttempts, lease : {"none", "fresh", "old"},
               late : BOOLEAN]
WorkRecords == [job : Jobs \cup {None}, file : Files \cup {None},
                next : {"none", "pending", "failed"}, retry : BOOLEAN]

\* Every variable has its type, a worker at work has its job and file, and a row
\* that is there has its file and stage.
TypeOK ==
    /\ arriving \subseteq Files
    /\ status \in [Files -> Statuses] /\ text \in [Files -> BOOLEAN]
    /\ job \in [Jobs -> JobRecords]
    /\ pc \in [Workers -> Steps] /\ work \in [Workers -> WorkRecords]
    /\ slow \in 0 .. MaxSlow /\ fails \in 0 .. MaxFails
    /\ \A j \in Jobs : job[j].state # "none" => job[j].file # None /\ job[j].stage # None
    /\ \A w \in Workers :
         /\ pc[w] # "idle" => work[w].file # None
         /\ pc[w] \notin {"idle", "kickoff", "requeue", "lookup", "pend"} => work[w].job # None
         /\ pc[w] = "write" => work[w].next # "none"

\* Whatever workers that overlap, fail and die leave behind, a file is shown as
\* analyzed, and its extraction as succeeded, only when its text is stored.
DoneMeansText ==
    /\ \A f \in Files : status[f] = "analyzed" => text[f]
    /\ \A j \in Jobs : job[j].state = "succeeded" /\ job[j].stage # FollowUp
                         => text[job[j].file]

\* Two workers are at one job only after one has outlived its lease.
SoleWorker ==
    \A v, w \in Workers : v # w /\ HeldBy(v) = HeldBy(w) /\ HeldBy(v) # None
                            => job[HeldBy(v)].late

\* A job that succeeded is put back, or failed, only by workers that overlapped.
DoneStaysDone ==
    [][\A j \in Jobs : job[j].state = "succeeded" /\ Held(j) /\ ~ job[j].late
                         => job'[j].state = "succeeded"]_vars

\* A job whose worker died, or was forgotten, does not stay in processing.
LeaseReturned == \A j \in Jobs : job[j].state = "processing" ~> job[j].state # "processing"

Waiting(f) == status[f] = "pending"
Served(f)  == \E j \in Jobs : Active(j) /\ job[j].file = f

\* A file that waits gets what it waits for: one whose announcement died before it
\* enqueued is found again, and a mark that comes after the text was stored is
\* corrected.
WaitingEnds ==
    \A f \in Files : /\ (Waiting(f) /\ ~ Served(f)) ~> (~ Waiting(f) \/ Served(f))
                     /\ (Waiting(f) /\ text[f]) ~> (~ Waiting(f))

=============================================================================
