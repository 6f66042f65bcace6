--------------------------- MODULE ProcessingQueue ---------------------------
(***************************************************************************)
(* The durable queue: the rows of processing_items and processing_jobs and *)
(* every transaction of the program that changes them.  Each action is one *)
(* committed transaction; row locks (SELECT ... FOR UPDATE) make it        *)
(* atomic.  What decides WHICH transaction runs next (webhooks, Monday     *)
(* snapshots, the pipeline of a worker, the clock) is left open here:      *)
(* the callers may pass any identity, and any due or stale row may be      *)
(* taken.  SalesSync closes that environment.                              *)
(***************************************************************************)
EXTENDS Naturals

CONSTANTS
    Items,        \* Sales items, one processing_items row each at most
    Jobs,         \* numbers that processing_jobs rows take in the order of creation
    Workers,      \* worker ids (locked_by)
    Revisions,    \* input revisions: SHA-256 of an asset manifest
    Versions,     \* pipeline versions
    MaxAttempts,  \* max_attempts of every job
    NoIdentity,   \* latest_input_revision and latest_pipeline_version NULL
    NoWorker      \* locked_by NULL

ASSUME MaxAttemptsPositive == MaxAttempts \in Nat \ {0}
ASSUME JobsAreNumbered == Jobs \subseteq Nat
ASSUME NoWorkerIsNoWorker == NoWorker \notin Workers

Identities == [rev : Revisions, ver : Versions]

ASSUME NoIdentityIsNoIdentity == NoIdentity \notin Identities

WaitingStatuses  == {"scheduled", "retry_wait"}
ActiveStatuses   == WaitingStatuses \union {"running"}
TerminalStatuses == {"completed", "failed", "cancelled"}
JobStatuses      == ActiveStatuses \union TerminalStatuses
Stages           == {"extracting", "matching_account", "validating", "publishing"}
ItemStates       == {"absent", "scheduled", "processing", "analyzed", "publishing",
                     "completed", "ineligible", "failed"}

\* result_json: NULL, {"forceReprocess": true}, or the evidence accumulated up
\* to its "completedStage".
Checkpoints == {"none", "forced"} \union Stages

\* A processing_items row; "absent" stands for a row not inserted yet.
ItemRow == [latest : Identities \union {NoIdentity},
            state : ItemStates,
            superseding : BOOLEAN]   \* supersession_requested_at IS NOT NULL

\* A processing_jobs row.  Lease timestamps are in module WorkerLease.
JobRow == [item : Items, identity : Identities, status : JobStatuses,
           stage : Stages, attempts : Nat,
           owner : Workers \union {NoWorker}, checkpoint : Checkpoints]

NoJob == [status |-> "none"]   \* a number no row has taken yet

VARIABLES items, jobs

vars == <<items, jobs>>

\* Type invariant: the columns and CHECK constraints of the two tables; no row is
\* ever queued or charged outside of them.
TypeOK == /\ items \in [Items -> ItemRow]
          /\ jobs \in [Jobs -> JobRow \union {NoJob}]

Init == /\ items = [i \in Items |-> [latest |-> NoIdentity, state |-> "absent",
                                     superseding |-> FALSE]]
        /\ jobs = [j \in Jobs |-> NoJob]

-----------------------------------------------------------------------------
(* Queries.  rows is a value of jobs, possibly in the middle of a transaction. *)

Active(row) == row.status \in ActiveStatuses

ActiveJobs(rows, i) == {j \in Jobs : Active(rows[j]) /\ rows[j].item = i}

Superseded(itemRow, jobRow) == itemRow.latest # jobRow.identity

\* lock_owned_job: the lease is still this worker's.
Owns(w, j) == jobs[j].status = "running" /\ jobs[j].owner = w

\* lock_owned_job, then the comparison that precedes every checkpoint.
OwnsCurrent(w, j) == Owns(w, j) /\ ~Superseded(items[jobs[j].item], jobs[j])

LeaseKept(jobRow) == jobRow

ReleasedLease(jobRow) == [jobRow EXCEPT !.owner = NoWorker]

-----------------------------------------------------------------------------
(* Intake *)

NewJob(i, id, stage, checkpoint) ==
    [item |-> i, identity |-> id, status |-> "scheduled", stage |-> stage,
     attempts |-> 0, owner |-> NoWorker, checkpoint |-> checkpoint]

IsNext(rows, j) == \A k \in Jobs : rows[k] = NoJob => j <= k

CoalesceLosesMarker(itemRow, jobRow, id) ==
    [latest |-> id,
     state |-> IF jobRow.status = "running" THEN "processing" ELSE "scheduled",
     superseding |-> itemRow.superseding]

Coalesced(itemRow, jobRow, id) ==
    [latest |-> id,
     state |-> IF jobRow.status = "running" THEN "processing" ELSE "scheduled",
     superseding |-> itemRow.superseding \/ jobRow.identity # id]

\* queue_sales_item_snapshot, as the last part of a transaction that has already
\* brought the tables to itemRows and jobRows.
QueueOn(itemRows, jobRows, i, id, forced) ==
    \/ \E j \in ActiveJobs(jobRows, i) :
          /\ ~forced
          /\ items' = [itemRows EXCEPT ![i] = Coalesced(itemRows[i], jobRows[j], id)]
          /\ jobs' = jobRows
    \/ /\ ActiveJobs(jobRows, i) = {}
       /\ \E j \in Jobs :
             /\ jobRows[j] = NoJob /\ IsNext(jobRows, j)
             /\ jobs' = [jobRows EXCEPT ![j] =
                            NewJob(i, id, "extracting",
                                   IF forced THEN "forced" ELSE "none")]
       /\ items' = [itemRows EXCEPT ![i].latest = id, ![i].state = "scheduled"]

\* Webhook intake, `operator enqueue` and `operator reconcile` of an eligible item.
QueueSnapshot(i, id, forced) == QueueOn(items, jobs, i, id, forced)

\* `operator reconcile` of an item that Monday shows ineligible: waiting jobs are
\* cancelled, a running one is left to its worker.
ReconcileIneligible(i) ==
    LET running == {j \in ActiveJobs(jobs, i) : jobs[j].status = "running"}
    IN  /\ jobs' = [j \in Jobs |->
                      IF j \in ActiveJobs(jobs, i) \ running
                      THEN [ReleasedLease(jobs[j]) EXCEPT !.status = "cancelled"]
                      ELSE jobs[j]]
        /\ items' = [items EXCEPT ![i] = [latest |-> NoIdentity, state |-> "ineligible",
                                          superseding |-> running # {}]]

RetryWithoutActiveCheck(j) ==
    LET i == jobs[j].item IN
    /\ jobs[j].status = "failed"
    /\ ~Superseded(items[i], jobs[j])
    /\ \E new \in Jobs :
          /\ jobs[new] = NoJob /\ IsNext(jobs, new)
          /\ jobs' = [jobs EXCEPT ![new] = NewJob(i, jobs[j].identity, jobs[j].stage,
                                                  jobs[j].checkpoint)]
    /\ items' = [items EXCEPT ![i].state = "scheduled", ![i].superseding = FALSE]

RetryFromTheStart(j) ==
    LET i == jobs[j].item IN
    /\ jobs[j].status = "failed"
    /\ ~Superseded(items[i], jobs[j])
    /\ ActiveJobs(jobs, i) = {}
    /\ \E new \in Jobs :
          /\ jobs[new] = NoJob /\ IsNext(jobs, new)
          /\ jobs' = [jobs EXCEPT ![new] = NewJob(i, jobs[j].identity, "extracting",
                                                  jobs[j].checkpoint)]
    /\ items' = [items EXCEPT ![i].state = "scheduled", ![i].superseding = FALSE]

\* `operator retry`: a new job that resumes the failed one at its checkpoint.
RetryFailedJob(j) ==
    LET i == jobs[j].item IN
    /\ jobs[j].status = "failed"
    /\ ~Superseded(items[i], jobs[j])
    /\ ActiveJobs(jobs, i) = {}
    /\ \E new \in Jobs :
          /\ jobs[new] = NoJob /\ IsNext(jobs, new)
          /\ jobs' = [jobs EXCEPT ![new] = NewJob(i, jobs[j].identity, jobs[j].stage,
                                                  jobs[j].checkpoint)]
    /\ items' = [items EXCEPT ![i].state = "scheduled", ![i].superseding = FALSE]

-----------------------------------------------------------------------------
(* The lease: claim, failure, recovery *)

ClaimUncharged(w, j) ==
    /\ jobs[j].status \in WaitingStatuses
    /\ jobs' = [jobs EXCEPT ![j] = [@ EXCEPT !.status = "running", !.owner = w]]
    /\ items' = [items EXCEPT ![jobs[j].item].state = "processing"]

Claim(w, j) ==
    /\ jobs[j].status \in WaitingStatuses
    /\ jobs' = [jobs EXCEPT ![j] = [@ EXCEPT !.status = "running", !.owner = w,
                                             !.attempts = jobs[j].attempts + 1]]
    /\ items' = [items EXCEPT ![jobs[j].item].state = "processing"]

\* The job waits for another attempt; its stage and checkpoint stay.
Rescheduled(j, attempts) ==
    /\ jobs' = [jobs EXCEPT ![j] = [ReleasedLease(@) EXCEPT !.status = "retry_wait",
                                                            !.attempts = attempts]]
    /\ items' = [items EXCEPT ![jobs[j].item].state = "scheduled"]

FailedAlways(j) ==
    /\ jobs' = [jobs EXCEPT ![j] = [ReleasedLease(@) EXCEPT !.status = "failed"]]
    /\ items' = [items EXCEPT ![jobs[j].item].state = "failed"]

\* The job ends; its item follows only if it still wants this job's input.
Failed(j) ==
    /\ jobs' = [jobs EXCEPT ![j] = [ReleasedLease(@) EXCEPT !.status = "failed"]]
    /\ items' = [items EXCEPT ![jobs[j].item].state =
                    IF Superseded(items[jobs[j].item], jobs[j]) THEN @ ELSE "failed"]

\* retry_or_fail_job, by the kind of the error.
FailPermanently(w, j) == Owns(w, j) /\ Failed(j)

RetryPastBudget(w, j) ==
    /\ Owns(w, j)
    /\ IF jobs[j].attempts <= MaxAttempts THEN Rescheduled(j, jobs[j].attempts)
                                          ELSE Failed(j)

FailRetryably(w, j) ==
    /\ Owns(w, j)
    /\ IF jobs[j].attempts < MaxAttempts THEN Rescheduled(j, jobs[j].attempts)
                                         ELSE Failed(j)

\* A capacity limit of Monday: the attempt is given back.  The code's max(0, ...) is
\* left out: a running job has an attempt to give back (AttemptBudget).
Defer(w, j) == Owns(w, j) /\ Rescheduled(j, jobs[j].attempts - 1)

RecoverUnfiltered(j) ==
    /\ jobs[j] # NoJob
    /\ IF jobs[j].attempts < MaxAttempts THEN Rescheduled(j, jobs[j].attempts)
                                         ELSE Failed(j)

\* recover_stale_jobs, for one row of its loop: rows another transaction has
\* locked are skipped and rows of one transaction belong to different items, so
\* a run over several rows reaches no state that single rows do not.
RecoverStale(j) ==
    /\ jobs[j].status = "running"
    /\ IF jobs[j].attempts < MaxAttempts THEN Rescheduled(j, jobs[j].attempts)
                                         ELSE Failed(j)

-----------------------------------------------------------------------------
(* Checkpoints of the pipeline *)

\* The stage whose result each later stage resumes from.
StageBefore == [matching_account |-> "extracting", validating |-> "matching_account",
                publishing |-> "validating"]

\* _current_result: the stored result is the one the stage resumes from; if it is
\* not, the RuntimeError ends the attempt (FailRetryably).
CurrentResult(j) == jobs[j].stage # "extracting" => jobs[j].checkpoint = StageBefore[jobs[j].stage]

\* A stage commits its result and hands over to the next.
Advance(w, j, from, to, itemState) ==
    /\ OwnsCurrent(w, j)
    /\ jobs[j].stage = from /\ CurrentResult(j)
    /\ jobs' = [jobs EXCEPT ![j] = [@ EXCEPT !.stage = to, !.checkpoint = from]]
    /\ items' = [items EXCEPT ![jobs[j].item].state = itemState]

CheckpointExtraction(w, j) ==
    Advance(w, j, "extracting", "matching_account", "processing")

CheckpointMatching(w, j) ==
    Advance(w, j, "matching_account", "validating", "analyzed")

CheckpointValidation(w, j) ==
    Advance(w, j, "validating", "publishing", "publishing")

CompletedAlways(w, j, checkpoint) ==
    /\ jobs' = [jobs EXCEPT ![j] = [ReleasedLease(@) EXCEPT !.status = "completed",
                                                            !.checkpoint = checkpoint]]
    /\ items' = [items EXCEPT ![jobs[j].item].state = "completed",
                              ![jobs[j].item].superseding = FALSE]

\* complete_job, whose callers hold the lease.
Completed(w, j, checkpoint) ==
    /\ jobs' = [jobs EXCEPT ![j] = [ReleasedLease(@) EXCEPT !.status = "completed",
                                                            !.checkpoint = checkpoint]]
    /\ items' = IF Superseded(items[jobs[j].item], jobs[j]) THEN items
                ELSE [items EXCEPT ![jobs[j].item].state = "completed",
                                   ![jobs[j].item].superseding = FALSE]

\* Validation in shadow mode ends the job.
CompleteShadow(w, j) ==
    /\ OwnsCurrent(w, j)
    /\ jobs[j].stage = "validating" /\ CurrentResult(j)
    /\ Completed(w, j, "validating")

CompleteUnchecked(w, j) ==
    /\ Owns(w, j)
    /\ jobs[j].stage = "publishing" /\ CurrentResult(j)
    /\ CompletedAlways(w, j, "publishing")

CompletePublication(w, j) ==
    /\ OwnsCurrent(w, j)
    /\ jobs[j].stage = "publishing" /\ CurrentResult(j)
    /\ Completed(w, j, "publishing")

SupersedeWithoutSuccessor(w, j, snapshot) ==
    LET i == jobs[j].item
    IN  /\ Owns(w, j)
        /\ jobs' = [jobs EXCEPT ![j] = [ReleasedLease(@) EXCEPT !.status = "cancelled"]]
        /\ items' = [items EXCEPT ![i].latest = snapshot, ![i].state = "scheduled",
                                  ![i].superseding = TRUE]

\* _replace_with_snapshot: the job is cancelled and, if the snapshot is eligible,
\* a successor for its revision is queued in the same transaction.
Supersede(w, j, snapshot) ==
    LET i == jobs[j].item
        cancelled == [jobs EXCEPT ![j] = [ReleasedLease(@) EXCEPT !.status = "cancelled"]]
    IN  /\ Owns(w, j)
        /\ \/ /\ snapshot = NoIdentity
              /\ jobs' = cancelled
              /\ items' = [items EXCEPT ![i] = [latest |-> NoIdentity, state |-> "ineligible",
                                                superseding |-> FALSE]]
           \/ /\ snapshot \in Identities
              /\ snapshot.ver = jobs[j].identity.ver
              /\ QueueOn([items EXCEPT ![i].latest = snapshot, ![i].superseding = TRUE],
                         cancelled, i, snapshot, FALSE)

-----------------------------------------------------------------------------
WorkerStep(w, j) ==
    \/ Claim(w, j)
    \/ FailPermanently(w, j) \/ FailRetryably(w, j) \/ Defer(w, j)
    \/ CheckpointExtraction(w, j) \/ CheckpointMatching(w, j) \/ CheckpointValidation(w, j)
    \/ CompleteShadow(w, j) \/ CompletePublication(w, j)
    \/ \E snapshot \in Identities \union {NoIdentity} : Supersede(w, j, snapshot)

Next ==
    \/ \E i \in Items, id \in Identities, forced \in BOOLEAN : QueueSnapshot(i, id, forced)
    \/ \E i \in Items : ReconcileIneligible(i)
    \/ \E j \in Jobs : RetryFailedJob(j) \/ RecoverStale(j)
    \/ \E w \in Workers, j \in Jobs : WorkerStep(w, j)

Spec == Init /\ [][Next]_vars

-----------------------------------------------------------------------------
(* Invariants *)

HasActiveJob(i) == ActiveJobs(jobs, i) # {}

Ended(i, status) == \E j \in Jobs : /\ jobs[j].status = status
                                   /\ jobs[j].item = i
                                   /\ jobs[j].identity = items[i].latest

\* At most one scheduled, running or retry_wait job per Sales item, across intake,
\* operator commands and the successors a worker queues (uq_processing_jobs_active_item).
OneActiveJobPerItem ==
    \A j1, j2 \in Jobs :
        Active(jobs[j1]) /\ Active(jobs[j2]) /\ jobs[j1].item = jobs[j2].item => j1 = j2

\* A row names a lease owner exactly while it runs, so that no finished or waiting
\* job can be checkpointed through a lease somebody still believes to hold.
LeaseOnlyWhileRunning ==
    \A j \in Jobs : jobs[j] # NoJob => (jobs[j].owner # NoWorker <=> jobs[j].status = "running")

\* Attempts never exceed the budget although claiming does not look at it; a
\* running job has been charged for its attempt (so the retry delay, which
\* rejects attempt 0, can always be computed) and a waiting one can be claimed again.
AttemptBudget ==
    \A j \in Jobs : jobs[j] # NoJob =>
        /\ jobs[j].attempts <= MaxAttempts
        /\ jobs[j].status = "running" => jobs[j].attempts >= 1
        /\ jobs[j].status \in WaitingStatuses => jobs[j].attempts < MaxAttempts

\* A job that can still run, or be cloned by `operator retry`, holds exactly the
\* checkpoint its stage resumes from: _current_result never raises.
ResumableCheckpoint ==
    \A j \in Jobs : Active(jobs[j]) \/ jobs[j].status = "failed" =>
        IF jobs[j].stage = "extracting" THEN jobs[j].checkpoint \in {"none", "forced"}
        ELSE jobs[j].checkpoint = StageBefore[jobs[j].stage]

\* The state an operator sees on the item is the state of its jobs.
ItemStateIsTruthful ==
    /\ \A j \in Jobs : Active(jobs[j]) =>
          IF jobs[j].status = "running"
          THEN items[jobs[j].item].state \in {"processing", "analyzed", "publishing", "ineligible"}
          ELSE items[jobs[j].item].state = "scheduled"
    /\ \A i \in Items :
          /\ items[i].state = "completed" => ~HasActiveJob(i) /\ Ended(i, "completed")
          /\ items[i].state = "failed"    => ~HasActiveJob(i) /\ Ended(i, "failed")
          /\ items[i].state = "absent"    => ~HasActiveJob(i)
          /\ items[i].state \in {"ineligible", "absent"} => items[i].latest = NoIdentity

\* While a job works on an input the item no longer wants, the supersession
\* request is on record; an item that wants an input no active job works on, and
\* that is neither completed nor failed, carries the request too.
SupersessionIsRecorded ==
    /\ \A j \in Jobs : Active(jobs[j]) /\ Superseded(items[jobs[j].item], jobs[j])
                          => items[jobs[j].item].superseding
    /\ \A i \in Items :
          /\ items[i].latest # NoIdentity /\ ~HasActiveJob(i)
          /\ items[i].state \notin {"completed", "failed"}
          => items[i].superseding

\* The input an item wants is being worked on or has an outcome of its own:
\* "If Monday or a newer webhook exposes changed Email input, the worker cancels
\* the leased job and creates an immutable successor for the authoritative snapshot."
WantedInputHasAJob ==
    \A i \in Items : items[i].latest # NoIdentity =>
        HasActiveJob(i) \/ Ended(i, "completed") \/ Ended(i, "failed")

-----------------------------------------------------------------------------
(* What a step may never do *)

StageRank(stage) == CASE stage = "extracting"       -> 1
                      [] stage = "matching_account" -> 2
                      [] stage = "validating"       -> 3
                      [] stage = "publishing"       -> 4

\* A job row lives its life once: the input identity is fixed, stages are never
\* revisited however often the job is retried or recovered, and no end is undone.
JobsOnlyMoveForward ==
    [][\A j \in Jobs : jobs[j] # NoJob =>
          /\ jobs'[j] # NoJob
          /\ jobs'[j].item = jobs[j].item /\ jobs'[j].identity = jobs[j].identity
          /\ StageRank(jobs[j].stage) <= StageRank(jobs'[j].stage)
          /\ jobs[j].status \in TerminalStatuses => jobs'[j] = jobs[j]]_vars

\* A result is only recorded for the input the item wants at that moment, and
\* from a lease: no zombie and no superseded job completes.
OnlyCurrentInputCompletes ==
    [][\A j \in Jobs : jobs'[j].status = "completed" /\ jobs[j] # jobs'[j] =>
          /\ jobs[j].status = "running"
          /\ items[jobs[j].item].latest = jobs[j].identity
          /\ items'[jobs[j].item].state = "completed"
          /\ ~items'[jobs[j].item].superseding]_vars

-----------------------------------------------------------------------------
(* The abstract view: one input wanted and at most one worked on per item *)

WorkedOn(i) == {jobs[j].identity : j \in ActiveJobs(jobs, i)}

EndedInputs(i, status) ==
    {jobs[j].identity : j \in {k \in Jobs : jobs[k].status = status /\ jobs[k].item = i}}

Work == INSTANCE ItemWork WITH
            wanted  <- [i \in Items |-> items[i].latest],
            working <- [i \in Items |-> WorkedOn(i)],
            done    <- [i \in Items |-> EndedInputs(i, "completed")],
            failed  <- [i \in Items |-> EndedInputs(i, "failed")]

\* Whatever the rows go through, every transaction is one step of ItemWork: work is
\* given up only with an outcome or for a newer decision, results are of wanted
\* inputs, and nothing an item lost comes back but by a retry of a wanted failure.
RefinesItemWork == Work!Spec
=============================================================================
