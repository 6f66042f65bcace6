--------------------------- MODULE SalesSyncProofs ---------------------------
(***************************************************************************)
(* What SalesSync states about safety holds for every number of items,     *)
(* webhooks, workers, jobs, failures and commands.                         *)
(*                                                                         *)
(* Every step is a transaction of ProcessingQueue or leaves its tables     *)
(* alone (StepsAreTransactions), so the queue's inductive invariant is     *)
(* kept.  SyncIInv adds what workers hold in memory, and what of it may be *)
(* stale.  KeptIInv is about inputs: whoever may still commit a stale      *)
(* snapshot is followed by a webhook that tells the present one.           *)
(***************************************************************************)
EXTENDS SalesSync, ProcessingQueueProofs

\* Webhooks that intake still has to take in.
DueOrSent == {"sent", "received", "retry"}

Intake(w) == worker[w].phase = "intake"

\* A webhook of the item that nobody has begun to take in.
Unseen(i) ==
    \E e \in Events : /\ events[e].status \in DueOrSent /\ events[e].item = i
                      /\ \A w \in Workers : Intake(w) => e \notin worker[w].batch

\* The item will be read once more, or is read as Monday shows it.
ToBeTakenIn(i) == Unseen(i) \/ IntakeRunning(i)

AttemptsLeft ==
    \A e \in Events : events[e].status \in DueOrSent => events[e].attempts < MaxIntakeAttempts

BatchIsDue ==
    \A w \in Workers : Intake(w) =>
        /\ worker[w].batch # {}
        /\ \A e \in worker[w].batch : /\ events[e].status \in {"received", "retry"}
                                      /\ events[e].item = worker[w].item

OneIntakePerItem ==
    \A v, w \in Workers : Intake(v) /\ Intake(w) /\ worker[v].item = worker[w].item => v = w

\* An edit that an intake did not see has sent a webhook which is in no batch.
StaleIntakeIsFollowed ==
    \A w \in Workers : Intake(w) /\ worker[w].seen # live[worker[w].item] =>
        Unseen(worker[w].item)

ReplacementIsRead ==
    \A w \in Workers : worker[w].phase = "replace" => worker[w].seen \in Snapshots

\* The stages in which a job may complete.
MayComplete(j) ==
    \/ jobs[j].stage = "publishing"
    \/ jobs[j].stage = "validating" /\ ~PublicationAllowed

\* w is about to commit such a stage with the lease still its own.
Completes(w) ==
    worker[w].phase = "commit" /\ Owns(w, worker[w].job) /\ MayComplete(worker[w].job)

ReadBeforeCompletion ==
    \A w \in Workers : Completes(w) => worker[w].seen = jobs[worker[w].job].identity.rev

SyncIInv ==
    /\ IInv
    /\ SyncTypeOK
    /\ AttemptsLeft /\ BatchIsDue /\ OneIntakePerItem /\ StaleIntakeIsFollowed
    /\ ReplacementIsRead
    /\ ReadBeforeCompletion

\* Somebody has seen the present input, or will see it, or was told of a failure.
Told(i) == live[i] = NoEmail \/ ReportedFailure(i) \/ ToBeTakenIn(i)

\* Who completes a job with an input that has changed since it was read is followed by
\* a webhook of the change, unless the item wants another input already.
StaleCompletionIsFollowed ==
    \A w \in Workers : Completes(w) =>
        LET j == worker[w].job
            i == jobs[j].item
        IN  Superseded(items[i], jobs[j]) \/ jobs[j].identity.rev = live[i] \/ Told(i)

\* No input gets lost: there is a job that will read it, a result for it, or news of it.
InputIsKept ==
    \A i \in Items : \/ items[i].state = "ineligible" \/ HasActiveJob(i)
                     \/ Settled(i) \/ Told(i)

\* No edit falls between the read and the commit of `operator enqueue` and `reconcile`.
CommandIsUpToDate == operator # OperatorIdle => operator.seen = live[operator.item]

KeptIInv == SyncIInv /\ StaleCompletionIsFollowed /\ InputIsKept

-----------------------------------------------------------------------------
(* What a transaction of the queue does to the rows of an item *)

\* The transactions of a worker that move its job on or end it.
MovesJob(w, j) ==
    \/ Claim(w, j)
    \/ FailPermanently(w, j) \/ FailRetryably(w, j) \/ Defer(w, j)
    \/ CheckpointExtraction(w, j) \/ CheckpointMatching(w, j) \/ CheckpointValidation(w, j)

CompletesJob(w, j) == CompleteShadow(w, j) \/ CompletePublication(w, j)

\* Only row j is written; its item wants what it wanted.
MovedRow(j, status) ==
    /\ \A k \in Jobs \ {j} : jobs'[k] = jobs[k]
    /\ jobs'[j].status = status
    /\ jobs'[j].item = jobs[j].item /\ jobs'[j].identity = jobs[j].identity
    /\ \A i \in Items : items'[i].latest = items[i].latest
    /\ \A i \in Items \ {jobs[j].item} : items'[i] = items[i]

LEMMA RowIsMoved ==
    ASSUME IInv, NEW j \in Jobs, Active(jobs[j]), NEW itemRow, NEW row,
           row.item = jobs[j].item, row.identity = jobs[j].identity,
           itemRow.latest = items[jobs[j].item].latest,
           jobs' = [jobs EXCEPT ![j] = row],
           items' = [items EXCEPT ![jobs[j].item] = itemRow]
    PROVE  MovedRow(j, row.status) /\ jobs'[j] = row
<1>1. /\ jobs[j].item \in Items /\ jobs'[j] = row
      /\ items'[jobs[j].item] = itemRow
      /\ \A i \in Items \ {jobs[j].item} : items'[i] = items[i]
      /\ \A k \in Jobs \ {j} : jobs'[k] = jobs[k]
  BY ActiveFacts DEF IInv, TypeOK
<1> QED
  BY <1>1 DEF MovedRow

LEMMA ReschedulingMoves ==
    ASSUME IInv, NEW j \in Jobs, Active(jobs[j]), NEW a, Rescheduled(j, a)
    PROVE  MovedRow(j, "retry_wait")
<1> DEFINE row == [ReleasedLease(jobs[j]) EXCEPT !.status = "retry_wait", !.attempts = a]
           itemRow == [items[jobs[j].item] EXCEPT !.state = "scheduled"]
<1>1. /\ row.item = jobs[j].item /\ row.identity = jobs[j].identity /\ row.status = "retry_wait"
      /\ itemRow.latest = items[jobs[j].item].latest
  BY ActiveFacts DEF JobRow, ItemRow, ReleasedLease
<1>2. jobs' = [jobs EXCEPT ![j] = row] /\ items' = [items EXCEPT ![jobs[j].item] = itemRow]
  BY DEF Rescheduled
<1> HIDE DEF row, itemRow
<1> QED
  BY <1>1, <1>2, RowIsMoved

LEMMA FailingMoves ==
    ASSUME IInv, NEW j \in Jobs, Active(jobs[j]), Failed(j)
    PROVE  MovedRow(j, "failed")
<1> DEFINE row == [ReleasedLease(jobs[j]) EXCEPT !.status = "failed"]
           itemRow == [items[jobs[j].item] EXCEPT !.state =
                          IF Superseded(items[jobs[j].item], jobs[j]) THEN @ ELSE "failed"]
<1>1. /\ row.item = jobs[j].item /\ row.identity = jobs[j].identity /\ row.status = "failed"
      /\ itemRow.latest = items[jobs[j].item].latest
  BY ActiveFacts DEF JobRow, ItemRow, ReleasedLease
<1>2. jobs' = [jobs EXCEPT ![j] = row] /\ items' = [items EXCEPT ![jobs[j].item] = itemRow]
  BY DEF Failed
<1> HIDE DEF row, itemRow
<1> QED
  BY <1>1, <1>2, RowIsMoved

LEMMA AdvancingMoves ==
    ASSUME IInv, NEW w \in Workers, NEW j \in Jobs, NEW from, NEW to, NEW itemState,
           Advance(w, j, from, to, itemState)
    PROVE  Active(jobs[j]) /\ MovedRow(j, "running") /\ jobs'[j].owner = w
<1> DEFINE row == [jobs[j] EXCEPT !.stage = to, !.checkpoint = from]
           itemRow == [items[jobs[j].item] EXCEPT !.state = itemState]
<1>1. Active(jobs[j]) /\ jobs[j].status = "running" /\ jobs[j].owner = w
  BY DEF Advance, OwnsCurrent, Owns, Active, ActiveStatuses
<1>2. /\ row.item = jobs[j].item /\ row.identity = jobs[j].identity /\ row.status = "running"
      /\ row.owner = w /\ itemRow.latest = items[jobs[j].item].latest
  BY <1>1, ActiveFacts DEF JobRow, ItemRow
<1>3. jobs' = [jobs EXCEPT ![j] = row] /\ items' = [items EXCEPT ![jobs[j].item] = itemRow]
  BY DEF Advance
<1> HIDE DEF row, itemRow
<1>4. MovedRow(j, row.status) /\ jobs'[j] = row
  BY <1>1, <1>2, <1>3, RowIsMoved
<1> QED
  BY <1>1, <1>2, <1>4

LEMMA ClaimingMoves ==
    ASSUME IInv, NEW w \in Workers, NEW j \in Jobs, Claim(w, j)
    PROVE  Active(jobs[j]) /\ MovedRow(j, "running") /\ jobs'[j].owner = w
<1> DEFINE n == jobs[j].attempts + 1
           row == [jobs[j] EXCEPT !.status = "running", !.owner = w, !.attempts = n]
           itemRow == [items[jobs[j].item] EXCEPT !.state = "processing"]
<1>1. Active(jobs[j])
  BY DEF Claim, Active, ActiveStatuses
<1> HIDE DEF n
<1>2. /\ row.item = jobs[j].item /\ row.identity = jobs[j].identity /\ row.status = "running"
      /\ row.owner = w /\ itemRow.latest = items[jobs[j].item].latest
  BY <1>1, ActiveFacts DEF JobRow, ItemRow
<1>3. jobs' = [jobs EXCEPT ![j] = row] /\ items' = [items EXCEPT ![jobs[j].item] = itemRow]
  BY DEF Claim, n
<1> HIDE DEF row, itemRow
<1> QED
  BY <1>1, <1>2, <1>3, RowIsMoved

LEMMA CompletionMoves ==
    ASSUME IInv, NEW w \in Workers, NEW j \in Jobs, CompletesJob(w, j)
    PROVE  /\ Active(jobs[j]) /\ Owns(w, j) /\ ~Superseded(items[jobs[j].item], jobs[j])
           /\ MovedRow(j, "completed")
<1>1. PICK checkpoint \in Stages : OwnsCurrent(w, j) /\ Completed(w, j, checkpoint)
  BY DEF CompletesJob, CompleteShadow, CompletePublication, Stages
<1> DEFINE row == [ReleasedLease(jobs[j]) EXCEPT !.status = "completed",
                                                 !.checkpoint = checkpoint]
           itemRow == [items[jobs[j].item] EXCEPT !.state = "completed", !.superseding = FALSE]
<1>2. Active(jobs[j]) /\ Owns(w, j) /\ ~Superseded(items[jobs[j].item], jobs[j])
  BY <1>1 DEF OwnsCurrent, Owns, Active, ActiveStatuses
<1>3. /\ row.item = jobs[j].item /\ row.identity = jobs[j].identity /\ row.status = "completed"
      /\ itemRow.latest = items[jobs[j].item].latest
  BY <1>2, ActiveFacts DEF JobRow, ItemRow, ReleasedLease
<1>4. jobs' = [jobs EXCEPT ![j] = row] /\ items' = [items EXCEPT ![jobs[j].item] = itemRow]
  BY <1>1, <1>2 DEF Completed
<1> HIDE DEF row, itemRow
<1> QED
  BY <1>2, <1>3, <1>4, RowIsMoved

LEMMA WorkerMovesRow ==
    ASSUME IInv, NEW w \in Workers, NEW j \in Jobs, MovesJob(w, j)
    PROVE  /\ Active(jobs[j])
           /\ \E status \in {"running", "retry_wait", "failed"} : MovedRow(j, status)
           /\ jobs'[j].status = "running" => jobs'[j].owner = w
<1>1. CASE Claim(w, j)
  BY <1>1, ClaimingMoves
<1>2. CASE FailPermanently(w, j) \/ FailRetryably(w, j) \/ Defer(w, j)
  <2>1. Active(jobs[j])
    BY <1>2 DEF FailPermanently, FailRetryably, Defer, Owns, Active, ActiveStatuses
  <2>2. Failed(j) \/ \E a : Rescheduled(j, a)
    BY <1>2 DEF FailPermanently, FailRetryably, Defer
  <2>3. MovedRow(j, "failed") \/ MovedRow(j, "retry_wait")
    BY <2>1, <2>2, FailingMoves, ReschedulingMoves
  <2> QED
    BY <2>1, <2>3 DEF MovedRow
<1>3. CASE CheckpointExtraction(w, j) \/ CheckpointMatching(w, j) \/ CheckpointValidation(w, j)
  BY <1>3, AdvancingMoves DEF CheckpointExtraction, CheckpointMatching, CheckpointValidation
<1> QED
  BY <1>1, <1>2, <1>3 DEF MovesJob

LEMMA RecoveryMovesRow ==
    ASSUME IInv, NEW j \in Jobs, RecoverStale(j)
    PROVE  /\ Active(jobs[j])
           /\ \E status \in {"retry_wait", "failed"} : MovedRow(j, status)
<1>1. Active(jobs[j])
  BY DEF RecoverStale, Active, ActiveStatuses
<1>2. Failed(j) \/ \E a : Rescheduled(j, a)
  BY DEF RecoverStale
<1> QED
  BY <1>1, <1>2, FailingMoves, ReschedulingMoves

\* Rows are left alone but for a new one of item i, which is scheduled.
AddsRow(i, rows) ==
    \A k \in Jobs : \/ jobs'[k] = rows[k]
                    \/ rows[k] = NoJob /\ jobs'[k].status = "scheduled" /\ jobs'[k].item = i

LEMMA QueueOnAddsRow ==
    ASSUME NEW itemRows, NEW rows \in [Jobs -> JobRow \union {NoJob}], NEW i, NEW id, NEW forced,
           i \in Items, itemRows \in [Items -> ItemRow], QueueOn(itemRows, rows, i, id, forced)
    PROVE  /\ AddsRow(i, rows) /\ HasActiveJob(i)'
           /\ items'[i].latest = id
           /\ \A k \in Items \ {i} : items'[k] = itemRows[k]
<1>1. CASE \E j \in ActiveJobs(rows, i) :
              /\ items' = [itemRows EXCEPT ![i] = Coalesced(itemRows[i], rows[j], id)]
              /\ jobs' = rows
  BY <1>1 DEF AddsRow, HasActiveJob, ActiveJobs, Coalesced
<1>2. CASE /\ \E j \in Jobs : /\ rows[j] = NoJob
                              /\ jobs' = [rows EXCEPT ![j] =
                                    NewJob(i, id, "extracting", IF forced THEN "forced" ELSE "none")]
           /\ items' = [itemRows EXCEPT ![i].latest = id, ![i].state = "scheduled"]
  <2>1. PICK j \in Jobs : /\ rows[j] = NoJob
                          /\ jobs' = [rows EXCEPT ![j] =
                                NewJob(i, id, "extracting", IF forced THEN "forced" ELSE "none")]
    BY <1>2
  <2>2. jobs'[j].status = "scheduled" /\ jobs'[j].item = i
        /\ \A k \in Jobs \ {j} : jobs'[k] = rows[k]
    BY <2>1 DEF NewJob
  <2>3. AddsRow(i, rows)
    BY <2>1, <2>2 DEF AddsRow
  <2>4. HasActiveJob(i)'
    BY <2>2 DEF HasActiveJob, ActiveJobs, Active, ActiveStatuses, WaitingStatuses
  <2>5. items'[i].latest = id /\ \A k \in Items \ {i} : items'[k] = itemRows[k]
    BY <1>2 DEF ItemRow
  <2> QED
    BY <2>3, <2>4, <2>5
<1> QED
  BY <1>1, <1>2 DEF QueueOn

LEMMA SnapshotAddsRow ==
    ASSUME IInv, NEW i \in Items, NEW id, NEW forced, QueueSnapshot(i, id, forced)
    PROVE  /\ AddsRow(i, jobs) /\ HasActiveJob(i)'
           /\ items'[i].latest = id
           /\ \A k \in Items \ {i} : items'[k] = items[k]
<1>1. jobs \in [Jobs -> JobRow \union {NoJob}] /\ items \in [Items -> ItemRow]
  BY DEF IInv, TypeOK
<1> QED
  BY <1>1, QueueOnAddsRow DEF QueueSnapshot

LEMMA RetryAddsRow ==
    ASSUME IInv, NEW j \in Jobs, RetryFailedJob(j), NEW i, i = jobs[j].item
    PROVE  /\ i \in Items
           /\ AddsRow(i, jobs) /\ HasActiveJob(i)' /\ ~HasActiveJob(i)
           /\ \A k \in Items : items'[k].latest = items[k].latest
           /\ \A k \in Items \ {i} : items'[k] = items[k]
<1>1. jobs[j] \in JobRow /\ i \in Items
  BY RowFacts DEF RetryFailedJob, IInv, TypeOK, JobRow, JobStatuses, TerminalStatuses
<1>2. PICK new \in Jobs : /\ jobs[new] = NoJob
                          /\ jobs' = [jobs EXCEPT ![new] = NewJob(i, jobs[j].identity,
                                                    jobs[j].stage, jobs[j].checkpoint)]
  BY DEF RetryFailedJob
<1>3. jobs'[new].status = "scheduled" /\ jobs'[new].item = i
      /\ \A k \in Jobs \ {new} : jobs'[k] = jobs[k]
  BY <1>2 DEF NewJob, IInv, TypeOK
<1>4. AddsRow(i, jobs)
  BY <1>2, <1>3 DEF AddsRow
<1>5. HasActiveJob(i)' /\ ~HasActiveJob(i)
  BY <1>3 DEF HasActiveJob, ActiveJobs, Active, ActiveStatuses, WaitingStatuses, RetryFailedJob
<1>6. \A k \in Items : items'[k].latest = items[k].latest /\ (k # i => items'[k] = items[k])
  BY <1>1 DEF RetryFailedJob, IInv, TypeOK, ItemRow
<1> QED
  BY <1>1, <1>4, <1>5, <1>6

LEMMA SupersedingMoves ==
    ASSUME IInv, NEW w \in Workers, NEW j \in Jobs, NEW snapshot, Supersede(w, j, snapshot),
           NEW i, i = jobs[j].item
    PROVE  /\ Active(jobs[j]) /\ Owns(w, j)
           /\ jobs'[j].status = "cancelled"
           /\ \A k \in Jobs \ {j} : \/ jobs'[k] = jobs[k]
                                    \/ /\ jobs[k] = NoJob /\ jobs'[k].status = "scheduled"
                                       /\ jobs'[k].item = i
           /\ \A k \in Items \ {i} : items'[k] = items[k]
           /\ HasActiveJob(i)' \/ items'[i].state = "ineligible"
<1> DEFINE row == [ReleasedLease(jobs[j]) EXCEPT !.status = "cancelled"]
           rows == [jobs EXCEPT ![j] = row]
           itemRows == [items EXCEPT ![i].latest = snapshot, ![i].superseding = TRUE]
<1>1. Owns(w, j) /\ Active(jobs[j])
  BY DEF Supersede, Owns, Active, ActiveStatuses
<1>2. row \in JobRow /\ row.status = "cancelled" /\ i \in Items
  BY <1>1, ActiveFacts DEF JobRow, ReleasedLease, JobStatuses, TerminalStatuses
<1>3. \/ /\ jobs' = rows
         /\ items' = [items EXCEPT ![i] = [latest |-> NoIdentity, state |-> "ineligible",
                                           superseding |-> FALSE]]
      \/ snapshot \in Identities /\ QueueOn(itemRows, rows, i, snapshot, FALSE)
  BY DEF Supersede
<1> HIDE DEF row
<1>4. /\ rows \in [Jobs -> JobRow \union {NoJob}] /\ rows[j] = row
      /\ \A k \in Jobs \ {j} : rows[k] = jobs[k]
  BY <1>2 DEF IInv, TypeOK
<1>5. snapshot \in Identities =>
         /\ itemRows \in [Items -> ItemRow]
         /\ \A k \in Items \ {i} : itemRows[k] = items[k]
  BY <1>2 DEF IInv, TypeOK, ItemRow
<1> HIDE DEF rows, itemRows
<1>6. CASE /\ jobs' = rows
           /\ items' = [items EXCEPT ![i] = [latest |-> NoIdentity, state |-> "ineligible",
                                             superseding |-> FALSE]]
  <2>1. items'[i].state = "ineligible" /\ \A k \in Items \ {i} : items'[k] = items[k]
    BY <1>2, <1>6 DEF IInv, TypeOK
  <2> QED
    BY <1>1, <1>2, <1>4, <1>6, <2>1
<1>7. CASE snapshot \in Identities /\ QueueOn(itemRows, rows, i, snapshot, FALSE)
  <2>1. /\ AddsRow(i, rows) /\ HasActiveJob(i)'
        /\ \A k \in Items \ {i} : items'[k] = itemRows[k]
    BY <1>2, <1>4, <1>5, <1>7, QueueOnAddsRow
  <2>2. rows[j] # NoJob
    BY <1>2, <1>4 DEF NoJob
  <2> QED
    BY <1>1, <1>2, <1>4, <1>5, <1>7, <2>1, <2>2 DEF AddsRow
<1> QED
  BY <1>3, <1>6, <1>7

-----------------------------------------------------------------------------
(* What the workers and the others do *)

\* What a worker holds in memory, by its phase.
LEMMA MemoryFacts ==
    ASSUME SyncTypeOK, NEW w \in Workers
    PROVE  /\ worker[w] \in {Idle} \union InIntake \union InPipeline
           /\ Intake(w) => worker[w] \in InIntake
           /\ worker[w].phase \in {"stage", "commit", "reread", "replace"} =>
                 worker[w] \in InPipeline /\ worker[w].job \in Jobs
           /\ Working(w) => worker[w] \in InPipeline /\ worker[w].job \in Jobs
<1>1. worker[w] \in {Idle} \union InIntake \union InPipeline
  BY DEF SyncTypeOK
<1> QED
  BY <1>1 DEF Idle, InIntake, InPipeline, Intake, Working

LEMMA OwnedRow ==
    ASSUME IInv, NEW w \in Workers, NEW j \in Jobs, Owns(w, j)
    PROVE  /\ Active(jobs[j]) /\ jobs[j] \in JobRow
           /\ jobs[j].item \in Items /\ jobs[j].identity \in Identities
<1>1. Active(jobs[j])
  BY DEF Owns, Active, ActiveStatuses
<1> QED
  BY <1>1, ActiveFacts DEF JobRow

LEMMA IdentitiesOfSnapshots ==
    ASSUME NEW snapshot \in Snapshots, NEW ver \in Versions
    PROVE  /\ IdentityOf(snapshot, ver) \in Identities \union {NoIdentity}
           /\ snapshot # NoEmail => /\ IdentityOf(snapshot, ver) \in Identities
                                    /\ IdentityOf(snapshot, ver).rev = snapshot
  BY DEF IdentityOf, Snapshots, Identities

PipelineAction(w) ==
    \/ \E j \in Jobs : ClaimJob(w, j)
    \/ SkipRead(w) \/ ReadInput(w) \/ CommitStage(w) \/ RereadInput(w) \/ ReplaceInput(w)
    \/ LoseLease(w) \/ FailJob(w) \/ DeferJob(w) \/ Crash(w)

\* The state of memory in which such an action leaves the worker.
LeavesIn(w, r) ==
    /\ worker' = [worker EXCEPT ![w] = r]
    /\ r.phase = "replace" => r.seen \in Snapshots
    /\ r.phase = "commit" => ReadInput(w) \/ SkipRead(w)

Surroundings == <<live, events, operator, commands>>

LEMMA IdleIsQuiet ==
    ASSUME NEW w \in Workers, worker' = [worker EXCEPT ![w] = Idle]
    PROVE  LeavesIn(w, Idle)
  BY DEF LeavesIn, Idle

\* What remains of the memory when a phase begins.
LEMMA NextPhase ==
    ASSUME NEW m \in InPipeline, NEW phase \in {"stage", "commit", "reread", "replace"},
           NEW seen \in Snapshots \union {Unread}
    PROVE  /\ [m EXCEPT !.phase = phase] = [phase |-> phase, job |-> m.job, seen |-> m.seen]
           /\ [m EXCEPT !.phase = phase, !.seen = seen]
                 = [phase |-> phase, job |-> m.job, seen |-> seen]
           /\ [phase |-> phase, job |-> m.job, seen |-> m.seen] \in InPipeline
           /\ [phase |-> phase, job |-> m.job, seen |-> seen] \in InPipeline
<1>1. /\ [phase |-> phase, job |-> m.job, seen |-> m.seen] \in InPipeline
      /\ [phase |-> phase, job |-> m.job, seen |-> seen] \in InPipeline
  BY DEF InPipeline
<1>2. [m EXCEPT !.phase = phase] = [phase |-> phase, job |-> m.job, seen |-> m.seen]
  BY DEF InPipeline
<1> DEFINE n == [m EXCEPT !.phase = phase]
<1>3. [m EXCEPT !.phase = phase, !.seen = seen] = [n EXCEPT !.seen = seen]
  OBVIOUS
<1>4. n = [phase |-> phase, job |-> m.job, seen |-> m.seen]
  BY <1>2
<1> HIDE DEF n
<1>5. [n EXCEPT !.seen = seen] = [phase |-> phase, job |-> m.job, seen |-> seen]
  BY <1>4
<1> QED
  BY <1>1, <1>2, <1>3, <1>5

LEMMA PipelineActs ==
    ASSUME SyncIInv, NEW w \in Workers, PipelineAction(w)
    PROVE  /\ \E r \in {Idle} \union InPipeline : LeavesIn(w, r)
           /\ UNCHANGED Surroundings /\ faults' \in 0 .. MaxFaults
           /\ UNCHANGED vars \/ \E j \in Jobs : WorkerStep(w, j)
<1> DEFINE j == worker[w].job
<1>1. /\ SyncTypeOK /\ IInv /\ live \in [Items -> Snapshots] /\ faults \in 0 .. MaxFaults
      /\ worker \in [Workers -> {Idle} \union InIntake \union InPipeline]
  BY DEF SyncIInv, SyncTypeOK
<1>2. Idle \in {Idle} \union InPipeline
  OBVIOUS
<1>3. ASSUME NEW k \in Jobs, ClaimJob(w, k)
      PROVE  /\ \E r \in {Idle} \union InPipeline : LeavesIn(w, r)
             /\ UNCHANGED Surroundings /\ UNCHANGED faults /\ WorkerStep(w, k)
  <2> DEFINE r == [phase |-> "stage", job |-> k, seen |-> Unread]
  <2>1. r \in InPipeline /\ LeavesIn(w, r)
    BY <1>3 DEF InPipeline, LeavesIn, ClaimJob
  <2> QED
    BY <1>3, <2>1 DEF ClaimJob, WorkerStep, Surroundings
<1>4. CASE SkipRead(w)
  <2> DEFINE r == [phase |-> "commit", job |-> j, seen |-> worker[w].seen]
  <2>1. worker[w] \in InPipeline
    BY <1>1, <1>4, MemoryFacts DEF SkipRead
  <2>2. r \in InPipeline /\ worker' = [worker EXCEPT ![w] = r]
    BY <1>4, <2>1, NextPhase DEF SkipRead
  <2>3. LeavesIn(w, r)
    BY <1>4, <2>2 DEF LeavesIn
  <2>4. UNCHANGED Surroundings /\ UNCHANGED vars /\ UNCHANGED faults
    BY <1>4 DEF SkipRead, Surroundings, vars
  <2> HIDE DEF r
  <2> QED
    BY <1>1, <2>2, <2>3, <2>4
<1>5. CASE ReadInput(w)
  <2> DEFINE seen == live[jobs[j].item]
             phase == IF seen = jobs[j].identity.rev THEN "commit"
                      ELSE IF jobs[j].stage = "publishing" THEN "reread" ELSE "replace"
             r == [phase |-> phase, job |-> j, seen |-> seen]
  <2>1. worker[w] \in InPipeline /\ j \in Jobs /\ Owns(w, j)
    BY <1>1, <1>5, MemoryFacts DEF ReadInput
  <2>2. seen \in Snapshots
    BY <1>1, <2>1, OwnedRow
  <2>3. worker' = [worker EXCEPT ![w] = r]
    BY <1>5 DEF ReadInput
  <2>4. phase \in {"commit", "reread", "replace"}
    OBVIOUS
  <2> HIDE DEF seen, phase
  <2>5. r \in InPipeline /\ LeavesIn(w, r)
    BY <1>5, <2>1, <2>2, <2>3, <2>4 DEF InPipeline, LeavesIn
  <2>6. UNCHANGED Surroundings /\ UNCHANGED vars /\ UNCHANGED faults
    BY <1>5 DEF ReadInput, Surroundings, vars
  <2> HIDE DEF r
  <2> QED
    BY <1>1, <2>5, <2>6
<1>6. CASE CommitStage(w)
  <2>1. worker[w] \in InPipeline /\ j \in Jobs
    BY <1>1, <1>6, MemoryFacts DEF CommitStage
  <2>2. UNCHANGED Surroundings /\ UNCHANGED faults
    BY <1>6 DEF CommitStage, Surroundings
  <2>3. CASE Checkpoint(w, j) /\ worker' = [worker EXCEPT ![w].phase = "stage", ![w].seen = Unread]
    <3> DEFINE r == [phase |-> "stage", job |-> j, seen |-> Unread]
    <3>1. r \in InPipeline /\ worker' = [worker EXCEPT ![w] = r]
      BY <1>1, <2>1, <2>3, NextPhase
    <3>2. LeavesIn(w, r)
      BY <3>1 DEF LeavesIn
    <3>3. WorkerStep(w, j)
      BY <2>3 DEF Checkpoint, WorkerStep
    <3> HIDE DEF r, j
    <3> QED
      BY <1>1, <2>1, <2>2, <3>1, <3>2, <3>3
  <2>4. CASE Complete(w, j) /\ worker' = [worker EXCEPT ![w] = Idle]
    <3>1. WorkerStep(w, j)
      BY <2>4 DEF Complete, WorkerStep
    <3>2. LeavesIn(w, Idle)
      BY <2>4, IdleIsQuiet
    <3> HIDE DEF j
    <3> QED
      BY <1>1, <1>2, <2>1, <2>2, <3>1, <3>2
  <2>5. CASE UNCHANGED <<items, jobs>> /\ worker' = [worker EXCEPT ![w].phase = "reread"]
    <3> DEFINE r == [phase |-> "reread", job |-> j, seen |-> worker[w].seen]
    <3>1. r \in InPipeline /\ worker' = [worker EXCEPT ![w] = r]
      BY <1>1, <2>1, <2>5, NextPhase
    <3>2. LeavesIn(w, r)
      BY <3>1 DEF LeavesIn
    <3>3. UNCHANGED vars
      BY <2>5 DEF vars
    <3> HIDE DEF r
    <3> QED
      BY <1>1, <2>2, <3>1, <3>2, <3>3
  <2> QED
    BY <1>6, <2>3, <2>4, <2>5 DEF CommitStage
<1>7. CASE RereadInput(w)
  <2> DEFINE seen == live[jobs[j].item]
             r == [phase |-> "replace", job |-> j, seen |-> seen]
  <2>1. worker[w] \in InPipeline /\ j \in Jobs /\ Owns(w, j)
    BY <1>1, <1>7, MemoryFacts DEF RereadInput
  <2>2. seen \in Snapshots
    BY <1>1, <2>1, OwnedRow
  <2>3. worker' = [worker EXCEPT ![w].phase = "replace", ![w].seen = seen]
    BY <1>7 DEF RereadInput
  <2> HIDE DEF seen
  <2>4. r \in InPipeline /\ worker' = [worker EXCEPT ![w] = r]
    BY <1>1, <2>1, <2>2, <2>3, NextPhase
  <2>5. LeavesIn(w, r)
    BY <2>2, <2>4 DEF LeavesIn
  <2>6. UNCHANGED Surroundings /\ UNCHANGED vars /\ UNCHANGED faults
    BY <1>7 DEF RereadInput, Surroundings, vars
  <2> HIDE DEF r
  <2> QED
    BY <1>1, <2>4, <2>5, <2>6
<1>8. CASE ReplaceInput(w)
  <2>1. worker[w] \in InPipeline /\ j \in Jobs /\ worker[w].seen \in Snapshots
    BY <1>1, <1>8, MemoryFacts DEF ReplaceInput, SyncIInv, ReplacementIsRead
  <2>2. Supersede(w, j, IdentityOf(worker[w].seen, jobs[j].identity.ver))
    BY <1>8 DEF ReplaceInput
  <2>3. jobs[j].identity.ver \in Versions
    BY <1>1, <2>1, <2>2, OwnedRow DEF Supersede, Identities
  <2>4. WorkerStep(w, j)
    BY <2>1, <2>2, <2>3, IdentitiesOfSnapshots DEF WorkerStep
  <2>5. LeavesIn(w, Idle) /\ UNCHANGED Surroundings /\ UNCHANGED faults
    BY <1>8, IdleIsQuiet DEF ReplaceInput, Surroundings
  <2> HIDE DEF j
  <2> QED
    BY <1>1, <1>2, <2>1, <2>4, <2>5
<1>9. CASE LoseLease(w) \/ Crash(w)
  <2>1. LeavesIn(w, Idle) /\ UNCHANGED Surroundings /\ UNCHANGED vars
    BY <1>9, IdleIsQuiet DEF LoseLease, Crash, Surroundings, vars
  <2>2. faults' \in 0 .. MaxFaults
    BY <1>1, <1>9, SyncBounds DEF LoseLease, Crash
  <2> QED
    BY <1>2, <2>1, <2>2
<1>10. CASE FailJob(w) \/ DeferJob(w)
  <2>1. j \in Jobs
    BY <1>1, <1>10, MemoryFacts DEF FailJob, DeferJob
  <2>2. WorkerStep(w, j)
    BY <1>10 DEF FailJob, DeferJob, WorkerStep
  <2>3. LeavesIn(w, Idle) /\ UNCHANGED Surroundings
    BY <1>10, IdleIsQuiet DEF FailJob, DeferJob, Surroundings
  <2>4. faults' \in 0 .. MaxFaults
    BY <1>1, <1>10, SyncBounds DEF FailJob, DeferJob
  <2> HIDE DEF j
  <2> QED
    BY <1>2, <2>1, <2>2, <2>3, <2>4
<1> QED
  BY <1>1, <1>3, <1>4, <1>5, <1>6, <1>7, <1>8, <1>9, <1>10 DEF PipelineAction

IntakeInv == AttemptsLeft /\ BatchIsDue /\ OneIntakePerItem /\ StaleIntakeIsFollowed

IntakeAction(w) ==
    (\E i \in Items : BeginIntake(w, i)) \/ CommitIntake(w) \/ FailIntake(w)

MondayAction ==
    \/ \E i \in Items, input \in Inputs : Edit(i, input)
    \/ \E e \in Events : Deliver(e) \/ RetryFailedWebhook(e)

\* Recovery, and the commands of the operator.
DeskAction ==
    \/ \E j \in Jobs : RecoverLease(j) \/ OperatorRetries(j)
    \/ \E i \in Items : OperatorReads(i)
    \/ OperatorCommits

\* The transactions that are no worker's.
QueueStep ==
    \/ \E i \in Items, id \in Identities, forced \in BOOLEAN : QueueSnapshot(i, id, forced)
    \/ \E i \in Items : ReconcileIneligible(i)
    \/ \E j \in Jobs : RetryFailedJob(j) \/ RecoverStale(j)

LEMMA WhoActs ==
    ASSUME SyncNext
    PROVE  \/ \E w \in Workers : PipelineAction(w) \/ IntakeAction(w)
           \/ MondayAction \/ DeskAction
  BY DEF SyncNext, WorkerProgress, PipelineAction, IntakeAction, MondayAction, DeskAction

LEMMA DeskActs ==
    ASSUME SyncIInv, DeskAction
    PROVE  /\ UNCHANGED <<live, events, worker, faults>>
           /\ operator' \in {OperatorIdle} \union [item : Items, seen : Snapshots]
           /\ commands' \in 0 .. MaxCommands
           /\ UNCHANGED vars \/ QueueStep
<1>1. /\ live \in [Items -> Snapshots] /\ commands \in 0 .. MaxCommands
      /\ operator \in {OperatorIdle} \union [item : Items, seen : Snapshots]
  BY DEF SyncIInv, SyncTypeOK
<1>2. CASE \E j \in Jobs : RecoverLease(j)
  BY <1>1, <1>2 DEF RecoverLease, QueueStep
<1>3. CASE \E j \in Jobs : OperatorRetries(j)
  <2>1. /\ UNCHANGED <<live, events, worker, operator, faults>> /\ QueueStep
        /\ commands < MaxCommands /\ commands' = commands + 1
    BY <1>3 DEF OperatorRetries, QueueStep
  <2> QED
    BY <1>1, <2>1, SyncBounds
<1>4. CASE \E i \in Items : OperatorReads(i)
  <2>1. /\ UNCHANGED <<live, events, worker, faults>> /\ UNCHANGED vars
        /\ commands < MaxCommands /\ commands' = commands + 1
        /\ operator' \in [item : Items, seen : Snapshots]
    BY <1>1, <1>4 DEF OperatorReads, vars
  <2> QED
    BY <1>1, <2>1, SyncBounds
<1>5. CASE OperatorCommits
  <2>1. operator.item \in Items /\ operator.seen \in Snapshots
    BY <1>1, <1>5 DEF OperatorCommits
  <2>2. UNCHANGED vars \/ QueueStep
    BY <1>5, <2>1, IdentitiesOfSnapshots DEF OperatorCommits, QueueStep, vars
  <2> QED
    BY <1>1, <1>5, <2>2 DEF OperatorCommits
<1> QED
  BY <1>2, <1>3, <1>4, <1>5 DEF DeskAction

\* The four ways in which an intake begins and ends.
LEMMA BeginningActs ==
    ASSUME SyncIInv, NEW w \in Workers, NEW i \in Items, BeginIntake(w, i)
    PROVE  /\ worker' \in [Workers -> {Idle} \union InIntake \union InPipeline]
           /\ \A v \in Workers \ {w} : worker'[v] = worker[v]
           /\ worker'[w].phase = "intake"
           /\ IntakeInv'
<1>1. /\ worker \in [Workers -> {Idle} \union InIntake \union InPipeline]
      /\ live \in [Items -> Snapshots] /\ IntakeInv
  BY DEF SyncIInv, SyncTypeOK, IntakeInv
<1>2. PICK batch \in DueBatches(i) :
         worker' = [worker EXCEPT ![w] = [phase |-> "intake", item |-> i,
                                          batch |-> batch, seen |-> live[i]]]
  BY DEF BeginIntake
<1>3. UNCHANGED <<live, events>> /\ \A v \in Workers : Intake(v) => worker[v].item # i
  BY DEF BeginIntake, IntakeRunning, Intake
<1>4. /\ batch \subseteq Events /\ batch # {}
      /\ \A e \in batch : events[e].status \in {"received", "retry"} /\ events[e].item = i
  BY <1>2 DEF DueBatches, OfItem
<1> DEFINE m == [phase |-> "intake", item |-> i, batch |-> batch, seen |-> live[i]]
<1>5. m \in InIntake /\ m.phase = "intake" /\ m.item = i /\ m.batch = batch /\ m.seen = live[i]
  BY <1>1, <1>4 DEF InIntake
<1> HIDE DEF m
<1>6. /\ worker' \in [Workers -> {Idle} \union InIntake \union InPipeline]
      /\ worker'[w] = m /\ \A v \in Workers \ {w} : worker'[v] = worker[v]
  BY <1>1, <1>2, <1>5 DEF m
<1>7. AttemptsLeft' /\ BatchIsDue' /\ OneIntakePerItem'
  <2>1. AttemptsLeft'
    BY <1>1, <1>3 DEF IntakeInv, AttemptsLeft
  <2>2. BatchIsDue'
    BY <1>1, <1>3, <1>4, <1>5, <1>6 DEF IntakeInv, BatchIsDue, Intake
  <2>3. OneIntakePerItem'
    BY <1>1, <1>3, <1>5, <1>6 DEF IntakeInv, OneIntakePerItem, Intake
  <2> QED
    BY <2>1, <2>2, <2>3
<1>8. ASSUME NEW v \in Workers, Intake(v)', worker'[v].seen # live'[worker'[v].item]
      PROVE  Unseen(worker[v].item)' /\ worker'[v] = worker[v]
  <2>1. v # w /\ worker'[v] = worker[v] /\ Intake(v)
    BY <1>3, <1>5, <1>6, <1>8 DEF Intake
  <2>2. Unseen(worker[v].item) /\ worker[v].item # i
    BY <1>1, <1>3, <1>8, <2>1 DEF IntakeInv, StaleIntakeIsFollowed
  <2>3. PICK e \in Events :
           /\ events[e].status \in DueOrSent /\ events[e].item = worker[v].item
           /\ \A u \in Workers : Intake(u) => e \notin worker[u].batch
    BY <2>2 DEF Unseen
  <2>4. \A u \in Workers : Intake(u)' => e \notin worker'[u].batch
    BY <1>4, <1>5, <1>6, <2>2, <2>3 DEF Intake
  <2> QED
    BY <1>3, <2>1, <2>3, <2>4 DEF Unseen
<1>9. StaleIntakeIsFollowed'
  BY <1>8 DEF StaleIntakeIsFollowed
<1> QED
  BY <1>5, <1>6, <1>7, <1>9 DEF IntakeInv

\* However an intake ends, its events are accounted for; those of others are left alone.
LEMMA EndingActs ==
    ASSUME SyncIInv, NEW w \in Workers, Intake(w), UNCHANGED live,
           worker' = [worker EXCEPT ![w] = Idle],
           \A e \in Events \ worker[w].batch : events'[e] = events[e],
           \A e \in worker[w].batch :
              events'[e].status \in DueOrSent => events'[e].attempts < MaxIntakeAttempts
    PROVE  IntakeInv'
<1>1. worker \in [Workers -> {Idle} \union InIntake \union InPipeline] /\ IntakeInv
  BY DEF SyncIInv, SyncTypeOK, IntakeInv
<1>2. /\ worker'[w] = Idle /\ ~Intake(w)'
      /\ \A v \in Workers \ {w} : worker'[v] = worker[v]
  BY <1>1 DEF Idle, Intake
<1>3. \A v \in Workers \ {w} : Intake(v) => /\ worker[v].item # worker[w].item
                                            /\ worker[v] \in InIntake
  BY <1>1, MemoryFacts DEF IntakeInv, OneIntakePerItem, SyncIInv
<1>4. \A e \in Events : events[e].item # worker[w].item => events'[e] = events[e]
  BY <1>1 DEF IntakeInv, BatchIsDue
<1>5. AttemptsLeft'
  BY <1>1 DEF IntakeInv, AttemptsLeft
<1>6. BatchIsDue'
  <2> SUFFICES ASSUME NEW v \in Workers, Intake(v)', NEW e \in worker'[v].batch
               PROVE  /\ worker'[v].batch # {}
                      /\ events'[e].status \in {"received", "retry"}
                      /\ events'[e].item = worker'[v].item
    <3>1. \A v \in Workers : Intake(v)' => worker'[v].batch # {}
      BY <1>1, <1>2 DEF IntakeInv, BatchIsDue, Intake
    <3> QED
      BY <3>1 DEF BatchIsDue
  <2>1. v # w /\ worker'[v] = worker[v] /\ Intake(v)
    BY <1>2 DEF Intake
  <2>2. e \in Events /\ events[e].item = worker[v].item /\ worker[v].batch # {}
        /\ events[e].status \in {"received", "retry"}
    BY <1>1, <1>3, <2>1 DEF IntakeInv, BatchIsDue, InIntake
  <2> QED
    BY <1>3, <1>4, <2>1, <2>2
<1>7. OneIntakePerItem'
  BY <1>1, <1>2 DEF IntakeInv, OneIntakePerItem, Intake
<1>8. ASSUME NEW v \in Workers, Intake(v)', worker'[v].seen # live'[worker'[v].item]
      PROVE  Unseen(worker[v].item)' /\ worker'[v] = worker[v]
  <2>1. v # w /\ worker'[v] = worker[v] /\ Intake(v)
    BY <1>2, <1>8 DEF Intake
  <2>2. Unseen(worker[v].item) /\ worker[v].item # worker[w].item
    BY <1>1, <1>3, <1>8, <2>1 DEF IntakeInv, StaleIntakeIsFollowed
  <2>3. PICK e \in Events :
           /\ events[e].status \in DueOrSent /\ events[e].item = worker[v].item
           /\ \A u \in Workers : Intake(u) => e \notin worker[u].batch
    BY <2>2 DEF Unseen
  <2>4. events'[e] = events[e] /\ \A u \in Workers : Intake(u)' => e \notin worker'[u].batch
    BY <1>2, <1>4, <2>2, <2>3 DEF Intake
  <2> QED
    BY <2>1, <2>3, <2>4 DEF Unseen
<1>9. StaleIntakeIsFollowed'
  BY <1>8 DEF StaleIntakeIsFollowed
<1> QED
  BY <1>5, <1>6, <1>7, <1>9 DEF IntakeInv

\* A row of an event that was sent.
LEMMA EventFacts ==
    ASSUME SyncTypeOK, NEW e \in Events, events[e].status # "none"
    PROVE  /\ events[e] \in EventRow
           /\ \A status \in {"received", "retry", "exhausted", "processed"} :
                 [events[e] EXCEPT !.status = status] \in EventRow
<1>1. events[e] \in EventRow
  BY DEF SyncTypeOK, NoEvent
<1> QED
  BY <1>1 DEF EventRow

LEMMA IntakeFacts ==
    ASSUME SyncIInv, NEW w \in Workers, Intake(w)
    PROVE  /\ worker[w] \in InIntake /\ worker[w].item \in Items /\ worker[w].seen \in Snapshots
           /\ worker[w].batch \subseteq Events
           /\ \A e \in worker[w].batch : /\ events[e] \in EventRow
                                         /\ events[e].item = worker[w].item
                                         /\ events[e].status \in {"received", "retry"}
                                         /\ events[e].attempts < MaxIntakeAttempts
<1>1. /\ worker[w] \in InIntake /\ worker[w].item \in Items /\ worker[w].seen \in Snapshots
      /\ worker[w].batch \subseteq Events
  BY MemoryFacts DEF SyncIInv, InIntake
<1>2. \A e \in worker[w].batch : /\ events[e].item = worker[w].item
                                 /\ events[e].status \in {"received", "retry"}
                                 /\ events[e].attempts < MaxIntakeAttempts
  BY <1>1 DEF SyncIInv, BatchIsDue, AttemptsLeft, DueOrSent
<1> QED
  BY <1>1, <1>2, EventFacts DEF SyncIInv

LEMMA FailingIntakeActs ==
    ASSUME SyncIInv, NEW w \in Workers, FailIntake(w)
    PROVE  /\ events' \in [Events -> EventRow \union {NoEvent}]
           /\ IntakeInv'
<1>1. Intake(w) /\ UNCHANGED live /\ worker' = [worker EXCEPT ![w] = Idle]
  BY DEF FailIntake, Intake
<1>2. PICK kind \in {"deferred", "retryable", "permanent"} :
         events' = [e \in Events |->
                        IF e \notin worker[w].batch THEN events[e]
                        ELSE IF kind = "deferred" THEN DeferredEvent(events[e])
                        ELSE ChargedEvent(events[e], kind = "retryable")]
  BY DEF FailIntake
<1>3. worker[w].batch \subseteq Events /\ events \in [Events -> EventRow \union {NoEvent}]
  BY <1>1, IntakeFacts DEF SyncIInv, SyncTypeOK
<1>4. \A e \in Events \ worker[w].batch : events'[e] = events[e]
  BY <1>2, <1>3
<1>5. ASSUME NEW e \in worker[w].batch
      PROVE  /\ events'[e] \in EventRow
             /\ events'[e].status \in DueOrSent => events'[e].attempts < MaxIntakeAttempts
  <2>1. events[e] \in EventRow /\ events[e].attempts < MaxIntakeAttempts
    BY <1>1, IntakeFacts
  <2>2. CASE kind = "deferred"
    <3>1. events'[e] = [events[e] EXCEPT !.status = "retry"]
      BY <1>2, <1>3, <2>2 DEF DeferredEvent
    <3> QED
      BY <2>1, <3>1 DEF EventRow
  <2>3. CASE kind # "deferred"
    <3> DEFINE n == events[e].attempts + 1
               s == IF kind = "retryable" /\ n < MaxIntakeAttempts THEN "retry" ELSE "exhausted"
    <3>1. events'[e] = [events[e] EXCEPT !.attempts = n, !.status = s]
      BY <1>2, <1>3, <2>3 DEF ChargedEvent
    <3>2. n \in 0 .. MaxIntakeAttempts /\ s \in {"retry", "exhausted"}
          /\ (s = "retry" => n < MaxIntakeAttempts)
      BY <2>1, SyncBounds DEF EventRow
    <3> HIDE DEF n, s
    <3>3. events'[e] \in EventRow /\ events'[e].attempts = n /\ events'[e].status = s
      BY <2>1, <3>1, <3>2 DEF EventRow
    <3> QED
      BY <3>2, <3>3 DEF DueOrSent
  <2> QED
    BY <2>2, <2>3
<1>6. events' \in [Events -> EventRow \union {NoEvent}]
  <2>1. \A e \in Events : events'[e] \in EventRow \union {NoEvent}
    BY <1>3, <1>4, <1>5
  <2>2. events' = [e \in Events |-> events'[e]]
    BY <1>2
  <2> QED
    BY <2>1, <2>2
<1>7. IntakeInv'
  BY <1>1, <1>4, <1>5, EndingActs
<1> QED
  BY <1>6, <1>7

LEMMA CommittingIntakeActs ==
    ASSUME SyncIInv, NEW w \in Workers, CommitIntake(w)
    PROVE  /\ events' \in [Events -> EventRow \union {NoEvent}]
           /\ UNCHANGED vars \/ QueueStep
           /\ IntakeInv'
<1>1. Intake(w) /\ UNCHANGED live /\ worker' = [worker EXCEPT ![w] = Idle]
  BY DEF CommitIntake, Intake
<1>2. /\ worker[w].item \in Items /\ worker[w].seen \in Snapshots
      /\ worker[w].batch \subseteq Events /\ events \in [Events -> EventRow \union {NoEvent}]
  BY <1>1, IntakeFacts DEF SyncIInv, SyncTypeOK
<1>3. \A e \in Events : events'[e] = IF e \in worker[w].batch
                                     THEN [events[e] EXCEPT !.status = "processed"]
                                     ELSE events[e]
  BY DEF CommitIntake, EndedEvents
<1>4. \A e \in worker[w].batch : events'[e].status = "processed" /\ events'[e] \in EventRow
  BY <1>1, <1>2, <1>3, IntakeFacts DEF EventRow
<1>5. events' \in [Events -> EventRow \union {NoEvent}]
  <2>1. \A e \in Events : events'[e] \in EventRow \union {NoEvent}
    BY <1>2, <1>3, <1>4
  <2>2. events' = [e \in Events |-> events'[e]]
    BY DEF CommitIntake, EndedEvents
  <2> QED
    BY <2>1, <2>2
<1>6. UNCHANGED vars \/ QueueStep
  BY <1>2, IdentitiesOfSnapshots DEF CommitIntake, QueueEligible, QueueStep, vars
<1>7. IntakeInv'
  BY <1>1, <1>2, <1>3, <1>4, EndingActs DEF DueOrSent
<1> QED
  BY <1>5, <1>6, <1>7

LEMMA IntakeActs ==
    ASSUME SyncIInv, NEW w \in Workers, IntakeAction(w)
    PROVE  /\ worker' \in [Workers -> {Idle} \union InIntake \union InPipeline]
           /\ \A v \in Workers \ {w} : worker'[v] = worker[v]
           /\ worker'[w].phase \in {"idle", "intake"}
           /\ UNCHANGED <<live, operator, commands>> /\ faults' \in 0 .. MaxFaults
           /\ events' \in [Events -> EventRow \union {NoEvent}]
           /\ UNCHANGED vars \/ QueueStep
           /\ IntakeInv'
<1>1. /\ worker \in [Workers -> {Idle} \union InIntake \union InPipeline]
      /\ events \in [Events -> EventRow \union {NoEvent}] /\ faults \in 0 .. MaxFaults
  BY DEF SyncIInv, SyncTypeOK
<1>2. CASE \E i \in Items : BeginIntake(w, i)
  <2>1. UNCHANGED <<live, events, operator, faults, commands>> /\ UNCHANGED vars
    BY <1>2 DEF BeginIntake, vars
  <2> QED
    BY <1>1, <1>2, <2>1, BeginningActs
<1>3. ASSUME worker' = [worker EXCEPT ![w] = Idle]
      PROVE  /\ worker' \in [Workers -> {Idle} \union InIntake \union InPipeline]
             /\ \A v \in Workers \ {w} : worker'[v] = worker[v]
             /\ worker'[w].phase \in {"idle", "intake"}
  BY <1>1, <1>3 DEF Idle
<1>4. CASE CommitIntake(w)
  <2>1. /\ UNCHANGED <<live, operator, faults, commands>>
        /\ worker' = [worker EXCEPT ![w] = Idle]
    BY <1>4 DEF CommitIntake
  <2> QED
    BY <1>1, <1>3, <1>4, <2>1, CommittingIntakeActs
<1>5. CASE FailIntake(w)
  <2>1. /\ UNCHANGED <<live, operator, commands>> /\ UNCHANGED vars
        /\ worker' = [worker EXCEPT ![w] = Idle]
        /\ faults < MaxFaults /\ faults' = faults + 1
    BY <1>5 DEF FailIntake, vars
  <2>2. faults' \in 0 .. MaxFaults
    BY <1>1, <2>1, SyncBounds
  <2> QED
    BY <1>3, <1>5, <2>1, <2>2, FailingIntakeActs
<1> QED
  BY <1>2, <1>4, <1>5 DEF IntakeAction

\* What Monday and `operator retry-webhook` do touches no event of a running intake.
LEMMA EventActs ==
    ASSUME SyncIInv, NEW e \in Events, UNCHANGED worker,
           \A w \in Workers : Intake(w) => e \notin worker[w].batch,
           \A d \in Events \ {e} : events'[d] = events[d],
           events'[e].status \in DueOrSent, events'[e].attempts < MaxIntakeAttempts,
           events[e].status \in DueOrSent => events'[e].item = events[e].item,
           \A i \in Items : live'[i] # live[i] => events'[e].item = i
    PROVE  IntakeInv'
<1>1. IntakeInv
  BY DEF SyncIInv, IntakeInv
<1>2. AttemptsLeft' /\ OneIntakePerItem'
  BY <1>1 DEF IntakeInv, AttemptsLeft, OneIntakePerItem, Intake
<1>3. BatchIsDue'
  <2> SUFFICES ASSUME NEW w \in Workers, Intake(w)
               PROVE  /\ worker[w].batch # {}
                      /\ \A d \in worker[w].batch : /\ events'[d].status \in {"received", "retry"}
                                                    /\ events'[d].item = worker[w].item
    BY DEF BatchIsDue, Intake
  <2> QED
    BY <1>1, IntakeFacts DEF IntakeInv, BatchIsDue
<1>4. ASSUME NEW w \in Workers, Intake(w), worker[w].seen # live'[worker[w].item]
      PROVE  Unseen(worker[w].item)'
  <2>1. worker[w].item \in Items
    BY <1>4, IntakeFacts
  <2>2. CASE events'[e].item = worker[w].item
    BY <1>4, <2>2 DEF Unseen, Intake
  <2>3. CASE events'[e].item # worker[w].item
    <3>1. Unseen(worker[w].item)
      BY <1>1, <1>4, <2>1, <2>3 DEF IntakeInv, StaleIntakeIsFollowed
    <3>2. PICK d \in Events :
             /\ events[d].status \in DueOrSent /\ events[d].item = worker[w].item
             /\ \A u \in Workers : Intake(u) => d \notin worker[u].batch
      BY <3>1 DEF Unseen
    <3>3. events'[d] = events[d]
      BY <2>3, <3>2
    <3> QED
      BY <3>2, <3>3 DEF Unseen, Intake
  <2> QED
    BY <2>2, <2>3
<1>5. StaleIntakeIsFollowed'
  BY <1>4 DEF StaleIntakeIsFollowed, Intake
<1> QED
  BY <1>2, <1>3, <1>5 DEF IntakeInv

LEMMA FreshEvent ==
    ASSUME NEW row \in EventRow
    PROVE  LET fresh == [row EXCEPT !.status = "received", !.attempts = 0]
           IN  /\ fresh \in EventRow /\ fresh.status = "received" /\ fresh.item = row.item
               /\ fresh.attempts = 0
<1> DEFINE m == [row EXCEPT !.status = "received"]
<1>1. [row EXCEPT !.status = "received", !.attempts = 0] = [m EXCEPT !.attempts = 0]
  OBVIOUS
<1>2. m \in EventRow /\ m.status = "received" /\ m.item = row.item
  BY DEF EventRow
<1> HIDE DEF m
<1>3. 0 \in 0 .. MaxIntakeAttempts
  BY SyncBounds
<1> DEFINE fresh == [m EXCEPT !.attempts = 0]
<1>4. /\ fresh \in EventRow /\ fresh.status = "received" /\ fresh.item = row.item
      /\ fresh.attempts = 0
  BY <1>2, <1>3 DEF EventRow
<1> QED
  BY <1>1, <1>4

LEMMA MondayActs ==
    ASSUME SyncIInv, MondayAction
    PROVE  /\ UNCHANGED <<items, jobs, worker, operator, faults, commands>>
           /\ live' \in [Items -> Snapshots]
           /\ events' \in [Events -> EventRow \union {NoEvent}]
           /\ IntakeInv'
<1>1. /\ SyncTypeOK /\ live \in [Items -> Snapshots]
      /\ events \in [Events -> EventRow \union {NoEvent}]
  BY DEF SyncIInv, SyncTypeOK
<1>2. ASSUME NEW e \in Events, events[e].status \notin {"received", "retry"}
      PROVE  \A w \in Workers : Intake(w) => e \notin worker[w].batch
  BY <1>2, IntakeFacts
<1>3. ASSUME NEW i \in Items, NEW input \in Inputs, Edit(i, input)
      PROVE  /\ live' \in [Items -> Snapshots]
             /\ events' \in [Events -> EventRow \union {NoEvent}]
             /\ IntakeInv'
  <2> DEFINE row == [item |-> i, status |-> "sent", attempts |-> 0]
  <2>1. PICK e \in Events : events[e] = NoEvent /\ events' = [events EXCEPT ![e] = row]
    BY <1>3 DEF Edit
  <2>2. live' = [live EXCEPT ![i] = input] /\ UNCHANGED worker
    BY <1>3 DEF Edit
  <2>3. /\ row \in EventRow /\ row.status \in DueOrSent /\ row.item = i
        /\ row.attempts < MaxIntakeAttempts
    BY SyncBounds DEF EventRow, DueOrSent
  <2>4. events[e].status \notin DueOrSent /\ events[e].status \notin {"received", "retry"}
    BY <2>1 DEF NoEvent, DueOrSent
  <2> HIDE DEF row
  <2>5. /\ events' \in [Events -> EventRow \union {NoEvent}] /\ events'[e] = row
        /\ \A d \in Events \ {e} : events'[d] = events[d]
    BY <1>1, <2>1, <2>3
  <2>6. live' \in [Items -> Snapshots] /\ \A k \in Items : live'[k] # live[k] => k = i
    BY <1>1, <2>2, InputsAreSnapshots
  <2>7. IntakeInv'
    BY <1>2, <2>2, <2>3, <2>4, <2>5, <2>6, EventActs
  <2> QED
    BY <2>5, <2>6, <2>7
<1>4. ASSUME NEW e \in Events, Deliver(e) \/ RetryFailedWebhook(e)
      PROVE  /\ live' \in [Items -> Snapshots]
             /\ events' \in [Events -> EventRow \union {NoEvent}]
             /\ IntakeInv'
  <2>1. UNCHANGED live /\ UNCHANGED worker
    BY <1>4 DEF Deliver, RetryFailedWebhook
  <2>2. events[e].status # "none"
    BY <1>4 DEF Deliver, RetryFailedWebhook
  <2>3. events[e] \in EventRow
    BY <1>1, <2>2, EventFacts
  <2>4. /\ events' \in [Events -> EventRow \union {NoEvent}]
        /\ events'[e].status = "received" /\ events'[e].item = events[e].item
        /\ events'[e].attempts < MaxIntakeAttempts
        /\ \A d \in Events \ {e} : events'[d] = events[d]
    <3>1. CASE Deliver(e)
      <4>1. /\ events' = [events EXCEPT ![e] = [events[e] EXCEPT !.status = "received"]]
            /\ events[e].status = "sent"
        BY <3>1 DEF Deliver
      <4>2. events[e].attempts < MaxIntakeAttempts
        BY <4>1 DEF SyncIInv, AttemptsLeft, DueOrSent
      <4> DEFINE row == [events[e] EXCEPT !.status = "received"]
      <4>3. row \in EventRow /\ row.status = "received" /\ row.item = events[e].item
            /\ row.attempts = events[e].attempts
        BY <2>3 DEF EventRow
      <4> HIDE DEF row
      <4> QED
        BY <1>1, <4>1, <4>2, <4>3 DEF row
    <3>2. CASE RetryFailedWebhook(e)
      <4> DEFINE row == [events[e] EXCEPT !.status = "received", !.attempts = 0]
      <4>1. events' = [events EXCEPT ![e] = row]
        BY <3>2 DEF RetryFailedWebhook
      <4>2. row \in EventRow /\ row.status = "received" /\ row.item = events[e].item
            /\ row.attempts = 0
        BY <2>3, FreshEvent
      <4> HIDE DEF row
      <4> QED
        BY <1>1, <4>1, <4>2, SyncBounds
    <3> QED
      BY <1>4, <3>1, <3>2
  <2>5. \A w \in Workers : Intake(w) => e \notin worker[w].batch
    BY <1>2, <1>4 DEF Deliver, RetryFailedWebhook, Intake
  <2>6. IntakeInv'
    BY <2>1, <2>4, <2>5, EventActs DEF DueOrSent
  <2> QED
    BY <1>1, <2>1, <2>4, <2>6
<1>5. UNCHANGED <<items, jobs, worker, operator, faults, commands>>
  BY DEF MondayAction, Edit, Deliver, RetryFailedWebhook
<1> QED
  BY <1>3, <1>4, <1>5 DEF MondayAction

\* Whoever takes in nothing does not disturb those who do.
LEMMA QuietIntake ==
    ASSUME SyncIInv, UNCHANGED <<live, events>>,
           \A v \in Workers : Intake(v)' => Intake(v) /\ worker'[v] = worker[v]
    PROVE  IntakeInv'
<1>1. IntakeInv
  BY DEF SyncIInv, IntakeInv
<1>2. AttemptsLeft' /\ BatchIsDue' /\ OneIntakePerItem'
  <2>1. AttemptsLeft'
    BY <1>1 DEF IntakeInv, AttemptsLeft
  <2>2. BatchIsDue'
    BY <1>1 DEF IntakeInv, BatchIsDue
  <2>3. OneIntakePerItem'
    BY <1>1 DEF IntakeInv, OneIntakePerItem
  <2> QED
    BY <2>1, <2>2, <2>3
<1>3. \A i : Unseen(i) => Unseen(i)'
  BY DEF Unseen
<1>4. StaleIntakeIsFollowed'
  BY <1>1, <1>3 DEF IntakeInv, StaleIntakeIsFollowed
<1> QED
  BY <1>2, <1>4 DEF IntakeInv

-----------------------------------------------------------------------------
(* The rows of a worker *)

\* A transaction of anybody but worker v.
OthersStep(v) ==
    UNCHANGED vars \/ QueueStep \/ \E w \in Workers \ {v}, j \in Jobs : WorkerStep(w, j)

\* Nobody else touches a row and leaves it leased by v: only v itself advances its job.
LEMMA OwnedRowIsKept ==
    ASSUME IInv, NEW v \in Workers, OthersStep(v), NEW j \in Jobs, Owns(v, j)'
    PROVE  jobs'[j] = jobs[j]
<1> SUFFICES ASSUME jobs'[j] # jobs[j] PROVE FALSE
  OBVIOUS
<1>1. jobs'[j].status = "running" /\ jobs'[j].owner = v
  BY DEF Owns
<1>2. CASE UNCHANGED vars
  BY <1>2 DEF vars
<1>3. CASE QueueStep
  <2>1. ASSUME NEW i, AddsRow(i, jobs)
        PROVE  FALSE
    BY <1>1, <2>1 DEF AddsRow
  <2>2. CASE \E i \in Items, id \in Identities, forced \in BOOLEAN : QueueSnapshot(i, id, forced)
    BY <2>1, <2>2, SnapshotAddsRow
  <2>3. CASE \E i \in Items : ReconcileIneligible(i)
    <3>1. \/ jobs'[j] = jobs[j]
          \/ Active(jobs[j]) /\ jobs'[j] = [ReleasedLease(jobs[j]) EXCEPT !.status = "cancelled"]
      BY <2>3 DEF ReconcileIneligible, ActiveJobs
    <3>2. Active(jobs[j]) =>
             [ReleasedLease(jobs[j]) EXCEPT !.status = "cancelled"].status = "cancelled"
      BY ActiveFacts DEF JobRow, ReleasedLease
    <3> QED
      BY <1>1, <3>1, <3>2
  <2>4. ASSUME NEW k \in Jobs, RetryFailedJob(k)
        PROVE  FALSE
    BY <2>1, <2>4, RetryAddsRow
  <2>5. ASSUME NEW k \in Jobs, RecoverStale(k)
        PROVE  FALSE
    BY <1>1, <2>5, RecoveryMovesRow DEF MovedRow
  <2> QED
    BY <1>3, <2>2, <2>3, <2>4, <2>5 DEF QueueStep
<1>4. ASSUME NEW w \in Workers \ {v}, NEW k \in Jobs, WorkerStep(w, k)
      PROVE  FALSE
  <2>1. CASE MovesJob(w, k)
    BY <1>1, <2>1, WorkerMovesRow DEF MovedRow
  <2>2. CASE CompletesJob(w, k)
    BY <1>1, <2>2, CompletionMoves DEF MovedRow
  <2>3. ASSUME NEW snapshot, Supersede(w, k, snapshot)
        PROVE  FALSE
    BY <1>1, <2>3, SupersedingMoves
  <2> QED
    BY <1>4, <2>1, <2>2, <2>3 DEF WorkerStep, MovesJob, CompletesJob
<1> QED
  BY <1>2, <1>3, <1>4 DEF OthersStep

\* Every step is worker v's own, or one that leaves v what it holds of its job.
LEMMA OwnOrOthers ==
    ASSUME SyncIInv, [SyncNext]_syncVars, NEW v \in Workers
    PROVE  \/ PipelineAction(v)
           \/ /\ OthersStep(v)
              /\ worker'[v] = worker[v] \/ worker'[v].phase \in {"idle", "intake"}
<1>1. CASE UNCHANGED syncVars
  BY <1>1 DEF syncVars, vars, OthersStep
<1>2. ASSUME NEW w \in Workers \ {v}, PipelineAction(w)
      PROVE  OthersStep(v) /\ worker'[v] = worker[v]
  <2>1. worker' = [worker EXCEPT ![w] = worker'[w]] /\ worker'[v] = worker[v]
    BY <1>2, PipelineActs DEF LeavesIn, SyncIInv, SyncTypeOK
  <2>2. UNCHANGED vars \/ \E j \in Jobs : WorkerStep(w, j)
    BY <1>2, PipelineActs
  <2> QED
    BY <2>1, <2>2 DEF OthersStep
<1>3. ASSUME NEW w \in Workers, IntakeAction(w)
      PROVE  OthersStep(v) /\ (worker'[v] = worker[v] \/ worker'[v].phase \in {"idle", "intake"})
  BY <1>3, IntakeActs DEF OthersStep
<1>4. CASE MondayAction
  BY <1>4, MondayActs DEF OthersStep, vars
<1>5. CASE DeskAction
  BY <1>5, DeskActs DEF OthersStep
<1> QED
  BY <1>1, <1>2, <1>3, <1>4, <1>5, WhoActs

\* Every step of the loop is a transaction of the queue, or none.
LEMMA StepsAreTransactions ==
    ASSUME SyncIInv, [SyncNext]_syncVars
    PROVE  [Next]_vars
<1>1. QueueStep => Next
  BY DEF QueueStep, Next
<1>2. ASSUME NEW w \in Workers, NEW j \in Jobs, WorkerStep(w, j)
      PROVE  Next
  BY <1>2 DEF Next
<1>3. ASSUME NEW w \in Workers
      PROVE  [Next]_vars
  BY <1>1, <1>2, OwnOrOthers, PipelineActs DEF OthersStep
<1>4. CASE \E w \in Workers : TRUE
  BY <1>3, <1>4
<1>5. CASE MondayAction \/ DeskAction
  BY <1>1, <1>5, MondayActs, DeskActs DEF vars
<1>6. CASE UNCHANGED syncVars
  BY <1>6 DEF syncVars, vars
<1> QED
  BY <1>4, <1>5, <1>6, WhoActs

-----------------------------------------------------------------------------
(* The invariant *)

LEMMA SyncInitInv == SyncInit => KeptIInv
<1> SUFFICES ASSUME SyncInit PROVE KeptIInv
  OBVIOUS
<1>1. IInv /\ TypeOK
  BY InitInv DEF SyncInit, IInv
<1>2. /\ live = [i \in Items |-> NoEmail] /\ events = [e \in Events |-> NoEvent]
      /\ worker = [w \in Workers |-> Idle] /\ operator = OperatorIdle
      /\ faults = 0 /\ commands = 0
  BY DEF SyncInit
<1>3. SyncTypeOK
  BY <1>1, <1>2, SyncBounds DEF SyncTypeOK, Snapshots
<1>4. \A w \in Workers : worker[w].phase = "idle"
  BY <1>2 DEF Idle
<1>5. IntakeInv
  <2>1. AttemptsLeft
    BY <1>2 DEF AttemptsLeft, DueOrSent, NoEvent
  <2> QED
    BY <1>4, <2>1 DEF IntakeInv, BatchIsDue, OneIntakePerItem, StaleIntakeIsFollowed, Intake
<1>6. ReplacementIsRead /\ ReadBeforeCompletion /\ StaleCompletionIsFollowed
  BY <1>4 DEF ReplacementIsRead, ReadBeforeCompletion, StaleCompletionIsFollowed, Completes
<1>7. InputIsKept
  BY <1>2 DEF InputIsKept, Told
<1> QED
  BY <1>1, <1>3, <1>5, <1>6, <1>7 DEF KeptIInv, SyncIInv, IntakeInv

\* What v read at this stage, and what it read earlier: the row is still its own.
LEMMA CompletesBefore ==
    ASSUME SyncIInv, [SyncNext]_syncVars, NEW v \in Workers, Completes(v)'
    PROVE  /\ worker'[v].job \in Jobs /\ jobs'[worker'[v].job] = jobs[worker'[v].job]
           /\ \/ /\ ReadInput(v) /\ UNCHANGED vars /\ UNCHANGED live
                 /\ worker'[v].seen = live[jobs[worker'[v].job].item]
                 /\ worker'[v].seen = jobs[worker'[v].job].identity.rev
              \/ OthersStep(v) /\ worker'[v] = worker[v] /\ Completes(v)
<1>1. worker'[v].phase = "commit" /\ Owns(v, worker[v].job)' /\ MayComplete(worker[v].job)'
  BY DEF Completes
<1>2. worker \in [Workers -> {Idle} \union InIntake \union InPipeline]
  BY DEF SyncIInv, SyncTypeOK
<1>3. CASE PipelineAction(v)
  <2>1. worker'[v] \in {Idle} \union InPipeline /\ (ReadInput(v) \/ SkipRead(v))
    BY <1>1, <1>2, <1>3, PipelineActs DEF LeavesIn
  <2>2. CASE ReadInput(v)
    <3> DEFINE j == worker[v].job
               seen == live[jobs[j].item]
               phase == IF seen = jobs[j].identity.rev THEN "commit"
                        ELSE IF jobs[j].stage = "publishing" THEN "reread" ELSE "replace"
    <3>1. worker' = [worker EXCEPT ![v] = [phase |-> phase, job |-> j, seen |-> seen]]
          /\ UNCHANGED vars /\ UNCHANGED live
      BY <2>2 DEF ReadInput, vars
    <3> HIDE DEF j, seen, phase
    <3>2. worker'[v].phase = phase /\ worker'[v].job = j /\ worker'[v].seen = seen
      BY <1>2, <3>1
    <3> USE DEF j, seen, phase
    <3>3. seen = jobs[j].identity.rev
      BY <1>1, <3>2
    <3>4. j \in Jobs
      BY <1>2, <2>2, MemoryFacts DEF ReadInput, SyncIInv
    <3> QED
      BY <2>2, <3>1, <3>2, <3>3, <3>4 DEF vars
  <2>3. CASE SkipRead(v)
    <3>1. worker'[v].job = worker[v].job /\ UNCHANGED jobs
      BY <1>2, <2>3, MemoryFacts DEF SkipRead, SyncIInv, InPipeline
    <3>2. ReadsNothing(worker[v].job)
      BY <2>3 DEF SkipRead
    <3> QED
      BY <1>1, <3>1, <3>2 DEF ReadsNothing, MayComplete
  <2> QED
    BY <2>1, <2>2, <2>3
<1>4. CASE /\ OthersStep(v)
           /\ worker'[v] = worker[v] \/ worker'[v].phase \in {"idle", "intake"}
  <2>1. worker'[v] = worker[v] /\ worker[v].phase = "commit" /\ worker[v].job \in Jobs
    BY <1>1, <1>4, MemoryFacts DEF SyncIInv
  <2> DEFINE j == worker[v].job
  <2>2. Owns(v, j)' /\ MayComplete(j)'
    BY <1>1, <2>1
  <2>3. jobs'[j] = jobs[j]
    BY <1>4, <2>1, <2>2, OwnedRowIsKept DEF SyncIInv
  <2>4. Completes(v)
    BY <2>1, <2>2, <2>3 DEF Completes, Owns, MayComplete
  <2> QED
    BY <1>4, <2>1, <2>3, <2>4
<1> QED
  BY <1>3, <1>4, OwnOrOthers

LEMMA SyncNextInv == SyncIInv /\ [SyncNext]_syncVars => SyncIInv'
<1> SUFFICES ASSUME SyncIInv, [SyncNext]_syncVars PROVE SyncIInv'
  OBVIOUS
<1>1. /\ live \in [Items -> Snapshots] /\ events \in [Events -> EventRow \union {NoEvent}]
      /\ worker \in [Workers -> {Idle} \union InIntake \union InPipeline]
      /\ operator \in {OperatorIdle} \union [item : Items, seen : Snapshots]
      /\ faults \in 0 .. MaxFaults /\ commands \in 0 .. MaxCommands
      /\ ReplacementIsRead /\ IInv
  BY DEF SyncIInv, SyncTypeOK
<1>2. IInv' /\ TypeOK'
  BY <1>1, StepsAreTransactions, NextInv DEF IInv
<1> DEFINE MemoryTypes == /\ live \in [Items -> Snapshots]
                          /\ events \in [Events -> EventRow \union {NoEvent}]
                          /\ worker \in [Workers -> {Idle} \union InIntake \union InPipeline]
                          /\ operator \in {OperatorIdle} \union [item : Items, seen : Snapshots]
                          /\ faults \in 0 .. MaxFaults /\ commands \in 0 .. MaxCommands
<1>3. ASSUME UNCHANGED syncVars
      PROVE  MemoryTypes' /\ IntakeInv' /\ ReplacementIsRead'
  <2>1. IntakeInv'
    BY <1>3, QuietIntake DEF syncVars, Intake
  <2> QED
    BY <1>1, <1>3, <2>1 DEF syncVars, ReplacementIsRead
<1>4. ASSUME NEW w \in Workers, PipelineAction(w)
      PROVE  MemoryTypes' /\ IntakeInv' /\ ReplacementIsRead'
  <2>1. PICK r \in {Idle} \union InPipeline : LeavesIn(w, r)
    BY <1>4, PipelineActs
  <2>2. UNCHANGED <<live, events, operator, commands>> /\ faults' \in 0 .. MaxFaults
    BY <1>4, PipelineActs DEF Surroundings
  <2>3. /\ worker' \in [Workers -> {Idle} \union InIntake \union InPipeline]
        /\ worker'[w] = r /\ \A v \in Workers \ {w} : worker'[v] = worker[v]
    BY <1>1, <2>1 DEF LeavesIn
  <2>4. ~Intake(w)'
    BY <2>3 DEF Intake, Idle, InPipeline
  <2>5. IntakeInv'
    BY <2>2, <2>3, <2>4, QuietIntake DEF Intake
  <2>6. ReplacementIsRead'
    BY <1>1, <2>1, <2>3 DEF ReplacementIsRead, LeavesIn
  <2> QED
    BY <1>1, <2>2, <2>3, <2>5, <2>6
<1>5. ASSUME NEW w \in Workers, IntakeAction(w)
      PROVE  MemoryTypes' /\ IntakeInv' /\ ReplacementIsRead'
  <2>1. ReplacementIsRead'
    BY <1>1, <1>5, IntakeActs DEF ReplacementIsRead
  <2> QED
    BY <1>1, <1>5, <2>1, IntakeActs
<1>6. ASSUME MondayAction
      PROVE  MemoryTypes' /\ IntakeInv' /\ ReplacementIsRead'
  BY <1>1, <1>6, MondayActs DEF ReplacementIsRead
<1>7. ASSUME DeskAction
      PROVE  MemoryTypes' /\ IntakeInv' /\ ReplacementIsRead'
  <2>1. IntakeInv'
    BY <1>7, DeskActs, QuietIntake DEF Intake
  <2> QED
    BY <1>1, <1>7, <2>1, DeskActs DEF ReplacementIsRead
<1>8. MemoryTypes' /\ IntakeInv' /\ ReplacementIsRead'
  BY <1>3, <1>4, <1>5, <1>6, <1>7, WhoActs
<1>9. ReadBeforeCompletion'
  <2> SUFFICES ASSUME NEW v \in Workers, Completes(v)'
               PROVE  worker'[v].seen = jobs'[worker'[v].job].identity.rev
    BY DEF ReadBeforeCompletion
  <2> QED
    BY CompletesBefore DEF SyncIInv, ReadBeforeCompletion
<1> QED
  BY <1>2, <1>8, <1>9 DEF SyncIInv, SyncTypeOK, IntakeInv

-----------------------------------------------------------------------------
(* Who completes a job *)

\* A transaction that is no worker's completes nothing.
LEMMA QueueCompletesNothing ==
    ASSUME IInv, QueueStep, NEW j \in Jobs, jobs'[j].status = "completed"
    PROVE  jobs'[j] = jobs[j]
<1> SUFFICES ASSUME jobs'[j] # jobs[j] PROVE FALSE
  OBVIOUS
<1>1. ASSUME NEW i, AddsRow(i, jobs)
      PROVE  FALSE
  BY <1>1 DEF AddsRow
<1>2. CASE \E i \in Items, id \in Identities, forced \in BOOLEAN : QueueSnapshot(i, id, forced)
  BY <1>1, <1>2, SnapshotAddsRow
<1>3. CASE \E i \in Items : ReconcileIneligible(i)
  <2>1. \/ jobs'[j] = jobs[j]
        \/ Active(jobs[j]) /\ jobs'[j] = [ReleasedLease(jobs[j]) EXCEPT !.status = "cancelled"]
    BY <1>3 DEF ReconcileIneligible, ActiveJobs
  <2>2. Active(jobs[j]) =>
           [ReleasedLease(jobs[j]) EXCEPT !.status = "cancelled"].status = "cancelled"
    BY ActiveFacts DEF JobRow, ReleasedLease
  <2> QED
    BY <2>1, <2>2
<1>4. ASSUME NEW k \in Jobs, RetryFailedJob(k)
      PROVE  FALSE
  BY <1>1, <1>4, RetryAddsRow
<1>5. ASSUME NEW k \in Jobs, RecoverStale(k)
      PROVE  FALSE
  BY <1>5, RecoveryMovesRow DEF MovedRow
<1> QED
  BY <1>2, <1>3, <1>4, <1>5 DEF QueueStep

\* What the actions of a worker do to the tables, completion apart.
LEMMA PipelineWrites ==
    ASSUME SyncIInv, NEW w \in Workers, PipelineAction(w)
    PROVE  \/ UNCHANGED vars
           \/ \E j \in Jobs : MovesJob(w, j)
           \/ \E j \in Jobs : \E snapshot : Supersede(w, j, snapshot)
           \/ /\ worker[w].phase = "commit" /\ worker[w].job \in Jobs
              /\ Complete(w, worker[w].job)
<1>1. Working(w) => worker[w].job \in Jobs
  BY MemoryFacts DEF SyncIInv
<1>2. CASE \E j \in Jobs : ClaimJob(w, j)
  BY <1>2 DEF ClaimJob, MovesJob
<1>3. CASE SkipRead(w) \/ ReadInput(w) \/ RereadInput(w) \/ LoseLease(w) \/ Crash(w)
  BY <1>3 DEF SkipRead, ReadInput, RereadInput, LoseLease, Crash, vars
<1>4. CASE FailJob(w) \/ DeferJob(w)
  BY <1>1, <1>4 DEF FailJob, DeferJob, MovesJob
<1>5. CASE ReplaceInput(w)
  BY <1>1, <1>5 DEF ReplaceInput, Working
<1>6. CASE CommitStage(w)
  <2>1. worker[w].phase = "commit" /\ worker[w].job \in Jobs
    BY <1>1, <1>6 DEF CommitStage, Working
  <2>2. Checkpoint(w, worker[w].job) \/ Complete(w, worker[w].job) \/ UNCHANGED vars
    BY <1>6 DEF CommitStage, vars
  <2> QED
    BY <2>1, <2>2 DEF Checkpoint, MovesJob
<1> QED
  BY <1>2, <1>3, <1>4, <1>5, <1>6 DEF PipelineAction

LEMMA WhoCompletes ==
    ASSUME SyncIInv, [SyncNext]_syncVars, NEW j \in Jobs,
           jobs'[j].status = "completed", jobs'[j] # jobs[j]
    PROVE  \E w \in Workers : Owns(w, j) /\ Completes(w) /\ worker[w].job = j /\ Complete(w, j)
<1>1. PICK w \in Workers : PipelineAction(w)
  BY WhoActs, QueueCompletesNothing, IntakeActs, MondayActs, DeskActs DEF syncVars, vars, SyncIInv
<1>2. IInv
  BY DEF SyncIInv
<1>3. ASSUME NEW k \in Jobs, MovesJob(w, k)
      PROVE  FALSE
  BY <1>2, <1>3, WorkerMovesRow DEF MovedRow
<1>4. ASSUME NEW k \in Jobs, NEW snapshot, Supersede(w, k, snapshot)
      PROVE  FALSE
  BY <1>2, <1>4, SupersedingMoves
<1>5. worker[w].phase = "commit" /\ worker[w].job \in Jobs /\ Complete(w, worker[w].job)
  BY <1>1, <1>3, <1>4, PipelineWrites DEF vars
<1>6. /\ CompletesJob(w, worker[w].job)
      /\ MayComplete(worker[w].job)
  BY <1>5 DEF Complete, CompletesJob, CompleteShadow, CompletePublication, MayComplete
<1>7. worker[w].job = j /\ Owns(w, j)
  BY <1>2, <1>5, <1>6, CompletionMoves DEF MovedRow
<1> QED
  BY <1>5, <1>6, <1>7 DEF Completes

-----------------------------------------------------------------------------
(* Theorems *)

(* SyncIInv holds in every reachable state. *)
THEOREM SyncInductive == SyncSpec => []SyncIInv
<1>1. SyncInit => SyncIInv
  BY SyncInitInv DEF KeptIInv
<1> QED
  BY <1>1, SyncNextInv, PTL DEF SyncSpec

(* Webhooks, snapshots and what workers hold in memory keep their types, whatever fails;
   no worker, intake or operator ever queues a snapshot without email. *)
THEOREM SyncTypes == SyncSpec => []SyncTypeOK
<1>1. SyncIInv => SyncTypeOK
  BY DEF SyncIInv
<1> QED
  BY <1>1, SyncInductive, PTL

(* The loop of Monday, intake, workers and operator does nothing to the two tables that
   ProcessingQueue does not allow: all that is proved of the queue is true of the loop. *)
THEOREM LoopImplementsQueue == SyncSpec => Spec
<1>1. SyncInit => Init
  BY DEF SyncInit
<1>2. SyncIInv /\ [SyncNext]_syncVars => [Next]_vars
  BY StepsAreTransactions
<1> QED
  BY <1>1, <1>2, SyncInductive, PTL DEF SyncSpec, Spec

(* A worker completes a job only after it has read the job's very input from Monday in
   the stage that completes it, however long ago that stage began. *)
THEOREM CompletionsWereRead == SyncSpec => CompletesWhatWasRead
<1>1. ASSUME SyncIInv, [SyncNext]_syncVars, NEW w \in Workers, NEW j \in Jobs,
             Owns(w, j), jobs'[j].status = "completed"
      PROVE  worker[w].phase = "commit" /\ worker[w].seen = jobs[j].identity.rev
  <2>1. jobs'[j] # jobs[j]
    BY <1>1 DEF Owns
  <2>2. PICK v \in Workers : Owns(v, j) /\ Completes(v) /\ worker[v].job = j
    BY <1>1, <2>1, WhoCompletes
  <2>3. v = w
    BY <1>1, <2>2 DEF Owns
  <2> QED
    BY <1>1, <2>2, <2>3 DEF SyncIInv, ReadBeforeCompletion, Completes
<1>2. SyncIInv /\ [SyncNext]_syncVars =>
         [\A w \in Workers, j \in Jobs :
             Owns(w, j) /\ jobs'[j].status = "completed" =>
                worker[w].phase = "commit" /\ worker[w].seen = jobs[j].identity.rev]_syncVars
  BY <1>1
<1> QED
  BY <1>2, SyncInductive, PTL DEF SyncSpec, CompletesWhatWasRead

-----------------------------------------------------------------------------
(* News of an item is kept until the item's present input is queued *)

Exhausted(i) == \E e \in Events : events[e].status = "exhausted" /\ events[e].item = i

\* An intake commits the snapshot that Monday still shows.
FreshCommit(i) ==
    \E w \in Workers : /\ CommitIntake(w) /\ worker[w].item = i
                       /\ worker[w].seen = live[i] /\ live[i] # NoEmail

\* Jobs that ended stay as they ended.
LEMMA EndsAreKept ==
    ASSUME SyncIInv, [SyncNext]_syncVars, NEW j \in Jobs,
           jobs[j].status \in {"completed", "failed"}
    PROVE  jobs'[j] = jobs[j]
<1>1. IInv /\ [Next]_vars
  BY StepsAreTransactions DEF SyncIInv
<1> QED
  BY <1>1, NextRowStep
     DEF vars, RowStep, NoJob, Active, ActiveStatuses, WaitingStatuses

\* Everything stays told, except perhaps what an ending intake has taken in.
LEMMA EndingNews ==
    ASSUME SyncIInv, NEW w \in Workers, Intake(w),
           worker' = [worker EXCEPT ![w] = Idle],
           \A e \in Events \ worker[w].batch : events'[e] = events[e],
           NEW i \in Items
    PROVE  /\ Unseen(i) => Unseen(i)'
           /\ Exhausted(i) => Exhausted(i)'
           /\ worker[w].item # i /\ IntakeRunning(i) => IntakeRunning(i)'
           /\ worker[w].item = i =>
                 \A e \in worker[w].batch :
                    events'[e].status \in DueOrSent /\ events'[e].item = i => Unseen(i)'
<1>1. /\ worker'[w] = Idle /\ ~Intake(w)'
      /\ \A v \in Workers \ {w} : worker'[v] = worker[v]
  BY DEF SyncIInv, SyncTypeOK, Idle, Intake
<1>2. ASSUME Unseen(i)
      PROVE  Unseen(i)'
  <2>1. PICK e \in Events :
           /\ events[e].status \in DueOrSent /\ events[e].item = i
           /\ \A u \in Workers : Intake(u) => e \notin worker[u].batch
    BY <1>2 DEF Unseen
  <2>2. events'[e] = events[e] /\ \A u \in Workers : Intake(u)' => e \notin worker'[u].batch
    BY <1>1, <2>1 DEF Intake
  <2> QED
    BY <2>1, <2>2 DEF Unseen
<1>3. Exhausted(i) => Exhausted(i)'
  BY IntakeFacts DEF Exhausted
<1>4. worker[w].item # i /\ IntakeRunning(i) => IntakeRunning(i)'
  BY <1>1 DEF IntakeRunning
<1>5. ASSUME worker[w].item = i, NEW e \in worker[w].batch,
             events'[e].status \in DueOrSent, events'[e].item = i
      PROVE  Unseen(i)'
  <2>1. ASSUME NEW u \in Workers, Intake(u)', e \in worker'[u].batch
        PROVE  FALSE
    <3>1. u # w /\ worker'[u] = worker[u] /\ Intake(u)
      BY <1>1, <2>1 DEF Intake
    <3>2. events[e].item = worker[u].item /\ events[e].item = worker[w].item
      BY <1>5, <2>1, <3>1, IntakeFacts
    <3> QED
      BY <3>1, <3>2 DEF SyncIInv, OneIntakePerItem
  <2>2. e \in Events
    BY <1>5, IntakeFacts
  <2> QED
    BY <1>5, <2>1, <2>2 DEF Unseen
<1> QED
  BY <1>2, <1>3, <1>4, <1>5

LEMMA IntakeNews ==
    ASSUME SyncIInv, NEW w \in Workers, IntakeAction(w), NEW i \in Items,
           live[i] = NoEmail \/ Exhausted(i) \/ ToBeTakenIn(i)
    PROVE  \/ live'[i] = NoEmail \/ Exhausted(i)' \/ ToBeTakenIn(i)'
           \/ FreshCommit(i)
<1>1. UNCHANGED live
  BY IntakeActs
<1> SUFFICES ASSUME Exhausted(i) \/ ToBeTakenIn(i), live[i] # NoEmail
             PROVE  Exhausted(i)' \/ ToBeTakenIn(i)' \/ FreshCommit(i)
  BY <1>1
<1>2. ASSUME NEW k \in Items, BeginIntake(w, k)
      PROVE  Exhausted(i)' \/ ToBeTakenIn(i)'
  <2>1. PICK batch \in DueBatches(k) :
           worker' = [worker EXCEPT ![w] = [phase |-> "intake", item |-> k,
                                            batch |-> batch, seen |-> live[k]]]
    BY <1>2 DEF BeginIntake
  <2>2. worker[w] = Idle /\ UNCHANGED events
    BY <1>2 DEF BeginIntake
  <2> DEFINE m == [phase |-> "intake", item |-> k, batch |-> batch, seen |-> live[k]]
  <2>3. m.phase = "intake" /\ m.item = k /\ m.batch = batch
    OBVIOUS
  <2> HIDE DEF m
  <2>4. worker'[w] = m /\ \A v \in Workers \ {w} : worker'[v] = worker[v]
    BY <2>1 DEF m, SyncIInv, SyncTypeOK
  <2>5. \A e \in batch : events[e].item = k
    BY DEF DueBatches, OfItem
  <2>6. CASE i = k
    BY <2>3, <2>4, <2>6 DEF ToBeTakenIn, IntakeRunning
  <2>7. CASE i # k /\ Unseen(i)
    <3>1. PICK e \in Events :
             /\ events[e].status \in DueOrSent /\ events[e].item = i
             /\ \A u \in Workers : Intake(u) => e \notin worker[u].batch
      BY <2>7 DEF Unseen
    <3>2. \A u \in Workers : Intake(u)' => e \notin worker'[u].batch
      BY <2>3, <2>4, <2>5, <2>7, <3>1 DEF Intake
    <3> QED
      BY <2>2, <3>1, <3>2 DEF ToBeTakenIn, Unseen
  <2>8. CASE IntakeRunning(i)
    BY <2>2, <2>4, <2>8 DEF ToBeTakenIn, IntakeRunning, Idle
  <2>9. CASE Exhausted(i)
    BY <2>2, <2>9 DEF Exhausted
  <2> QED
    BY <2>6, <2>7, <2>8, <2>9 DEF ToBeTakenIn
<1>3. CASE CommitIntake(w)
  <2>1. Intake(w) /\ worker' = [worker EXCEPT ![w] = Idle]
    BY <1>3 DEF CommitIntake, Intake
  <2>2. \A e \in Events \ worker[w].batch : events'[e] = events[e]
    BY <1>3 DEF CommitIntake, EndedEvents
  <2>3. /\ Unseen(i) => Unseen(i)'
        /\ Exhausted(i) => Exhausted(i)'
        /\ worker[w].item # i /\ IntakeRunning(i) => IntakeRunning(i)'
    BY <2>1, <2>2, EndingNews
  <2>4. CASE worker[w].item = i
    BY <1>3, <2>1, <2>3, <2>4
       DEF SyncIInv, StaleIntakeIsFollowed, FreshCommit, ToBeTakenIn
  <2> QED
    BY <2>3, <2>4 DEF ToBeTakenIn
<1>4. CASE FailIntake(w)
  <2>1. Intake(w) /\ worker' = [worker EXCEPT ![w] = Idle]
    BY <1>4 DEF FailIntake, Intake
  <2>2. worker[w].batch # {} /\ worker[w].batch \subseteq Events
    BY <2>1, IntakeFacts DEF SyncIInv, BatchIsDue
  <2>3. PICK kind \in {"deferred", "retryable", "permanent"} :
           events' = [e \in Events |->
                          IF e \notin worker[w].batch THEN events[e]
                          ELSE IF kind = "deferred" THEN DeferredEvent(events[e])
                          ELSE ChargedEvent(events[e], kind = "retryable")]
    BY <1>4 DEF FailIntake
  <2>4. \A e \in Events \ worker[w].batch : events'[e] = events[e]
    BY <2>3
  <2>5. ASSUME NEW e \in worker[w].batch
        PROVE  /\ events'[e].status \in {"retry", "exhausted"}
               /\ events'[e].item = worker[w].item
    <3>1. events[e] \in EventRow /\ events[e].item = worker[w].item
      BY <2>1, IntakeFacts
    <3>2. events'[e] = DeferredEvent(events[e])
          \/ events'[e] = ChargedEvent(events[e], kind = "retryable")
      BY <2>2, <2>3
    <3>3. CASE events'[e] = DeferredEvent(events[e])
      BY <3>1, <3>3 DEF DeferredEvent, EventRow
    <3>4. CASE events'[e] = ChargedEvent(events[e], kind = "retryable")
      <4> DEFINE n == events[e].attempts + 1
                 s == IF kind = "retryable" /\ n < MaxIntakeAttempts THEN "retry" ELSE "exhausted"
      <4>1. events'[e] = [events[e] EXCEPT !.attempts = n, !.status = s]
        BY <3>4 DEF ChargedEvent
      <4>2. s \in {"retry", "exhausted"}
        OBVIOUS
      <4> HIDE DEF n, s
      <4> QED
        BY <3>1, <4>1, <4>2 DEF EventRow
    <3> QED
      BY <3>2, <3>3, <3>4
  <2>6. /\ Unseen(i) => Unseen(i)'
        /\ Exhausted(i) => Exhausted(i)'
        /\ worker[w].item # i /\ IntakeRunning(i) => IntakeRunning(i)'
        /\ worker[w].item = i =>
              \A e \in worker[w].batch :
                 events'[e].status \in DueOrSent /\ events'[e].item = i => Unseen(i)'
    BY <2>1, <2>4, EndingNews
  <2>7. CASE worker[w].item = i
    <3>1. PICK e \in worker[w].batch : e \in Events
      BY <2>2
    <3>2. /\ events'[e].status \in {"retry", "exhausted"} /\ events'[e].item = i
          /\ e \in Events
      BY <2>5, <2>7, <3>1
    <3>3. CASE events'[e].status = "exhausted"
      BY <3>2, <3>3 DEF Exhausted
    <3>4. CASE events'[e].status = "retry"
      BY <2>6, <2>7, <3>2, <3>4 DEF ToBeTakenIn, DueOrSent
    <3> QED
      BY <3>2, <3>3, <3>4
  <2> QED
    BY <2>6, <2>7 DEF ToBeTakenIn
<1> QED
  BY <1>2, <1>3, <1>4 DEF IntakeAction

LEMMA MondayNews ==
    ASSUME SyncIInv, MondayAction, NEW i \in Items
    PROVE  /\ live'[i] = live[i] \/ ToBeTakenIn(i)'
           /\ ToBeTakenIn(i) => ToBeTakenIn(i)'
           /\ Exhausted(i) => Exhausted(i)' \/ ToBeTakenIn(i)'
<1>1. ASSUME NEW e \in Events, UNCHANGED worker,
             \A w \in Workers : Intake(w) => e \notin worker[w].batch,
             \A d \in Events \ {e} : events'[d] = events[d],
             events'[e].status \in DueOrSent,
             events[e].status # "none" => events'[e].item = events[e].item,
             live'[i] # live[i] => events'[e].item = i
      PROVE  /\ live'[i] = live[i] \/ ToBeTakenIn(i)'
             /\ ToBeTakenIn(i) => ToBeTakenIn(i)'
             /\ Exhausted(i) => Exhausted(i)' \/ ToBeTakenIn(i)'
  <2>1. events'[e].item = i => Unseen(i)'
    BY <1>1 DEF Unseen, Intake
  <2>2. IntakeRunning(i) => IntakeRunning(i)'
    BY <1>1 DEF IntakeRunning
  <2>3. ASSUME Unseen(i)
        PROVE  Unseen(i)'
    <3>1. PICK d \in Events :
             /\ events[d].status \in DueOrSent /\ events[d].item = i
             /\ \A u \in Workers : Intake(u) => d \notin worker[u].batch
      BY <2>3 DEF Unseen
    <3>2. CASE d = e
      BY <1>1, <2>1, <3>1, <3>2 DEF DueOrSent
    <3>3. CASE d # e
      BY <1>1, <3>1, <3>3 DEF Unseen, Intake
    <3> QED
      BY <3>2, <3>3
  <2>4. Exhausted(i) => Exhausted(i)' \/ Unseen(i)'
    BY <1>1, <2>1 DEF Exhausted
  <2> QED
    BY <1>1, <2>1, <2>2, <2>3, <2>4 DEF ToBeTakenIn
<1>2. ASSUME NEW e \in Events, events[e].status \notin {"received", "retry"}
      PROVE  \A w \in Workers : Intake(w) => e \notin worker[w].batch
  BY <1>2, IntakeFacts
<1>3. /\ live \in [Items -> Snapshots] /\ events \in [Events -> EventRow \union {NoEvent}]
  BY DEF SyncIInv, SyncTypeOK
<1>4. ASSUME NEW k \in Items, NEW input \in Inputs, Edit(k, input)
      PROVE  /\ live'[i] = live[i] \/ ToBeTakenIn(i)'
             /\ ToBeTakenIn(i) => ToBeTakenIn(i)'
             /\ Exhausted(i) => Exhausted(i)' \/ ToBeTakenIn(i)'
  <2> DEFINE row == [item |-> k, status |-> "sent", attempts |-> 0]
  <2>1. PICK e \in Events : events[e] = NoEvent /\ events' = [events EXCEPT ![e] = row]
    BY <1>4 DEF Edit
  <2>2. live' = [live EXCEPT ![k] = input] /\ UNCHANGED worker
    BY <1>4 DEF Edit
  <2>3. row.status \in DueOrSent /\ row.item = k
    BY DEF DueOrSent
  <2>4. events[e].status = "none"
    BY <2>1 DEF NoEvent
  <2> HIDE DEF row
  <2>5. events'[e] = row /\ \A d \in Events \ {e} : events'[d] = events[d]
    BY <1>3, <2>1
  <2>6. live'[i] # live[i] => i = k
    BY <1>3, <2>2
  <2> QED
    BY <1>1, <1>2, <2>2, <2>3, <2>4, <2>5, <2>6
<1>5. ASSUME NEW e \in Events, Deliver(e) \/ RetryFailedWebhook(e)
      PROVE  /\ live'[i] = live[i] \/ ToBeTakenIn(i)'
             /\ ToBeTakenIn(i) => ToBeTakenIn(i)'
             /\ Exhausted(i) => Exhausted(i)' \/ ToBeTakenIn(i)'
  <2>1. UNCHANGED live /\ UNCHANGED worker
    BY <1>5 DEF Deliver, RetryFailedWebhook
  <2>2. \A w \in Workers : Intake(w) => e \notin worker[w].batch
    BY <1>2, <1>5 DEF Deliver, RetryFailedWebhook, Intake
  <2>3. events[e] \in EventRow
    BY <1>5, EventFacts DEF Deliver, RetryFailedWebhook, SyncIInv
  <2>4. /\ \A d \in Events \ {e} : events'[d] = events[d]
        /\ events'[e].status = "received" /\ events'[e].item = events[e].item
    <3>1. CASE Deliver(e)
      BY <1>3, <2>3, <3>1 DEF Deliver, EventRow
    <3>2. CASE RetryFailedWebhook(e)
      <4> DEFINE row == [events[e] EXCEPT !.status = "received", !.attempts = 0]
      <4>1. row.status = "received" /\ row.item = events[e].item
        BY <2>3, FreshEvent
      <4>2. events' = [events EXCEPT ![e] = row]
        BY <3>2 DEF RetryFailedWebhook
      <4> HIDE DEF row
      <4> QED
        BY <1>3, <4>1, <4>2
    <3> QED
      BY <1>5, <3>1, <3>2
  <2> QED
    BY <1>1, <2>1, <2>2, <2>4 DEF DueOrSent
<1> QED
  BY <1>4, <1>5 DEF MondayAction

LEMMA PipelineNews ==
    ASSUME SyncIInv, NEW w \in Workers, PipelineAction(w), NEW i \in Items, ToBeTakenIn(i)
    PROVE  ToBeTakenIn(i)'
<1>1. UNCHANGED <<live, events>>
  BY PipelineActs DEF Surroundings
<1>2. PICK r \in {Idle} \union InPipeline : worker' = [worker EXCEPT ![w] = r]
  BY PipelineActs DEF LeavesIn
<1>3. /\ worker'[w] = r /\ ~Intake(w)' /\ \A v \in Workers \ {w} : worker'[v] = worker[v]
  BY <1>2 DEF SyncIInv, SyncTypeOK, Intake, Idle, InPipeline
<1>4. CASE Unseen(i)
  BY <1>1, <1>3, <1>4 DEF Unseen, Intake, ToBeTakenIn
<1>5. ASSUME NEW v \in Workers, Intake(v), worker[v].item = i
      PROVE  ToBeTakenIn(i)'
  <2>1. CASE v # w
    BY <1>3, <1>5, <2>1 DEF ToBeTakenIn, IntakeRunning, Intake
  <2>2. CASE v = w
    <3>1. PICK e \in worker[w].batch : e \in Events
      BY <1>5, <2>2, IntakeFacts DEF SyncIInv, BatchIsDue
    <3>2. events[e].status \in DueOrSent /\ events[e].item = i
      BY <1>5, <2>2, <3>1, IntakeFacts DEF DueOrSent
    <3>3. worker' = [worker EXCEPT ![w] = Idle]
      BY <1>5, <2>2 DEF PipelineAction, ClaimJob, SkipRead, ReadInput, CommitStage, RereadInput,
           ReplaceInput, LoseLease, FailJob, DeferJob, Crash, Working, Intake, Idle
    <3>4. Unseen(i)'
      BY <1>1, <1>5, <2>2, <3>1, <3>2, <3>3, EndingNews
    <3> QED
      BY <3>4 DEF ToBeTakenIn
  <2> QED
    BY <2>1, <2>2
<1> QED
  BY <1>4, <1>5 DEF ToBeTakenIn, IntakeRunning, Intake

LEMMA NewsAreKept ==
    ASSUME SyncIInv, [SyncNext]_syncVars, NEW i \in Items, Told(i) \/ live'[i] # live[i]
    PROVE  Told(i)' \/ FreshCommit(i)
<1> DEFINE FailedJob == \E j \in Jobs : jobs[j].status = "failed" /\ jobs[j].item = i
<1>1. Told(i) <=> live[i] = NoEmail \/ FailedJob \/ Exhausted(i) \/ ToBeTakenIn(i)
  BY DEF Told, ReportedFailure, Exhausted
<1>2. Told(i)' <=> live'[i] = NoEmail \/ FailedJob' \/ Exhausted(i)' \/ ToBeTakenIn(i)'
  BY DEF Told, ReportedFailure, Exhausted
<1>3. FailedJob => FailedJob'
  BY EndsAreKept
<1> HIDE DEF FailedJob
<1>4. ASSUME UNCHANGED <<live, events, worker>>
      PROVE  Told(i)'
  <2>1. Exhausted(i) => Exhausted(i)'
    BY <1>4 DEF Exhausted
  <2>2. ToBeTakenIn(i) => ToBeTakenIn(i)'
    BY <1>4 DEF ToBeTakenIn, Unseen, IntakeRunning, Intake
  <2> QED
    BY <1>1, <1>2, <1>3, <1>4, <2>1, <2>2
<1>5. ASSUME NEW w \in Workers, PipelineAction(w)
      PROVE  Told(i)'
  <2>1. UNCHANGED <<live, events>>
    BY <1>5, PipelineActs DEF Surroundings
  <2>2. Exhausted(i) => Exhausted(i)'
    BY <2>1 DEF Exhausted
  <2> QED
    BY <1>1, <1>2, <1>3, <1>5, <2>1, <2>2, PipelineNews
<1>6. ASSUME NEW w \in Workers, IntakeAction(w)
      PROVE  Told(i)' \/ FreshCommit(i)
  <2>1. UNCHANGED live
    BY <1>6, IntakeActs
  <2> QED
    BY <1>1, <1>2, <1>3, <1>6, <2>1, IntakeNews
<1>7. CASE MondayAction
  BY <1>1, <1>2, <1>3, <1>7, MondayNews
<1>8. CASE DeskAction
  BY <1>4, <1>8, DeskActs
<1>9. CASE UNCHANGED syncVars
  BY <1>4, <1>9 DEF syncVars
<1> QED
  BY <1>5, <1>6, <1>7, <1>8, <1>9, WhoActs

-----------------------------------------------------------------------------
(* Work on an item ends in one of four ways *)

Outcome(i) ==
    \/ HasActiveJob(i)' \/ items'[i].state = "ineligible"
    \/ \E j \in Jobs : /\ jobs'[j].item = i /\ jobs'[j] # jobs[j]
                       /\ jobs'[j].status \in {"completed", "failed"}

LEMMA MovedRowOutcome ==
    ASSUME IInv, NEW j \in Jobs, Active(jobs[j]),
           NEW status \in {"running", "retry_wait", "failed", "completed"}, MovedRow(j, status),
           NEW i \in Items, HasActiveJob(i) \/ items[i].state = "ineligible"
    PROVE  Outcome(i)
<1>1. CASE jobs[j].item = i
  <2>1. CASE status \in {"running", "retry_wait"}
    BY <1>1, <2>1 DEF MovedRow, Outcome, HasActiveJob, ActiveJobs, Active, ActiveStatuses,
                      WaitingStatuses
  <2>2. CASE status \in {"failed", "completed"}
    BY <1>1, <2>2 DEF MovedRow, Outcome, Active, ActiveStatuses, WaitingStatuses
  <2> QED
    BY <2>1, <2>2
<1>2. CASE jobs[j].item # i
  BY <1>2 DEF MovedRow, Outcome, HasActiveJob, ActiveJobs
<1> QED
  BY <1>1, <1>2

LEMMA AddedRowOutcome ==
    ASSUME NEW k, AddsRow(k, jobs), HasActiveJob(k)',
           \A m \in Items \ {k} : items'[m] = items[m],
           NEW i \in Items, HasActiveJob(i) \/ items[i].state = "ineligible"
    PROVE  Outcome(i)
<1>1. ASSUME NEW j \in Jobs, Active(jobs[j])
      PROVE  jobs'[j] = jobs[j]
  BY <1>1 DEF AddsRow, NoJob, Active, ActiveStatuses, WaitingStatuses
<1> QED
  BY <1>1 DEF Outcome, HasActiveJob, ActiveJobs

LEMMA WorkHasAnOutcome ==
    ASSUME IInv, [Next]_vars, NEW i \in Items, HasActiveJob(i) \/ items[i].state = "ineligible"
    PROVE  Outcome(i)
<1>1. CASE UNCHANGED vars
  BY <1>1 DEF vars, Outcome, HasActiveJob, ActiveJobs
<1>2. CASE \E k \in Items, id \in Identities, forced \in BOOLEAN : QueueSnapshot(k, id, forced)
  BY <1>2, SnapshotAddsRow, AddedRowOutcome
<1>3. ASSUME NEW k \in Items, ReconcileIneligible(k)
      PROVE  Outcome(i)
  <2>1. CASE k = i
    BY <1>3, <2>1 DEF ReconcileIneligible, Outcome, IInv, TypeOK
  <2>2. CASE k # i
    <3>1. items'[i] = items[i]
      BY <1>3, <2>2 DEF ReconcileIneligible, IInv, TypeOK
    <3>2. \A j \in ActiveJobs(jobs, i) : jobs'[j] = jobs[j]
      BY <1>3, <2>2 DEF ReconcileIneligible, ActiveJobs
    <3> QED
      BY <3>1, <3>2 DEF Outcome, HasActiveJob, ActiveJobs
  <2> QED
    BY <2>1, <2>2
<1>4. ASSUME NEW j \in Jobs, RetryFailedJob(j)
      PROVE  Outcome(i)
  BY <1>4, RetryAddsRow, AddedRowOutcome
<1>5. ASSUME NEW j \in Jobs, RecoverStale(j)
      PROVE  Outcome(i)
  BY <1>5, RecoveryMovesRow, MovedRowOutcome
<1>6. ASSUME NEW w \in Workers, NEW j \in Jobs, WorkerStep(w, j)
      PROVE  Outcome(i)
  <2>1. CASE MovesJob(w, j)
    BY <2>1, WorkerMovesRow, MovedRowOutcome
  <2>2. CASE CompletesJob(w, j)
    BY <2>2, CompletionMoves, MovedRowOutcome
  <2>3. ASSUME NEW snapshot, Supersede(w, j, snapshot)
        PROVE  Outcome(i)
    <3>1. CASE jobs[j].item = i
      BY <2>3, <3>1, SupersedingMoves DEF Outcome
    <3>2. CASE jobs[j].item # i
      <4>1. /\ \A k \in Jobs \ {j} : jobs'[k] = jobs[k] \/ jobs[k] = NoJob
            /\ items'[i] = items[i]
        BY <2>3, <3>2, SupersedingMoves
      <4>2. \A k \in ActiveJobs(jobs, i) : jobs'[k] = jobs[k]
        BY <3>2, <4>1 DEF ActiveJobs, Active, NoJob, ActiveStatuses, WaitingStatuses
      <4> QED
        BY <4>1, <4>2 DEF Outcome, HasActiveJob, ActiveJobs
    <3> QED
      BY <3>1, <3>2
  <2> QED
    BY <1>6, <2>1, <2>2, <2>3 DEF WorkerStep, MovesJob, CompletesJob
<1> QED
  BY <1>1, <1>2, <1>3, <1>4, <1>5, <1>6 DEF Next

-----------------------------------------------------------------------------
(* No input is lost unless an operator commits a stale snapshot *)

\* An intake that commits an eligible snapshot queues it.
LEMMA CommitQueues ==
    ASSUME SyncIInv, NEW w \in Workers, CommitIntake(w), NEW i \in Items, i = worker[w].item
    PROVE  /\ worker[w].seen # NoEmail =>
                 HasActiveJob(i)' /\ items'[i].latest.rev = worker[w].seen
           /\ worker[w].seen = NoEmail => UNCHANGED vars
           /\ \A k \in Items \ {i} : items'[k] = items[k]
<1>1. worker[w].seen \in Snapshots /\ IInv
  BY IntakeFacts DEF CommitIntake, Intake, SyncIInv
<1>2. CASE worker[w].seen = NoEmail
  BY <1>2 DEF CommitIntake, QueueEligible, vars
<1>3. CASE worker[w].seen # NoEmail
  <2>1. PICK ver \in Versions : QueueSnapshot(i, IdentityOf(worker[w].seen, ver), FALSE)
    BY <1>3 DEF CommitIntake, QueueEligible
  <2>2. IdentityOf(worker[w].seen, ver).rev = worker[w].seen
    BY <1>1, <1>3, IdentitiesOfSnapshots
  <2>3. /\ HasActiveJob(i)' /\ items'[i].latest = IdentityOf(worker[w].seen, ver)
        /\ \A k \in Items \ {i} : items'[k] = items[k]
    BY <1>1, <2>1, SnapshotAddsRow
  <2> QED
    BY <1>3, <2>2, <2>3
<1> QED
  BY <1>2, <1>3

LEMMA FreshCommitQueues ==
    ASSUME SyncIInv, NEW i \in Items, FreshCommit(i)
    PROVE  HasActiveJob(i)' /\ items'[i].latest.rev = live'[i] /\ live'[i] = live[i]
<1>1. PICK w \in Workers : /\ CommitIntake(w) /\ worker[w].item = i
                           /\ worker[w].seen = live[i] /\ live[i] # NoEmail
  BY DEF FreshCommit
<1>2. UNCHANGED live
  BY <1>1 DEF CommitIntake
<1>3. HasActiveJob(i)' /\ items'[i].latest.rev = worker[w].seen
  BY <1>1, CommitQueues
<1> QED
  BY <1>1, <1>2, <1>3

\* While v keeps its job, only a newer snapshot changes what the job's item wants.
LEMMA LatestIsKept ==
    ASSUME SyncIInv, [SyncNext]_syncVars, CommandIsUpToDate,
           NEW v \in Workers, NEW j \in Jobs, Owns(v, j), jobs'[j] = jobs[j],
           NEW i, i = jobs[j].item
    PROVE  /\ i \in Items
           /\ \/ items'[i].latest = items[i].latest
              \/ items'[i].latest = NoIdentity
              \/ items'[i].latest.rev = live[i] /\ UNCHANGED live
              \/ \E w \in Workers : /\ CommitIntake(w) /\ worker[w].item = i
                                    /\ worker[w].seen # NoEmail
<1>1. i \in Items /\ Active(jobs[j]) /\ IInv
  BY OwnedRow DEF SyncIInv
<1>2. UNCHANGED vars => items'[i].latest = items[i].latest
  BY DEF vars
<1>3. ASSUME NEW w \in Workers, PipelineAction(w)
      PROVE  items'[i].latest = items[i].latest
  <2>1. ASSUME NEW k \in Jobs, MovesJob(w, k) \/ CompletesJob(w, k)
        PROVE  items'[i].latest = items[i].latest
    BY <1>1, <2>1, WorkerMovesRow, CompletionMoves DEF MovedRow
  <2>2. ASSUME NEW k \in Jobs, NEW snapshot, Supersede(w, k, snapshot)
        PROVE  items'[i].latest = items[i].latest
    <3>1. Active(jobs[k]) /\ jobs'[k].status = "cancelled"
      BY <1>1, <2>2, SupersedingMoves
    <3>2. k # j
      BY <3>1 DEF Owns
    <3>3. jobs[k].item # i
      BY <1>1, <3>1, <3>2, ActiveFacts
    <3> QED
      BY <1>1, <2>2, <3>3, SupersedingMoves
  <2>3. Complete(w, worker[w].job) => CompletesJob(w, worker[w].job)
    BY DEF Complete, CompletesJob
  <2> QED
    BY <1>2, <1>3, <2>1, <2>2, <2>3, PipelineWrites
<1>4. ASSUME NEW w \in Workers, IntakeAction(w)
      PROVE  \/ items'[i].latest = items[i].latest
             \/ /\ CommitIntake(w) /\ worker[w].item = i
                /\ worker[w].seen # NoEmail
  <2>1. CASE CommitIntake(w)
    <3>1. PICK m \in Items : m = worker[w].item
      BY <2>1, IntakeFacts DEF CommitIntake, Intake
    <3> QED
      BY <1>1, <1>2, <2>1, <3>1, CommitQueues
  <2>2. CASE FailIntake(w) \/ \E k \in Items : BeginIntake(w, k)
    BY <2>2 DEF FailIntake, BeginIntake
  <2> QED
    BY <1>4, <2>1, <2>2 DEF IntakeAction
<1>5. CASE DeskAction
  <2>1. CASE \E k \in Jobs : RecoverLease(k)
    BY <1>1, <2>1, RecoveryMovesRow DEF RecoverLease, MovedRow
  <2>2. CASE \E k \in Jobs : OperatorRetries(k)
    BY <1>1, <2>2, RetryAddsRow DEF OperatorRetries
  <2>3. CASE \E k \in Items : OperatorReads(k)
    BY <1>1, <2>3 DEF OperatorReads
  <2>4. CASE OperatorCommits
    <3>1. /\ operator.item \in Items /\ operator.seen \in Snapshots
          /\ operator.seen = live[operator.item] /\ UNCHANGED live
      BY <2>4 DEF OperatorCommits, CommandIsUpToDate, SyncIInv, SyncTypeOK
    <3>2. CASE ReconcileIneligible(operator.item)
      BY <1>1, <3>2 DEF ReconcileIneligible, IInv, TypeOK
    <3>3. ASSUME NEW ver \in Versions, NEW forced \in BOOLEAN, operator.seen # NoEmail,
                 QueueSnapshot(operator.item, IdentityOf(operator.seen, ver), forced)
          PROVE  \/ items'[i].latest = items[i].latest
                 \/ items'[i].latest.rev = live[i]
      <4>1. IdentityOf(operator.seen, ver).rev = operator.seen
        BY <3>1, <3>3, IdentitiesOfSnapshots
      <4>2. /\ items'[operator.item].latest = IdentityOf(operator.seen, ver)
            /\ \A k \in Items \ {operator.item} : items'[k] = items[k]
        BY <1>1, <3>1, <3>3, SnapshotAddsRow
      <4> QED
        BY <1>1, <3>1, <4>1, <4>2
    <3> QED
      BY <1>1, <2>4, <3>1, <3>2, <3>3 DEF OperatorCommits
  <2> QED
    BY <1>5, <2>1, <2>2, <2>3, <2>4 DEF DeskAction
<1>6. CASE MondayAction
  BY <1>1, <1>6, MondayActs
<1>7. CASE UNCHANGED syncVars
  BY <1>1, <1>7 DEF syncVars
<1> QED
  BY <1>1, <1>3, <1>4, <1>5, <1>6, <1>7, WhoActs

LEMMA StaleCompletionStays ==
    ASSUME KeptIInv, [SyncNext]_syncVars, CommandIsUpToDate,
           NEW v \in Workers, Completes(v)', NEW j, j = worker'[v].job,
           NEW i, i = jobs'[j].item
    PROVE  Superseded(items'[i], jobs'[j]) \/ jobs'[j].identity.rev = live'[i] \/ Told(i)'
<1>1. SyncIInv
  BY DEF KeptIInv
<1>2. /\ j \in Jobs /\ jobs'[j] = jobs[j]
      /\ \/ UNCHANGED live /\ live[i] = jobs[j].identity.rev
         \/ worker'[v] = worker[v] /\ Completes(v)
  BY <1>1, CompletesBefore
<1>3. CASE worker'[v] = worker[v] /\ Completes(v)
  <2>1. /\ worker[v].job = j /\ Owns(v, j) /\ i = jobs[j].item
        /\ Superseded(items[i], jobs[j]) \/ jobs[j].identity.rev = live[i] \/ Told(i)
    BY <1>2, <1>3 DEF KeptIInv, StaleCompletionIsFollowed, Completes
  <2>2. /\ i \in Items
        /\ \/ items'[i].latest = items[i].latest
           \/ items'[i].latest = NoIdentity
           \/ items'[i].latest.rev = live[i] /\ UNCHANGED live
           \/ \E w \in Workers : /\ CommitIntake(w) /\ worker[w].item = i
                                 /\ worker[w].seen # NoEmail
    BY <1>1, <1>2, <2>1, LatestIsKept
  <2>3. CASE FreshCommit(i)
    BY <1>1, <1>2, <2>2, <2>3, FreshCommitQueues DEF Superseded
  <2>4. CASE ~FreshCommit(i) /\ (Told(i) \/ live'[i] # live[i])
    BY <1>1, <2>2, <2>4, NewsAreKept
  <2>5. CASE ~FreshCommit(i) /\ ~Told(i) /\ live'[i] = live[i]
    <3>1. ASSUME NEW w \in Workers, CommitIntake(w), worker[w].item = i,
                 worker[w].seen # NoEmail
          PROVE  FALSE
      <4>1. worker[w].seen # live[i]
        BY <2>5, <3>1 DEF FreshCommit
      <4>2. Unseen(i)
        BY <1>1, <3>1, <4>1 DEF SyncIInv, StaleIntakeIsFollowed, CommitIntake, Intake
      <4> QED
        BY <2>5, <4>2 DEF Told, ToBeTakenIn
    <3>2. jobs[j].identity # NoIdentity
      BY <1>1, <1>2, <2>1, OwnedRow, NoIdentityIsNoIdentity DEF SyncIInv
    <3> QED
      BY <1>2, <2>1, <2>2, <2>5, <3>1, <3>2 DEF Superseded
  <2> QED
    BY <2>3, <2>4, <2>5
<1> QED
  BY <1>2, <1>3

LEMMA InputStaysKept ==
    ASSUME KeptIInv, [SyncNext]_syncVars, NEW i \in Items
    PROVE  items'[i].state = "ineligible" \/ HasActiveJob(i)' \/ Settled(i)' \/ Told(i)'
<1>1. SyncIInv /\ IInv /\ [Next]_vars
  BY StepsAreTransactions DEF KeptIInv, SyncIInv
<1>2. CASE FreshCommit(i)
  BY <1>1, <1>2, FreshCommitQueues
<1>3. CASE ~FreshCommit(i) /\ (Told(i) \/ live'[i] # live[i])
  BY <1>1, <1>3, NewsAreKept
<1>4. CASE Settled(i) /\ ~Told(i) /\ live'[i] = live[i]
  <2>1. PICK j \in Jobs : /\ jobs[j].status = "completed" /\ jobs[j].item = i
                          /\ jobs[j].identity.rev = live[i]
    BY <1>4 DEF Settled, Told
  <2>2. jobs'[j] = jobs[j]
    BY <1>1, <2>1, EndsAreKept
  <2> QED
    BY <1>4, <2>1, <2>2 DEF Settled
<1>5. CASE /\ items[i].state = "ineligible" \/ HasActiveJob(i)
           /\ ~Told(i) /\ live'[i] = live[i]
  <2>1. Outcome(i)
    BY <1>1, <1>5, WorkHasAnOutcome
  <2>2. ASSUME NEW j \in Jobs, jobs'[j].item = i, jobs'[j].status = "failed"
        PROVE  Told(i)'
    BY <2>2 DEF Told, ReportedFailure
  <2>3. ASSUME NEW j \in Jobs, jobs'[j].item = i, jobs'[j].status = "completed",
               jobs'[j] # jobs[j]
        PROVE  Settled(i)'
    <3>1. PICK w \in Workers : Completes(w) /\ worker[w].job = j /\ Complete(w, j)
      BY <1>1, <2>3, WhoCompletes
    <3>2. CompletesJob(w, j)
      BY <3>1 DEF Complete, CompletesJob
    <3>3. /\ ~Superseded(items[jobs[j].item], jobs[j])
          /\ jobs'[j].item = jobs[j].item /\ jobs'[j].identity = jobs[j].identity
      BY <1>1, <3>2, CompletionMoves DEF MovedRow
    <3>4. jobs[j].identity.rev = live[i]
      BY <1>5, <2>3, <3>1, <3>3 DEF KeptIInv, StaleCompletionIsFollowed
    <3> QED
      BY <1>5, <2>3, <3>3, <3>4 DEF Settled
  <2> QED
    BY <2>1, <2>2, <2>3 DEF Outcome
<1>6. items[i].state = "ineligible" \/ HasActiveJob(i) \/ Settled(i) \/ Told(i)
  BY DEF KeptIInv, InputIsKept
<1> QED
  BY <1>2, <1>3, <1>4, <1>5, <1>6

LEMMA KeptNextInv ==
    KeptIInv /\ CommandIsUpToDate /\ [SyncNext]_syncVars => KeptIInv'
<1> SUFFICES ASSUME KeptIInv, CommandIsUpToDate, [SyncNext]_syncVars
             PROVE  KeptIInv'
  OBVIOUS
<1>1. SyncIInv'
  BY SyncNextInv DEF KeptIInv
<1>2. StaleCompletionIsFollowed'
  BY StaleCompletionStays DEF StaleCompletionIsFollowed
<1>3. InputIsKept'
  BY InputStaysKept DEF InputIsKept
<1> QED
  BY <1>1, <1>2, <1>3 DEF KeptIInv

LEMMA KeptIsEnough == KeptIInv => EligibleInputKept
<1> SUFFICES ASSUME KeptIInv, NEW i \in Items, AtRest(i), items[i].state # "ineligible"
             PROVE  Settled(i)
  BY DEF EligibleInputKept
<1>1. ~Unseen(i)
  BY DEF AtRest, Pending, Unseen, DueOrSent
<1>2. ~IntakeRunning(i)
  <2> SUFFICES ASSUME NEW w \in Workers, Intake(w), worker[w].item = i PROVE FALSE
    BY DEF IntakeRunning, Intake
  <2>1. SyncIInv
    BY DEF KeptIInv
  <2>2. PICK e \in worker[w].batch : e \in Events
    BY <2>1, IntakeFacts DEF SyncIInv, BatchIsDue
  <2>3. events[e].status \in {"received", "retry"} /\ events[e].item = i
    BY <2>1, <2>2, IntakeFacts
  <2> QED
    BY <2>2, <2>3 DEF AtRest, Pending
<1> QED
  BY <1>1, <1>2 DEF KeptIInv, InputIsKept, AtRest, Settled, Told, ToBeTakenIn

(* Unless `operator enqueue` or `operator reconcile` commits a snapshot that Monday no longer
   shows, no edit of an eligible item is lost: once its webhooks are taken in and its jobs
   have ended, its present input has a result or somebody was told of a failure, whatever
   workers and intakes had read too early. *)
THEOREM EligibleInputIsKept ==
    SyncSpec /\ []CommandIsUpToDate => []EligibleInputKept
<1>1. SyncInit => KeptIInv
  BY SyncInitInv
<1> QED
  BY <1>1, KeptNextInv, KeptIsEnough, PTL DEF SyncSpec
=============================================================================
