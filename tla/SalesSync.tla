------------------------------ MODULE SalesSync ------------------------------
(***************************************************************************)
(* The whole loop around the queue: people edit the Email File column of a *)
(* Sales item on Monday, Monday sends webhooks, background workers take    *)
(* them in, claim jobs and run the pipeline, an operator commands.       *)
(* Everyone reads Monday first and commits later, so every snapshot may be *)
(* stale when it is used.  The transactions are those of ProcessingQueue.  *)
(***************************************************************************)
EXTENDS ProcessingQueue, FiniteSets

CONSTANTS
    Events,             \* webhook_events rows, one per edit: bounds the edits
    Inputs,             \* what an edit may leave: revisions, or NoEmail
    NoEmail,            \* the Email File column holds no supported file
    Unread,             \* the worker has not read Monday in this stage
    PublicationAllowed, \* publication_allowed(mode, item): not a shadow run
    MaxIntakeAttempts,  \* MAX_INTAKE_ATTEMPTS
    MaxFaults,          \* bound: failures that are not charged to a job, and crashes
    MaxCommands         \* bound: operator commands on jobs and items

Snapshots == Revisions \union {NoEmail}

ASSUME InputsAreSnapshots == Inputs \subseteq Snapshots
ASSUME NoEmailIsNoRevision == NoEmail \notin Revisions
ASSUME SyncBounds == /\ PublicationAllowed \in BOOLEAN
                     /\ MaxIntakeAttempts \in Nat \ {0}
                     /\ MaxFaults \in Nat /\ MaxCommands \in Nat

\* A webhook: under way, or a webhook_events row that is received, failed with a
\* next_retry_at ("retry"), failed without one ("exhausted") or processed.
EventRow == [item : Items, attempts : 0 .. MaxIntakeAttempts,
             status : {"sent", "received", "retry", "exhausted", "processed"}]

NoEvent == [status |-> "none"]

\* What a worker process holds in memory between two transactions.
Idle == [phase |-> "idle"]

InIntake == [phase : {"intake"}, item : Items, batch : SUBSET Events, seen : Snapshots]

\* "stage": about to run the job's stage; "commit": the stage's work is done;
\* "reread": its input turned out to be superseded; "replace": holds the snapshot
\* for which it replaces the job.
InPipeline == [phase : {"stage", "commit", "reread", "replace"}, job : Jobs,
               seen : Snapshots \union {Unread}]

OperatorIdle == [item |-> "none"]

VARIABLES
    live,        \* Monday: the input each Sales item has now
    events,      \* the webhooks, and their rows in webhook_events
    worker,      \* memory of each worker process
    operator,    \* the snapshot an `operator enqueue` or `operator reconcile` holds
    faults, commands

syncVars == <<items, jobs, live, events, worker, operator, faults, commands>>

\* Type invariant of the queue and of what surrounds it; no job is ever queued for
\* a snapshot that holds no email.
SyncTypeOK ==
    /\ TypeOK
    /\ live \in [Items -> Snapshots]
    /\ events \in [Events -> EventRow \union {NoEvent}]
    /\ worker \in [Workers -> {Idle} \union InIntake \union InPipeline]
    /\ operator \in {OperatorIdle} \union [item : Items, seen : Snapshots]
    /\ faults \in 0 .. MaxFaults /\ commands \in 0 .. MaxCommands

SyncInit ==
    /\ Init
    /\ live = [i \in Items |-> NoEmail]
    /\ events = [e \in Events |-> NoEvent]
    /\ worker = [w \in Workers |-> Idle]
    /\ operator = OperatorIdle
    /\ faults = 0 /\ commands = 0

IdentityOf(snapshot, ver) ==
    IF snapshot = NoEmail THEN NoIdentity ELSE [rev |-> snapshot, ver |-> ver]

Working(w) == worker[w].phase \notin {"idle", "intake"}

-----------------------------------------------------------------------------
(* Monday *)

\* Somebody changes the Email File column and Monday will send a webhook for it, also
\* when the change leaves the supported emails, which make the input, as they were.
Edit(i, input) ==
    /\ \E e \in Events :
          /\ events[e] = NoEvent
          /\ events' = [events EXCEPT ![e] = [item |-> i, status |-> "sent", attempts |-> 0]]
    /\ live' = [live EXCEPT ![i] = input]
    /\ UNCHANGED <<items, jobs, worker, operator, faults, commands>>

\* monday_webhook commits the event before it acknowledges it; a second delivery
\* finds the idempotency key and changes nothing.
Deliver(e) ==
    /\ events[e].status = "sent"
    /\ events' = [events EXCEPT ![e].status = "received"]
    /\ UNCHANGED <<items, jobs, live, worker, operator, faults, commands>>

-----------------------------------------------------------------------------
(* Webhook intake: one transaction that holds the item's advisory lock and its
   due event rows while it reads Monday. *)

OfItem(i, status) == {e \in Events : events[e].status = status /\ events[e].item = i}

IntakeRunning(i) == \E w \in Workers : worker[w].phase = "intake" /\ worker[w].item = i

DueWhenReceivedOnly(i) == {OfItem(i, "received")} \ {{}}

\* _due: every received event, and each failed one whose next_retry_at has passed.
DueBatches(i) ==
    {OfItem(i, "received") \union retries : retries \in SUBSET OfItem(i, "retry")} \ {{}}

BeginIntake(w, i) ==
    /\ worker[w] = Idle
    /\ ~IntakeRunning(i)
    /\ \E batch \in DueBatches(i) :
          worker' = [worker EXCEPT ![w] = [phase |-> "intake", item |-> i,
                                           batch |-> batch, seen |-> live[i]]]
    /\ UNCHANGED <<items, jobs, live, events, operator, faults, commands>>

QueueUnfiltered(i, snapshot) ==
    \E ver \in Versions : QueueSnapshot(i, IdentityOf(snapshot, ver), FALSE)

\* Every event of a batch queues the one snapshot; after the first the others
\* coalesce without effect.  An ineligible snapshot is not queued.
QueueEligible(i, snapshot) ==
    \/ snapshot = NoEmail /\ UNCHANGED <<items, jobs>>
    \/ /\ snapshot # NoEmail
       /\ \E ver \in Versions : QueueSnapshot(i, IdentityOf(snapshot, ver), FALSE)

EndedAllReceived(batch, i) ==
    [e \in Events |-> IF e \in batch \union OfItem(i, "received")
                      THEN [events[e] EXCEPT !.status = "processed"] ELSE events[e]]

EndedEvents(batch, i) ==
    [e \in Events |-> IF e \in batch
                      THEN [events[e] EXCEPT !.status = "processed"] ELSE events[e]]

CommitIntake(w) ==
    /\ worker[w].phase = "intake"
    /\ QueueEligible(worker[w].item, worker[w].seen)
    /\ events' = EndedEvents(worker[w].batch, worker[w].item)
    /\ worker' = [worker EXCEPT ![w] = Idle]
    /\ UNCHANGED <<live, operator, faults, commands>>

ChargedEvent(event, retryable) ==
    [event EXCEPT !.attempts = event.attempts + 1,
                  !.status = IF retryable /\ event.attempts + 1 < MaxIntakeAttempts
                             THEN "retry" ELSE "exhausted"]

DeferredEvent(event) == [event EXCEPT !.status = "retry"]

\* The savepoint rolls the queue back and the same transaction accounts for the
\* failure; a capacity limit of Monday costs the events no attempt.
FailIntake(w) ==
    /\ worker[w].phase = "intake"
    /\ faults < MaxFaults /\ faults' = faults + 1
    /\ \E kind \in {"deferred", "retryable", "permanent"} :
          events' = [e \in Events |->
                        IF e \notin worker[w].batch THEN events[e]
                        ELSE IF kind = "deferred" THEN DeferredEvent(events[e])
                        ELSE ChargedEvent(events[e], kind = "retryable")]
    /\ worker' = [worker EXCEPT ![w] = Idle]
    /\ UNCHANGED <<items, jobs, live, operator, commands>>

\* `operator retry-webhook`
RetryFailedWebhook(e) ==
    /\ events[e].status \in {"retry", "exhausted"}
    /\ ~\E w \in Workers : worker[w].phase = "intake" /\ e \in worker[w].batch
    /\ events' = [events EXCEPT ![e].status = "received", ![e].attempts = 0]
    /\ UNCHANGED <<items, jobs, live, worker, operator, faults, commands>>

-----------------------------------------------------------------------------
(* A worker's job *)

ClaimJob(w, j) ==
    /\ worker[w] = Idle
    /\ Claim(w, j)
    /\ worker' = [worker EXCEPT ![w] = [phase |-> "stage", job |-> j, seen |-> Unread]]
    /\ UNCHANGED <<live, events, operator, faults, commands>>

\* _completed_extraction_checkpoint: evidence of a completed job for the same input
\* (which the code takes unless its context changed) replaces the extraction.
Reusable(j) ==
    /\ jobs[j].checkpoint # "forced"
    /\ \E k \in Jobs : /\ jobs[k].status = "completed"
                       /\ jobs[k].item = jobs[j].item
                       /\ jobs[k].identity = jobs[j].identity

ValidatesUnread(j) ==
    \/ jobs[j].stage = "extracting" /\ Reusable(j)
    \/ jobs[j].stage = "validating"

\* Stages that may read no input: a reused extraction, and the validation before a
\* publication, which reads it itself.
ReadsNothing(j) ==
    \/ jobs[j].stage = "extracting" /\ Reusable(j)
    \/ jobs[j].stage = "validating" /\ PublicationAllowed

SkipRead(w) ==
    /\ worker[w].phase = "stage"
    /\ Owns(w, worker[w].job)
    /\ ReadsNothing(worker[w].job)
    /\ worker' = [worker EXCEPT ![w].phase = "commit"]
    /\ UNCHANGED <<items, jobs, live, events, operator, faults, commands>>

\* The stage reads the item and compares it with the job's input.  A mismatch
\* before publishing (StalePublicationError) leads to a second read.
ReadInput(w) ==
    /\ worker[w].phase = "stage"
    /\ LET j    == worker[w].job
           seen == live[jobs[j].item]
       IN  /\ Owns(w, j)
           /\ ~(jobs[j].stage = "validating" /\ PublicationAllowed)
           /\ worker' = [worker EXCEPT ![w] =
                 [phase |-> IF seen = jobs[j].identity.rev THEN "commit"
                            ELSE IF jobs[j].stage = "publishing" THEN "reread" ELSE "replace",
                  job |-> j, seen |-> seen]]
    /\ UNCHANGED <<items, jobs, live, events, operator, faults, commands>>

Checkpoint(w, j) ==
    \/ CheckpointExtraction(w, j)
    \/ CheckpointMatching(w, j)
    \/ PublicationAllowed /\ CheckpointValidation(w, j)

Complete(w, j) ==
    \/ ~PublicationAllowed /\ CompleteShadow(w, j)
    \/ CompletePublication(w, j)

\* The transaction at the end of a stage.
CommitStage(w) ==
    /\ worker[w].phase = "commit"
    /\ LET j == worker[w].job IN
       \/ /\ Checkpoint(w, j)
          /\ worker' = [worker EXCEPT ![w].phase = "stage", ![w].seen = Unread]
       \/ /\ Complete(w, j)
          /\ worker' = [worker EXCEPT ![w] = Idle]
       \/ /\ Owns(w, j) /\ Superseded(items[jobs[j].item], jobs[j])
          /\ worker' = [worker EXCEPT ![w].phase = "reread"]
          /\ UNCHANGED <<items, jobs>>
    /\ UNCHANGED <<live, events, operator, faults, commands>>

\* _replace_with_authoritative_input up to its read of Monday
RereadInput(w) ==
    /\ worker[w].phase = "reread"
    /\ Owns(w, worker[w].job)
    /\ worker' = [worker EXCEPT ![w].phase = "replace",
                                ![w].seen = live[jobs[worker[w].job].item]]
    /\ UNCHANGED <<items, jobs, live, events, operator, faults, commands>>

\* _replace_with_snapshot
ReplaceInput(w) ==
    /\ worker[w].phase = "replace"
    /\ LET j == worker[w].job
       IN  Supersede(w, j, IdentityOf(worker[w].seen, jobs[j].identity.ver))
    /\ worker' = [worker EXCEPT ![w] = Idle]
    /\ UNCHANGED <<live, events, operator, faults, commands>>

\* Any error of the pipeline, as process_next_job records it.
FailJob(w) ==
    /\ Working(w)
    /\ LET j == worker[w].job
       IN  FailPermanently(w, j) \/ FailRetryably(w, j)
    /\ worker' = [worker EXCEPT ![w] = Idle]
    /\ UNCHANGED <<live, events, operator, faults, commands>>

DeferJob(w) ==
    /\ Working(w)
    /\ Defer(w, worker[w].job)
    /\ faults < MaxFaults /\ faults' = faults + 1
    /\ worker' = [worker EXCEPT ![w] = Idle]
    /\ UNCHANGED <<live, events, operator, commands>>

\* JobLeaseError: the lease was recovered meanwhile, nothing is written.
LoseLease(w) ==
    /\ Working(w)
    /\ ~Owns(w, worker[w].job)
    /\ worker' = [worker EXCEPT ![w] = Idle]
    /\ UNCHANGED <<items, jobs, live, events, operator, faults, commands>>

\* The process dies and is started again: an intake transaction is rolled back,
\* a job stays leased until it is stale.
Crash(w) ==
    /\ worker[w] # Idle
    /\ faults < MaxFaults /\ faults' = faults + 1
    /\ worker' = [worker EXCEPT ![w] = Idle]
    /\ UNCHANGED <<items, jobs, live, events, operator, commands>>

\* Nobody sends heartbeats for the lease any more.
Orphaned(j) == /\ jobs[j].status = "running"
               /\ ~\E w \in Workers : Working(w) /\ worker[w].job = j /\ Owns(w, j)

\* A stale lease is recovered; WorkerLease shows that the lease of a worker that
\* still runs can become stale too.
RecoverLease(j) ==
    /\ RecoverStale(j)
    /\ UNCHANGED <<live, events, worker, operator, faults, commands>>

-----------------------------------------------------------------------------
(* Operator commands: enqueue and reconcile read Monday, then lock and commit. *)

OperatorReads(i) ==
    /\ operator = OperatorIdle
    /\ commands < MaxCommands /\ commands' = commands + 1
    /\ operator' = [item |-> i, seen |-> live[i]]
    /\ UNCHANGED <<items, jobs, live, events, worker, faults>>

OperatorCommits ==
    /\ operator # OperatorIdle
    /\ \/ operator.seen = NoEmail /\ ReconcileIneligible(operator.item)
       \/ /\ operator.seen # NoEmail
          /\ \E ver \in Versions, forced \in BOOLEAN :
                QueueSnapshot(operator.item, IdentityOf(operator.seen, ver), forced)
       \* The command fails: forced with an active job, an ineligible item to enqueue,
       \* or an error of the database.
       \/ UNCHANGED <<items, jobs>>
    /\ operator' = OperatorIdle
    /\ UNCHANGED <<live, events, worker, faults, commands>>

OperatorRetries(j) ==
    /\ commands < MaxCommands /\ commands' = commands + 1
    /\ RetryFailedJob(j)
    /\ UNCHANGED <<live, events, worker, operator, faults>>

-----------------------------------------------------------------------------
WorkerProgress(w) ==
    \/ CommitIntake(w)
    \/ SkipRead(w) \/ ReadInput(w) \/ CommitStage(w)
    \/ RereadInput(w) \/ ReplaceInput(w) \/ LoseLease(w)

SyncNext ==
    \/ \E i \in Items, input \in Inputs : Edit(i, input)
    \/ \E e \in Events : Deliver(e) \/ RetryFailedWebhook(e)
    \/ \E w \in Workers, i \in Items : BeginIntake(w, i)
    \/ \E w \in Workers, j \in Jobs : ClaimJob(w, j)
    \/ \E w \in Workers : \/ WorkerProgress(w)
                          \/ FailIntake(w) \/ FailJob(w) \/ DeferJob(w) \/ Crash(w)
    \/ \E j \in Jobs : RecoverLease(j) \/ OperatorRetries(j)
    \/ \E i \in Items : OperatorReads(i)
    \/ OperatorCommits

\* Monday delivers webhooks, a worker process polls for ever and is restarted when
\* it dies, an orphaned lease becomes stale.  Nothing makes anyone edit or fail.
SyncFairness ==
    /\ \A e \in Events : WF_syncVars(Deliver(e))
    /\ \A i \in Items : WF_syncVars(\E w \in Workers : BeginIntake(w, i))
    /\ \A j \in Jobs : /\ WF_syncVars(\E w \in Workers : ClaimJob(w, j))
                       /\ WF_syncVars(Orphaned(j) /\ RecoverLease(j))
    /\ \A w \in Workers : WF_syncVars(WorkerProgress(w))
    /\ WF_syncVars(OperatorCommits)

SyncSpec == SyncInit /\ [][SyncNext]_syncVars /\ SyncFairness

-----------------------------------------------------------------------------
(* Properties *)

Pending(i) == \E e \in Events : /\ events[e].status \in {"sent", "received", "retry"}
                                /\ events[e].item = i

\* Nothing will happen to the item unless somebody acts.
AtRest(i) == /\ ~Pending(i)
             /\ ~HasActiveJob(i)
             /\ operator.item # i

\* A failure an operator can see on a job or on a webhook of the item.
ReportedFailure(i) ==
    \/ \E j \in Jobs : jobs[j].status = "failed" /\ jobs[j].item = i
    \/ \E e \in Events : events[e].status = "exhausted" /\ events[e].item = i

\* The input the item has on Monday was processed to completion, or a failure
\* was reported.
Settled(i) ==
    \/ live[i] = NoEmail
    \/ ReportedFailure(i)
    \/ \E j \in Jobs : /\ jobs[j].status = "completed" /\ jobs[j].item = i
                       /\ jobs[j].identity.rev = live[i]

\* No edit is lost: once nothing is left to do for an item that is not recorded as
\* ineligible, its present input is settled, however the reads of Monday and the
\* commits of intake, workers and operator interleaved.
EligibleInputKept ==
    \A i \in Items : AtRest(i) /\ items[i].state # "ineligible" => Settled(i)

\* The same for every item: when a snapshot without email is committed, it is still
\* what Monday shows or a webhook that tells otherwise is still to be taken in.
\* "the worker cancels the leased job and creates an immutable successor for the
\* authoritative snapshot" (README.md:320-322).
InputNeverLost == \A i \in Items : AtRest(i) => Settled(i)

\* A job completes only if, in the stage that completes it, its worker has read from
\* Monday the very input the job is for: no stage relies on an earlier stage's read.
CompletesWhatWasRead ==
    [][\A w \in Workers, j \in Jobs :
          Owns(w, j) /\ jobs'[j].status = "completed" =>
             worker[w].phase = "commit" /\ worker[w].seen = jobs[j].identity.rev]_syncVars

\* After the last edit, every webhook is taken in and every job ends, whichever
\* processes crash and however snapshots were superseded: the item comes to rest.
ComesToRest == \A i \in Items : <>[]AtRest(i)
=============================================================================
