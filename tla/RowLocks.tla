------------------------------ MODULE RowLocks ------------------------------
(***************************************************************************)
(* The transactions of the webhook route and of the workers, lock by lock. *)
(* ProcessingQueue and SalesSync take each of them for one atomic step;    *)
(* here they are taken apart: which rows each locks and in which order,    *)
(* where it waits, what a deadlock that PostgreSQL resolves does to whom,  *)
(* and how two deliveries of one webhook meet.  What a pipeline computes,  *)
(* attempts of jobs and all times are left out: a failed event is due      *)
(* again at once, any running job may be found stale.                      *)
(***************************************************************************)
EXTENDS Naturals, FiniteSets

CONSTANTS
    Events,       \* webhook_events rows, numbered in the order of received_at
    ItemOf,       \* the Sales item of each event
    Stored,       \* the events that are stored already; the others are delivered
    Tried,        \* how often the intake of each of them has failed
    Requests,     \* deliveries: HTTP requests of Monday, repeated ones among them
    EventOf,      \* the event each of them delivers
    Workers,
    MaxAttempts,  \* MAX_INTAKE_ATTEMPTS
    Nobody        \* no process

ASSUME EventsAreNumbered == Events \subseteq Nat /\ Stored \subseteq Events
ASSUME StoredAreDue == Tried \in [Stored -> 0 .. MaxAttempts - 1]
ASSUME AttemptsPositive == MaxAttempts \in Nat \ {0}

Items == {ItemOf[e] : e \in Events}

ASSUME DeliveriesHaveEvents == EventOf \in [Requests -> Events]
ASSUME NobodyIsNoProcess == Nobody \notin Requests \union Workers
ASSUME RequestsAreNoWorkers == Requests \intersect Workers = {}

Processes == Requests \union Workers

\* What a transaction can lock: an event row, the unique key of an event that is being
\* inserted, the advisory lock and the row of an item, and its active job (at most one).
EventRow(e) == <<"event", e>>
Key(e)      == <<"key", e>>
Advisory(i) == <<"advisory", i>>
ItemRow(i)  == <<"item", i>>
JobRow(i)   == <<"job", i>>

Resources == {EventRow(e) : e \in Events} \union {Key(e) : e \in Events}
             \union {Advisory(i) : i \in Items} \union {ItemRow(i) : i \in Items}
             \union {JobRow(i) : i \in Items}

Answers == {"accepted", "duplicate"}

RequestPoints == {"sent", "insert", "inserted", "lost"} \union Answers

\* Where a worker is, in the order of process_next_job: the intake of one item, the
\* transaction that recovers stale jobs and claims one, the job's transactions.
IntakePoints == {"poll", "advisory", "batch", "read", "queue_item", "queue_job"}
JobPoints    == {"recover", "recover_item", "claim", "checkpoint_job", "checkpoint_item",
                 "failure_job", "failure_item", "ended"}

\* Between two transactions a process holds no lock.
Outside == {"sent", "insert", "lost", "poll", "recover", "checkpoint_job",
            "failure_job", "ended"} \union Answers

VARIABLES
    event,   \* webhook_events: status ("due" if received, or failed with a next_retry_at)
             \* and attempt_count
    job,     \* the active job of each item, if any, and who claimed it
    holds,   \* the locks each process holds
    at,      \* where each process is
    item,    \* the item a worker's transaction is about
    todo,    \* event rows it still has to lock, or items of the stale jobs it locked
    batch    \* the events its intake has locked

vars == <<event, job, holds, at, item, todo, batch>>

\* Type invariant; a process holds locks only inside its transactions, and alone.
TypeOK ==
    /\ event \in [Events -> [status : {"none", "due", "exhausted", "processed"},
                             attempts : 0 .. MaxAttempts]]
    /\ job \in [Items -> [status : {"none", "waiting", "running"},
                          owner : Workers \union {Nobody}]]
    /\ holds \in [Processes -> SUBSET Resources]
    /\ at \in [Processes -> RequestPoints \union IntakePoints \union JobPoints]
    /\ item \in [Workers -> Items \union {Nobody}]
    /\ todo \in [Workers -> (SUBSET Events) \union (SUBSET Items)]
    /\ batch \in [Workers -> SUBSET Events]
    /\ \A p \in Processes : at[p] \in Outside => holds[p] = {}
    /\ \A p, q \in Processes : p = q \/ holds[p] \intersect holds[q] = {}

NoJob == [status |-> "none", owner |-> Nobody]

WaitingJob == [status |-> "waiting", owner |-> Nobody]

Init ==
    /\ event = [e \in Events |->
                  IF e \in Stored
                  THEN [status |-> "due", attempts |-> Tried[e]]
                  ELSE [status |-> "none", attempts |-> 0]]
    /\ job = [i \in Items |-> NoJob]
    /\ holds = [p \in Processes |-> {}]
    /\ at = [p \in Processes |-> IF p \in Requests THEN "sent" ELSE "poll"]
    /\ item = [w \in Workers |-> Nobody]
    /\ todo = [w \in Workers |-> {}]
    /\ batch = [w \in Workers |-> {}]

-----------------------------------------------------------------------------
(* Locks *)

Free(r) == \A p \in Processes : r \notin holds[p]

\* SELECT ... FOR UPDATE goes on once nobody else holds the rows.
Lock(p, locks) ==
    /\ \A q \in Processes \ {p} : holds[q] \intersect locks = {}
    /\ holds' = [holds EXCEPT ![p] = @ \union locks]

AdvisoryKept(p) == holds' = [holds EXCEPT ![p] = @ \intersect {Advisory(i) : i \in Items}]

\* Commit and rollback release everything, the advisory lock of the transaction too.
Release(p) == holds' = [holds EXCEPT ![p] = {}]

First(numbers) == CHOOSE n \in numbers : \A m \in numbers : n <= m

\* The lock at which a process waits if somebody else holds it.
Wanted(p) ==
    CASE at[p] = "insert"    -> {Key(EventOf[p])}
      [] at[p] = "batch"     -> {EventRow(First(todo[p]))}
      [] at[p] \in {"queue_item", "recover_item", "checkpoint_item", "failure_item"}
                             -> {ItemRow(item[p])}
      [] at[p] \in {"checkpoint_job", "failure_job"} -> {JobRow(item[p])}
      [] at[p] = "queue_job" -> IF job[item[p]] = NoJob THEN {} ELSE {JobRow(item[p])}
      [] OTHER               -> {}

Blockers(p) == {q \in Processes \ {p} : holds[q] \intersect Wanted(p) # {}}

\* Processes that wait in a circle.
Circle(circle) == circle # {} /\ UNION {Blockers(p) : p \in circle} = circle

-----------------------------------------------------------------------------
(* The webhook route *)

IsStored(e) == event[e].status # "none"

GoTo(p, point) == at' = [at EXCEPT ![p] = point]

\* _claim_event: the event is looked up by its idempotency key first.
Look(d) ==
    /\ at[d] = "sent"
    /\ GoTo(d, IF IsStored(EventOf[d]) THEN "duplicate" ELSE "insert")
    /\ UNCHANGED <<event, job, holds, item, todo, batch>>

AnswerBeforeCommit(d) ==
    /\ at[d] = "insert" /\ Free(Key(EventOf[d]))
    /\ GoTo(d, IF IsStored(EventOf[d]) THEN "duplicate" ELSE "accepted")
    /\ UNCHANGED <<event, job, holds, item, todo, batch>>

InsertUnkeyed(d) ==
    /\ at[d] = "insert"
    /\ GoTo(d, "inserted")
    /\ UNCHANGED <<event, job, holds, item, todo, batch>>

\* The insert waits for another one of the same key; if that was committed the
\* IntegrityError leads to the stored row.
Insert(d) ==
    /\ at[d] = "insert" /\ Free(Key(EventOf[d]))
    /\ IF IsStored(EventOf[d])
       THEN GoTo(d, "duplicate") /\ UNCHANGED holds
       ELSE GoTo(d, "inserted") /\ Lock(d, {Key(EventOf[d])})
    /\ UNCHANGED <<event, job, item, todo, batch>>

Commit(d) ==
    /\ at[d] = "inserted"
    /\ event' = [event EXCEPT ![EventOf[d]] = [status |-> "due", attempts |-> 0]]
    /\ Release(d)
    /\ GoTo(d, "accepted")
    /\ UNCHANGED <<job, item, todo, batch>>

\* The request dies before its commit; another one is Monday's next delivery.
Lose(d) ==
    /\ at[d] \in {"insert", "inserted"}
    /\ Release(d)
    /\ GoTo(d, "lost")
    /\ UNCHANGED <<event, job, item, todo, batch>>

-----------------------------------------------------------------------------
(* process_next_webhook_intake *)

Due(e) == event[e].status = "due"

\* The oldest due event that nobody has locked.
SelectCandidate(w) ==
    /\ at[w] = "poll"
    /\ LET candidates == {e \in Events : Due(e) /\ Free(EventRow(e))} IN
       IF candidates = {}
       THEN GoTo(w, "recover") /\ UNCHANGED <<holds, item>>
       ELSE /\ Lock(w, {EventRow(First(candidates))})
            /\ item' = [item EXCEPT ![w] = ItemOf[First(candidates)]]
            /\ GoTo(w, "advisory")
    /\ UNCHANGED <<event, job, todo, batch>>

\* What the intake holds for its item: the due events, as the statement sees them.
BeginBatch(w) ==
    /\ todo' = [todo EXCEPT ![w] = {e \in Events : Due(e) /\ ItemOf[e] = item[w]}]
    /\ GoTo(w, "batch")

NoAdvisoryLock(w) ==
    /\ at[w] = "advisory"
    /\ BeginBatch(w)
    /\ UNCHANGED <<event, job, holds, item, batch>>

\* pg_try_advisory_xact_lock: if another intake has the item, this one gives way and
\* the poll goes on without any intake.
TryAdvisoryLock(w) ==
    /\ at[w] = "advisory"
    /\ IF Free(Advisory(item[w]))
       THEN Lock(w, {Advisory(item[w])}) /\ BeginBatch(w)
       ELSE Release(w) /\ GoTo(w, "recover") /\ UNCHANGED todo
    /\ item' = IF Free(Advisory(item[w])) THEN item ELSE [item EXCEPT ![w] = Nobody]
    /\ UNCHANGED <<event, job, batch>>

\* The events of the batch are locked one by one; one that is due no more is left out.
LockEvent(w) ==
    LET e == First(todo[w]) IN
    /\ at[w] = "batch"
    /\ Lock(w, {EventRow(e)})
    /\ todo' = [todo EXCEPT ![w] = @ \ {e}]
    /\ batch' = [batch EXCEPT ![w] = IF Due(e) THEN @ \union {e} ELSE @]
    /\ IF todo[w] = {e} THEN GoTo(w, "read") ELSE UNCHANGED at
    /\ UNCHANGED <<event, job, item>>

\* The intake's transaction ends with the given outcome of its events.
EndIntake(w, outcome) ==
    /\ event' = [e \in Events |-> IF e \in batch[w] THEN outcome[e] ELSE event[e]]
    /\ batch' = [batch EXCEPT ![w] = {}]
    /\ item' = [item EXCEPT ![w] = Nobody]
    /\ Release(w)
    /\ GoTo(w, "recover")

\* The attempt of a success is not counted here: nothing reads it any more.
Processed == [e \in Events |-> [status |-> "processed", attempts |-> event[e].attempts]]

\* The failures that count: one that may pass, and one that may not.
Failures == {"transient", "permanent"}

\* A quota or a cooldown defers the events, whatever they have spent, and charges nothing.
Deferred == [e \in Events |-> [status |-> "due", attempts |-> event[e].attempts]]

ComparedNotCounted(failure) ==
    [e \in Events |->
        [status |-> IF failure = "transient" /\ event[e].attempts < MaxAttempts
                    THEN "due" ELSE "exhausted",
         attempts |-> event[e].attempts]]

\* Any other exception of the savepoint costs each event an attempt; one that cannot be
\* retried ends them at once.
Charged(failure) ==
    [e \in Events |->
        [status |-> IF failure = "transient" /\ event[e].attempts + 1 < MaxAttempts
                    THEN "due" ELSE "exhausted",
         attempts |-> event[e].attempts + 1]]

\* Monday is read with the locks held.  It answers: the item is to be queued, or is not
\* eligible, or there is a failure that counts.
ReadAnswered(w) ==
    /\ at[w] = "read"
    /\ \/ GoTo(w, "queue_item") /\ UNCHANGED <<event, batch, item, holds>>
       \/ EndIntake(w, Processed)
       \/ \E failure \in Failures : EndIntake(w, Charged(failure))
    /\ UNCHANGED <<job, todo>>

\* Or a limit refuses the read.
ReadDeferred(w) ==
    /\ at[w] = "read"
    /\ EndIntake(w, Deferred)
    /\ UNCHANGED <<job, todo>>

\* queue_sales_item_snapshot: the item row, then its active job.
QueueItem(w) ==
    /\ at[w] = "queue_item"
    /\ Lock(w, {ItemRow(item[w])})
    /\ GoTo(w, "queue_job")
    /\ UNCHANGED <<event, job, item, todo, batch>>

\* Nothing waits after this lock: queueing and the commit are part of the step.
QueueJob(w) ==
    /\ at[w] = "queue_job" /\ Blockers(w) = {}
    /\ job' = [job EXCEPT ![item[w]] = IF @ = NoJob THEN WaitingJob ELSE @]
    /\ EndIntake(w, Processed)
    /\ UNCHANGED todo

-----------------------------------------------------------------------------
(* The transaction that recovers and claims, and those of the claimed job *)

\* The recovery goes on with the items of the stale jobs, in any order.
RecoverNext(w, stale) ==
    /\ todo' = [todo EXCEPT ![w] = stale]
    /\ IF stale = {} THEN GoTo(w, "claim") /\ item' = [item EXCEPT ![w] = Nobody]
       ELSE GoTo(w, "recover_item") /\ \E i \in stale : item' = [item EXCEPT ![w] = i]

\* recover_stale_jobs: the stale jobs are locked by one statement that skips locked rows.
LockStaleJobs(w) ==
    /\ at[w] = "recover"
    /\ \E stale \in SUBSET {i \in Items : job[i].status = "running" /\ Free(JobRow(i))} :
          /\ Lock(w, {JobRow(i) : i \in stale})
          /\ RecoverNext(w, stale)
    /\ UNCHANGED <<event, job, batch>>

RecoverItem(w) ==
    /\ at[w] = "recover_item"
    /\ Lock(w, {ItemRow(item[w])})
    /\ \E row \in {WaitingJob, NoJob} : job' = [job EXCEPT ![item[w]] = row]
    /\ RecoverNext(w, todo[w] \ {item[w]})
    /\ UNCHANGED <<event, batch>>

\* The job's next transaction: a checkpoint, or the record of a failure.
NextStage(w) == \E point \in {"checkpoint_job", "failure_job"} : GoTo(w, point)

\* claim_next_job locks the job and its item or skips them; a waiting job need not
\* be due.
ClaimAndCommit(w) ==
    /\ at[w] = "claim"
    /\ \/ \E i \in Items :
             /\ job[i] = WaitingJob /\ Free(JobRow(i)) /\ Free(ItemRow(i))
             /\ job' = [job EXCEPT ![i] = [status |-> "running", owner |-> w]]
             /\ item' = [item EXCEPT ![w] = i]
             /\ NextStage(w)
       \/ /\ item' = [item EXCEPT ![w] = Nobody]
          /\ GoTo(w, "poll")
          /\ UNCHANGED job
    /\ Release(w)
    /\ UNCHANGED <<event, todo, batch>>

\* lock_owned_job: the wait for the row may end with the lease lost.
LockOwnedJob(w, from, to) ==
    /\ at[w] = from /\ Blockers(w) = {}
    /\ IF job[item[w]] = [status |-> "running", owner |-> w]
       THEN Lock(w, {JobRow(item[w])}) /\ GoTo(w, to) /\ UNCHANGED item
       ELSE GoTo(w, "poll") /\ item' = [item EXCEPT ![w] = Nobody] /\ UNCHANGED holds
    /\ UNCHANGED <<event, job, todo, batch>>

\* The transaction locks the item, ends the lease with the row given, and commits.
EndJob(w, from, rows) ==
    /\ at[w] = from /\ Blockers(w) = {}
    /\ \E row \in rows : job' = [job EXCEPT ![item[w]] = row]
    /\ Release(w)
    /\ item' = [item EXCEPT ![w] = Nobody]
    /\ GoTo(w, "poll")
    /\ UNCHANGED <<event, todo, batch>>

\* A stage is checkpointed and the next begins.
Checkpoint(w) ==
    /\ at[w] = "checkpoint_item" /\ Blockers(w) = {}
    /\ Release(w)
    /\ NextStage(w)
    /\ UNCHANGED <<event, job, item, todo, batch>>

-----------------------------------------------------------------------------
(* Deadlocks, which PostgreSQL ends by aborting the statement of one of the waiting *)

\* In the savepoint of an intake, which still holds its events: they are charged, for an
\* error of the database that may be retried.
DeadlockOfIntake(w) ==
    /\ at[w] \in {"queue_item", "queue_job"}
    /\ EndIntake(w, Charged("transient"))
    /\ UNCHANGED <<job, todo>>

\* In a checkpoint: the pipeline's failure is recorded.
DeadlockOfCheckpoint(w) ==
    /\ at[w] = "checkpoint_item"
    /\ Release(w)
    /\ GoTo(w, "failure_job")
    /\ UNCHANGED <<event, job, item, todo, batch>>

\* Elsewhere the error leaves run_worker, 40P01 is not among the transient ones: the
\* process ends and its job is left to recovery.
DeadlockOfWorker(w) ==
    /\ at[w] \in {"batch", "recover_item", "failure_item"}
    /\ Release(w)
    /\ UNCHANGED event
    /\ job' = [i \in Items |-> IF job[i].owner = w THEN [job[i] EXCEPT !.owner = Nobody]
                                                   ELSE job[i]]
    /\ item' = [item EXCEPT ![w] = Nobody]
    /\ todo' = [todo EXCEPT ![w] = {}]
    /\ batch' = [batch EXCEPT ![w] = {}]
    /\ GoTo(w, "ended")

Deadlock(w) ==
    /\ \E circle \in SUBSET Workers : w \in circle /\ Circle(circle)
    /\ DeadlockOfIntake(w) \/ DeadlockOfCheckpoint(w) \/ DeadlockOfWorker(w)

\* The host starts a new process in place of the one that ended.
Restart(w) ==
    /\ at[w] = "ended"
    /\ GoTo(w, "poll")
    /\ UNCHANGED <<event, job, holds, item, todo, batch>>

-----------------------------------------------------------------------------
RequestStep(d) == Look(d) \/ Insert(d) \/ Commit(d)

IntakeStep(w) ==
    \/ SelectCandidate(w) \/ TryAdvisoryLock(w) \/ LockEvent(w)
    \/ ReadAnswered(w) \/ ReadDeferred(w) \/ QueueItem(w) \/ QueueJob(w)

JobStep(w) ==
    \/ LockStaleJobs(w) \/ RecoverItem(w) \/ ClaimAndCommit(w)
    \/ LockOwnedJob(w, "checkpoint_job", "checkpoint_item")
    \/ LockOwnedJob(w, "failure_job", "failure_item")
    \/ Checkpoint(w)
    \/ EndJob(w, "checkpoint_item", {NoJob, WaitingJob})
    \/ EndJob(w, "failure_item", {NoJob, WaitingJob})

WorkerStep(w) == IntakeStep(w) \/ JobStep(w) \/ Restart(w)

Next ==
    \/ \E d \in Requests : RequestStep(d) \/ Lose(d)
    \/ \E w \in Workers : WorkerStep(w) \/ Deadlock(w)

\* Worker processes run; one that waits for a row gets it in the end if the row is
\* released again and again (PostgreSQL queues the waiting); the stages of a pipeline
\* are finitely many; a deadlock is resolved.  Monday's limits pass: of reads again and
\* again, by whomever, some are answered (an assumption on Monday, not on the code, which
\* defers an event for as long as they last).  Nothing is assumed of the requests.
Fairness ==
    /\ \A w \in Workers : SF_vars(WorkerStep(w))
    /\ SF_vars(\E w \in Workers : EndJob(w, "checkpoint_item", {NoJob, WaitingJob}))
    /\ WF_vars(\E w \in Workers : Deadlock(w))
    /\ SF_vars(\E w \in Workers : ReadAnswered(w))

Spec == Init /\ [][Next]_vars /\ Fairness

-----------------------------------------------------------------------------
(* Properties *)

\* "Commit the complete accepted payload before acknowledging it": every answer speaks
\* of a stored event, and of two deliveries of one webhook at most one is accepted,
\* however they overlap and whichever of them dies.
AnswersAreTrue ==
    /\ \A d \in Requests : at[d] \in Answers => IsStored(EventOf[d])
    /\ \A d1, d2 \in Requests :
          at[d1] = "accepted" /\ at[d2] = "accepted" /\ EventOf[d1] = EventOf[d2] => d1 = d2

\* A delivery, an intake, a deadlock or a restart never makes a stored event unstored,
\* an ended one due again, or takes an attempt back.
EventsOnlyMoveForward ==
    [][\A e \in Events : IsStored(e) =>
          /\ IsStored(e)'
          /\ event'[e].attempts \in {event[e].attempts, event[e].attempts + 1}
          /\ ~Due(e) => event'[e] = event[e]]_vars

\* Processes wait in a circle only where the two orders meet: an intake that has the
\* item and wants the job, and a worker that has the job and wants the item.  Intakes
\* never block each other for good, and no event row is ever part of a circle.
DeadlocksAreMixed ==
    \A circle \in SUBSET Workers : Circle(circle) =>
        /\ \E w \in circle : at[w] = "queue_job"
        /\ \E w \in circle : at[w] \in {"recover_item", "checkpoint_item", "failure_item"}
        /\ \A w \in circle : at[w] # "batch"

\* A stored event is taken in, or reported as failed, once Monday's limits pass: whatever
\* other items' intakes hold back, deadlocks abort and dying workers leave behind, a
\* failure that counts is retried only as long as attempts are left.
EveryEventIsTakenIn ==
    \A e \in Events : Due(e) ~> event[e].status \in {"processed", "exhausted"}
=============================================================================
