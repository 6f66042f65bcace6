# Formal model of the Sales board automation

The service under `src/backend` watches a Monday "Sales" board. A person uploads
an email to a Sales item; a webhook arrives; a background worker reads the item,
extracts a postcode and the requester, matches an Account, and writes a Postcode
label and an Account relation back to the item. Several API and worker processes
share one PostgreSQL database, and everything they know about the item is a
snapshot that may be stale when they commit. This directory holds TLA+ modules
of that program, TLC configurations that check them on small instances, and
TLAPS proofs.

File references are `path:line` relative to `src/backend/app` unless they start
with `README.md`, which is the repository's own README.

## 1. Inventory

| Component | State | Operations | Interacts with |
|---|---|---|---|
| Webhook route (`routes/monday_webhooks.py`) | `webhook_events` | authenticate, normalise, insert by idempotency key, ignore | Monday; intake |
| Webhook intake (`services/webhook_intake.py`) | `webhook_events` | take in a batch, account for a failure, retry-webhook | reads Monday; queue |
| Queue (`services/intake.py`, `services/worker.py`, `models.py`) | `processing_items`, `processing_jobs` | queue or coalesce, claim, heartbeat, fail, defer, recover, complete | all below |
| Pipeline (`services/pipeline.py`) | checkpoint in `result_json`, `stage` | extraction, matching, validation, publication, replacement by newer input | reads Monday; queue; cache |
| Worker process (`worker.py`) | in memory: the job, the heartbeat thread | poll, run, record the failure | all |
| Publication (`services/publication.py`) | two Monday columns | read, decide, mutate, confirm | Monday and its users |
| Operator (`services/operations.py`, `operator.py`) | none | enqueue, reconcile, retry, retry-webhook, metrics | reads Monday; queue |
| Reference cache (`services/reference_cache.py`) | `reference_index_snapshots` | load, refresh, clear | Monday; matching |
| Cooldown (`services/monday_cooldown.py`) | `monday_cooldowns` | check, record | every Monday request |
| Publication gate (`publication_gate.py`, `schema_validation.py`) | one flag per process | validate at start-up, require | publication |
| Pure decisions (`services/accounts.py`, `services/postcode.py`, `services/postcode_evidence.py`, `services/requester_identity.py`, `monday_errors.py`) | none | match an Account, select and resolve a postcode, classify an error | pipeline |
| I/O and start-up (`monday_client.py`, `email_parser.py`, `config.py`, `main.py`, `database.py`, `accounts_export.py`) | none | | |

What is hard here:

* Everybody reads Monday first and locks rows later (intake, four stages,
  operator), so the order of reads and the order of commits differ.
* A job is leased, not locked; a process can die with the lease, or live on
  without it.
* One active job per item, while inputs change: newer input is *coalesced* onto
  the running job and must come back as a successor.
* A mutation of Monday has no transaction: lost, late and ambiguous answers,
  retries, zombies, and people who edit the same columns.
* Transactions that lock the same two rows in two orders, and hold locks while they
  read Monday.
* Decisions that rest on text other people wrote: threads of several customers and
  projects, indexes with duplicates, answers that list several errors.
* Budgets: attempts, deferrals that give an attempt back, intake attempts.
* A long refresh under a row lock, cut off by a cooldown that must survive it.

What makes it correct, by component: *queue* - one active job per item, leases
and attempts consistent, every waiting job resumable, the item's state truthful,
supersession on record; *loop* - no input is lost, a completed job has read its
own input, everything comes to rest; *lease* - abandoned leases are recovered,
living ones are not; *publication* - only empty columns are filled, what is
reported is there, an outcome is final; *shared services* - only complete, fresh,
uncleared indexes are served, deadlines are kept, nobody waits for ever; *locks* -
every event is taken in, whatever waits for whom; *decisions* - each rests on
evidence for it and on none for another.
`PROJECT.json` lists each hazard with its line and its properties.

## 2. Modules

| Module | Models | Extends |
|---|---|---|
| `ProcessingQueue` | the two tables and each transaction on them | |
| `ProcessingQueueProofs` | theorems about `ProcessingQueue` | `ProcessingQueue`, TLAPS |
| `ItemWork` | what the queue promises of an item, without rows | |
| `ItemWorkProofs` | `ProcessingQueue` implements `ItemWork` | `ProcessingQueueProofs` |
| `SalesSync` | Monday, webhooks, intake, worker memory, operator, composed with the queue | `ProcessingQueue` |
| `SalesSyncProofs` | theorems about `SalesSync` | `SalesSync`, `ProcessingQueueProofs` |
| `WorkerLease` | the lease of one job in time | |
| `WorkerLeaseProofs` | theorems about `WorkerLease` | `WorkerLease`, TLAPS |
| `Publication` | the attempts of one publication | |
| `PublicationProofs` | theorems about `Publication` | `Publication`, TLAPS |
| `SharedServices` | reference index and cooldown | |
| `SharedServicesProofs` | theorems about `SharedServices` | `SharedServices`, TLAPS |
| `RowLocks` | webhook route and worker transactions, lock by lock | |
| `RowLocksProofs` | theorems about `RowLocks` | `RowLocks`, TLAPS |
| `AccountMatch` | `match_account` and the matching stage | |
| `RequesterIdentity` | `extract_requester_identity` | |
| `ProjectPostcode` | sources of an email, evidence, choice of the area | |
| `PostcodeLabels` | publication gate, label of an area | |
| `FailurePolicy` | class of an error, both retry budgets | |
| `Decisions` | one decision about one case | the five modules above |
| `DecisionsProofs` | theorems about `Decisions` | `Decisions`, TLAPS |
| `MC...` | the symmetry sets for TLC | the module of that name |

### ProcessingQueue

`items[i]` is the row of `processing_items`: `latest` is
(`latest_input_revision`, `latest_pipeline_version`), `superseding` says that
`supersession_requested_at` is set. `jobs[j]` is a row of `processing_jobs`;
rows are numbered in the order of creation. `checkpoint` abstracts `result_json`
to its `completedStage` (or to the `forceReprocess` marker). An input revision,
a hash in the code, is a model value.

One action is one committed transaction, which the code's row locks make atomic:
`QueueSnapshot` (`queue_sales_item_snapshot`; `QueueOn` is its body, also used
inside `Supersede`), `ReconcileIneligible`, `RetryFailedJob`, `Claim`,
`FailPermanently` / `FailRetryably` / `Defer` (the three outcomes of
`retry_or_fail_job`), `RecoverStale`, `CheckpointExtraction` /
`CheckpointMatching` / `CheckpointValidation`, `CompleteShadow`,
`CompletePublication`, and `Supersede` (`_replace_with_snapshot`). The
environment is open: any identity may be queued at any time, any running job may
be stale, so what is proved of this module holds for every caller.

### ItemWork

What somebody sees who knows nothing of rows: an item wants one input, at most one
input is being worked on, and some inputs are done or failed. `ProcessingQueue`
implements it (`RefinesItemWork`): `wanted` is `latest`, `working` the inputs of
the active jobs, `done` and `failed` those of the ended ones. Claims, checkpoints,
deferrals and recoveries that reschedule are stutters; a replacement is one step in
which work on the old input ends and work on the new one begins. The mutant in
which the successor is not queued is not such a step.

### SalesSync

Adds `live` (what the Email column holds now), `events` (webhooks and
`webhook_events` rows), `worker` (what a process holds in memory between two
transactions), and `operator` (the snapshot a command holds). Reads of Monday
and commits are different actions: `BeginIntake`/`CommitIntake`,
`ReadInput`/`CommitStage`, `RereadInput`/`ReplaceInput`,
`OperatorReads`/`OperatorCommits`. The commits call the transactions of
`ProcessingQueue`. "No email" stands for every reason for which an item is
ineligible (no supported asset, inactive, excluded group, other board), because
the code treats them alike. An edit sends a webhook also when it leaves the
supported emails, hence the input, as they were; intake then runs for nothing,
and the edit that follows it may come while it reads.

### WorkerLease

One job, several workers, discrete time. Timestamps are ages (`now` minus the
timestamp), cut off above the lease timeout. `begun` is `processing_time`
(`worker.py:186`), `started` is `checkpoint_time` (`services/pipeline.py:143`);
a claim stamps the row with the first, a checkpoint with the second, a heartbeat
with the present.

### Publication

The attempts of one job at its publishing stage. The lease is abstract: `Begin`
takes it from whoever has it, so every earlier attempt may still run as a
zombie. `Read`, `Reread`, `Send`, the reply, `Confirm` and `Commit` are
separate; a request is `flying`, then `applied` or `lost`, independently of what
its sender has concluded. `late` and `since` are history: columns that people
edited since the deciding and since the confirming read.

### SharedServices

One row of `reference_index_snapshots`, and the cooldown that each page request
checks and may record. Times are an age (`refreshed_at`) and remaining times
(`retry_at`), so that time itself needs no bound. `LoadIndex` is the look without
a lock, `LockSnapshot` the second look under it, then `CheckCooldown`, `Post` and
the answer for each page, and `StoreIndex` or `RollBack`. `era`, `since`,
`fresh`, `result` and `told` are history.

A late edit may be overwritten by a mutation decided before it
(`services/publication.py:203`): `OverwritesOnlyLateEdits` of `Publication` bounds
this, and the code has no means to exclude it.

### RowLocks

`ProcessingQueue` and `SalesSync` take each transaction for one step, which is right
if the row locks do what they should. `RowLocks` takes the transactions apart: a
process `holds` event rows, keys under insertion, an advisory lock, item and job
rows, and waits at the statement that wants one of them (`Wanted`). Two requests may
deliver the same webhook (`Look`, `Insert`, `Commit`, `Lose`: `_claim_event` with its
savepoint). A worker goes through one poll: the intake of the oldest due event that
nobody has locked, the advisory lock of its item, its batch, the read of Monday with
all of these held, item and job; then recovery, claim, and the job's own
transactions. PostgreSQL ends a circle by aborting some process in it (`Deadlock`),
with the effect the abort has at that place: an intake's savepoint is rolled back
and its events are charged (an error of the database may be retried), a checkpoint's
error is recorded as the job's failure,
elsewhere the process ends, because `40P01` is not among the transient errors
(`worker.py:334`). The read of Monday has two actions: it is answered
(`ReadAnswered`: the item is to be queued, is not eligible, or there is a failure that
costs each event an attempt and ends it at once if it cannot be retried), or a quota or
cooldown defers the events and charges nothing (`ReadDeferred`), whatever they have
spent (`services/webhook_intake.py:117-126`, README.md:506-508).

Left out: heartbeats and operator retry (one lock each), operators' enqueue and
reconcile (item before job, as intake), ignored events, processing mode `off`,
retry times (a failed event is due at once), what a pipeline computes (any running
job may be stale, or end with or without a successor), and a job row that a
`SKIP LOCKED` join has locked although the item was skipped, which that poll's own
commit releases.

### The decisions

`AccountMatch`: tuples of the index are sets, because no rule depends on their
order; domains and names are normalised values. Each rule is the set of the one
Account it finds, or empty. `RequesterIdentity`: a body is a sequence of lines, each
taken for what the code's patterns recognise in it. `ProjectPostcode`: the same for
`postcode_evidence`, whose partition into messages and attachments is modelled
boundary by boundary; the answer of the language model is any answer at all.
`PostcodeLabels`: names and ids of a dropdown, as the gate compares them at startup
and the resolver with each item, and the ids that may be published. `FailurePolicy`:
codes and statuses by their class,
delays as numbers. `Decisions` has one action per decision, with the case `asked` and
what was `decided`.

`RequesterIdentity` and `ProjectPostcode` split the same e-mail by different rules:
`On ... wrote:` (`wrote`) begins an older message for the postcode but not for the
requester. `VouchedByOwnMessage` is therefore about header blocks only: a website line
below `On ... wrote:` (unless `>` precedes it) is counted as the requester's, by the
code (`services/requester_identity.py:252`, `:323`) and by the model, although
README.md:187 says that websites in older quoted messages are ignored. No property here
claims that they are.

The labels with which the gate was opened (`schema`) and those that are read with an
item later (`read`) are two parts of a case of `OpenGatePinsLabels`: the dropdown may be
changed in between, and then `PublishLabel` (`_postcode_label_id`,
`services/publication.py:484`) keeps ids outside the contract away. A change between
the extraction, which stores the id, and the mutation is not modelled; the code does
not look at the labels again.

## 3. Runs

| Run | Bounds | What it shows |
|---|---|---|
| `queue` | 1 item, 3 jobs, 2 workers, 2 revisions, 2 attempts | all invariants of the tables in every interleaving of transactions, and the refinement of `ItemWork` |
| `sync_kept` | 4 jobs, 2 workers, 2 edits, each to r1, r2 or no email (also to what is there already), 1 fault | no input of an eligible item is lost without a reported failure |
| `sync_rest` | 5 jobs, 1 worker, 2 edits, 1 fault, 1 operator command, shadow mode | under fairness every item comes to rest; a job that completes has read its input |
| `lease` | 2 workers, timeout 3, heartbeat 2 | abandoned leases are recovered, young ones kept |
| `publication` | 2 attempts, 2 columns, 2 edits | overwrites only of late edits, truthful report, final outcome |
| `shared` | 2 workers, 2 pages, TTL 2, deadlines 1 and 3, 2 clears, 2 faults | what the cache serves, deadlines, no endless load |
| `locks` | 3 events of 2 items, one of them delivered twice, 2 workers, 2 intake attempts | truthful answers, deadlocks only between an intake and a job of the same item, every event is taken in or reported as failed once Monday's limits pass |
| `decisions` | see below | each decision rests on evidence for it |

Why the bounds are enough: three jobs are a job, its successor and a retry; two
revisions are the smallest change of input, and with `r1` again after `r2` the
A-B-A case; two attempts have a first and a last one. Two edits give an edit
during every read and one more webhook; `MaxFaults` bounds only failures that cost
a job or an event nothing (crash, deferral) and intake failures, failures that
cost a job an attempt are bounded by the code. One worker is enough in `sync_rest`
because it is crashed and its job recovered by itself; two workers interleave
in `sync_kept`. Timeout 3 and heartbeat 2 are the least values with the interval
below the timeout (`config.py:469`) in which a heartbeat can be missed and the
lease live. Two pages are a first and a last one; the deadlines 1 and 3 have one
below and one above the TTL. The runs of `SalesSync` switch deadlock checking
off: when the bounded edits, faults and commands are used up, the system is at
rest.

In `locks`, two events of one item make a batch and one of another item makes the
advisory lock matter; the event delivered twice belongs to the first item, so that
it can arrive while that item is taken in. Two workers suffice for a circle of an
intake and a job, or of a recovery and an intake, and `DeadlocksAreMixed` looks at
every set of workers; more than two would only lengthen circles of the same kinds.
Two intake attempts leave a failure that is retried and one that is the last, for the
event that is new; those tried once have one left.

`decisions` enumerates cases: bodies of up to four lines (marker, header block and
two websites fit, two header blocks by markers too, and an `On ... wrote:`) with both
windows of the header
search set to two lines; three Accounts of six kinds, so that there can be a tie and
a third one, with aliases, contacts with one, several and no usable link; mails of
one file of up to three lines, of a header block and two more, or of two files, with
answers that quote any of them rightly or wrongly; answers of Monday with every pair
of errors; dropdowns of up to three labels for a contract of two, with an id the contract does
not know, as they were at startup or changed since, and flaws of every other part of
the schema. The proofs are for all of them, of any size. A behaviour
takes one decision and stops, so deadlock checking is off there.

Runs that TLC refutes. Each states what the repository says of itself, and the
trace is a behaviour of the code:

| Run | Statement | Trace |
|---|---|---|
| `lost_successor` | the input an item wants has a job or an outcome | r1 runs, r2 is coalesced, r1 fails: r2 has no job, and its webhook is processed |
| `stale_ineligible` | no input is lost | a worker reads "no email", an upload's webhook is taken in and coalesced, the worker commits "ineligible" |
| `stale_reconcile` | no input of an eligible item is lost | an operator reads r1, r2 is taken in, the operator's commit makes r1 the latest again |
| `lease_rollback` | a heart-beating lease is not recovered | heartbeat, checkpoint (rewinds `heartbeat_at` to the start of the run), recovery |

`stale_reconcile` checks the invariant of `sync_kept` in a system with an operator:
`EligibleInputKept` holds of intake and workers alone (`MaxCommands = 0` in
`sync_kept`), and one `enqueue` or `reconcile` at the wrong moment breaks it.

### Fairness

`SalesSync`: weak fairness of the delivery of webhooks, of intake and claiming by
*some* worker, of the steps of each worker, of the recovery of an orphaned lease and
of an operator command under way. The code justifies it: `run_worker` polls for ever,
a process is restarted by its host, Monday retries a webhook until it is
acknowledged, and a lease without heartbeats becomes stale (`WorkerLease`). No
fairness is assumed of edits, failures or crashes. `WorkerLease`: time passes, heartbeat threads wake up,
and some worker polls. `SharedServices`: processes run and requests are answered
or time out; the row lock is granted in strong fairness, as PostgreSQL queues its
waiters. `RowLocks`: strong fairness of each worker's steps for the same reason,
weak fairness of the resolution of deadlocks (PostgreSQL looks for them after
`deadlock_timeout`), and strong fairness of the end of some job at its checkpoints,
since a pipeline has finitely many stages. A deferral costs no attempt, so the code would put an
event off as long as Monday refuses to answer: that of the reads of Monday, if there are
infinitely many, infinitely many are answered (strong fairness of `ReadAnswered`, by some
worker) is an assumption on Monday, whose quotas and cooldowns pass, and not on the
code; without it TLC finds the event that is deferred for ever. An answer may still be
a failure each time, and a transient failure ends in `exhausted` only because it is
counted. Nothing is assumed of requests: they may die at
any point, and an event that was never committed is nobody's promise.

## 4. Proofs

`ProcessingQueueProofs` proves, for any sets of items, jobs, workers, revisions and
versions and any positive `MaxAttempts`, the type invariant, the six safety
invariants and both action properties that the run `queue` checks. The assumptions
are those of
`ProcessingQueue`: `MaxAttemptsPositive`, `JobsAreNumbered`, `NoWorkerIsNoWorker`,
`NoIdentityIsNoIdentity`.

The invariants are not inductive one by one. That an item's state is truthful after
`Failed` needs that the failed job was its only active one; that a supersession
stays recorded needs that the item's state says whether there is an active job; and
a retry is resumable only because *failed* rows keep stage and checkpoint together.
`IInv` therefore joins `TypeOK`, `RowInv` (what holds of each job row alone) and
`ItemInv` (what holds of an item and its jobs). The argument: a transaction writes
the rows of one item (`OtherItems`: the rest keep their invariant) and mostly one
job row (`RowUpdate`, `NewRowInv`); there is a lemma per transaction; `WorkerStepInv`
and `NextInv` collect them; `Inductive` is the temporal step, and each theorem
follows from it with the non-temporal fact that `IInv` implies its property. The
action properties use `IInv` in the first state of a step.

`ItemWorkProofs` proves `ImplementsItemWork == Spec => RefinesItemWork` from the same
assumptions and with the same `IInv`. A transaction writes rows of one item, so the
others show the same (`OthersShowTheSame`); what that item shows makes one step of
`ItemWork` or none (`Abstraction`, and `SingleRow` for the transactions that write
one row), with a lemma for each transaction. `IInv` is needed because `ItemWork`
knows one input under way: that an item has one active job, and that a completed
job had the wanted input, are facts of reachable states only.

`SalesSyncProofs` proves every safety property of the runs of `SalesSync`, for any
number of items, webhooks, jobs, workers, faults and commands. `LoopImplementsQueue ==
SyncSpec => Spec` says that each step of the loop is a transaction of
`ProcessingQueue` or leaves its tables alone (`StepsAreTransactions`), so `IInv` and all
theorems about the queue hold in the loop. `SyncIInv` adds the memory around it: a
running intake has a batch of due events of its item and is the only one of the item,
and *if what it has read is stale, a webhook of the item is in nobody's batch*
(`StaleIntakeIsFollowed`). `ReadBeforeCompletion` is about a worker that is about to
complete its job: nobody else touches a row and leaves it leased by that worker
(`OwnedRowIsKept`), so what it compared is still what the row says; with
`WhoCompletes`, `CompletesWhatWasRead` follows.

`EligibleInputIsKept` states its hypothesis: `CommandIsUpToDate` throughout, that is, no
edit falls between the read and the commit of an `operator enqueue` or `operator
reconcile`. It cannot be dropped, as the run `stale_reconcile` shows. The invariant
`KeptIInv` adds two parts. `InputIsKept`: for every item that is not ineligible there
is an active job, a settled present input, or news (`Told`: a webhook not yet taken in, a
running intake, a reported failure). `StaleCompletionIsFollowed`: who is about to
complete a job with an input that changed after it was read is followed by news, or
the item already wants another input, and then the transaction will not complete. News
goes only with an intake that commits what Monday still shows (`NewsAreKept`), and
that queues the present input; work ends in a successor, a failure, a completion or
an ineligible item (`WorkHasAnOutcome`).

`DecisionsProofs` proves all seven properties of the run `decisions`, for every
index, body, mail, dropdown and failure and for every value of the windows and
delays. The inductive invariant is `AsCoded`: what was decided is what the operator
of the code gives for the case that was asked; it is a lemma of one step per action,
and the rest is about the operators. Each proof follows the code's own argument:

* `LoadingOnDemandIsSafe`: without a tie the contacts do not appear in any rule
  (`ContactsNotNeeded`), and a match without contacts is a match with them, since
  the rules before theirs come first; without a domain and a name no Account has
  evidence (`NothingToCompare`).
* `MatchHasNoRival`, `MatchAgrees`: `MatchCases` names the rule that found the
  Account and the rules that did not; each rule's evidence excludes a rival in its
  own way (`FoundHasNoRival`, `FoundAgrees`).
* `AreaIsNotBorrowed`: accepted evidence gives a context of sources of one project
  (`AcceptedContext`), one of which shows the postcode or the field.
* `OpenGatePins`: names and ids of the contract are one to one in accepted labels,
  so the resolver finds the contract's id or two labels (`AcceptedLabelsArePinned`);
  of any later labels it finds the only one that reads as the area, and its id is
  published if the contract has it (`PublishedReadsAsTheArea`).
* `RequesterIsVouched`: there is no header inside a section (`SectionHasOneHeader`,
  by the well-ordering of line numbers) and websites stand in their section, which is
  one between header blocks.
* `RetriesAreWarranted`: `ClassCases`, and the largest of the delays is no earlier
  than each of them (`LargestOf`, `DelayIsLate`).

The assumptions say that the constants are what the code has: the cases are of
their types, ids of the contract are positive, delays are natural numbers,
non-empty sets of them have a least element, and `None`, `NoOne` and `Nothing`
stand for nothing else.

`PublicationProofs` proves every safety property of the run `publication`, for any
attempts, columns, ids and number of edits. `PublishedIsThere` needs to know of all
requests under way, zombies' too, that they cannot remove what was published:
`WritesWereEmpty` says of each mutation that is, or may yet be, sent that the columns
it writes hold nothing but the job's own id, or were edited after it was decided.
`PublishedWasSeen` carries the confirming read to the commit. An attempt that is not
past its mutation has no request and no published column (`UnpostedHasNoRequest`,
`UndeterminedPublishesNothing`), and who completed the job does nothing more
(`CompletedHasEnded`). `OverwritesOnlyLateEdits` follows from `WritesWereEmpty` in the
state in which the request is applied ("late" is after the deciding read, also for a
request that is applied only after the confirming one), `OutcomeIsFinal` from the guards of `Begin`
and of the final transactions.

`WorkerLeaseProofs` proves `YoungLeaseIsKept` for any two times in `Nat`, not only for
an interval below the timeout. A checkpoint sets the row's timestamp back, but to a
time that the run took after `processing_time` (`StartsAfterItBegins`), so the row is
never older than the run (`LeaseIsYounger`); ages are cut off in a way that keeps
their order (`OlderKeepsOrder`).

`SharedServicesProofs` proves all five properties of what is served and posted, for
any number of processes and pages, any lifetime and any delays. The row lock carries
the invariant: while a process fetches, nobody else clears or stores
(`FetchesAfterLastClear`), so what it stores is whole and of the present era
(`PagesInOrder`, `SnapshotIsWhole`) and its reason to fetch still stands
(`FetchesForAReason`). For the deadlines, the shared cooldown covers every wait that
some process was told (`CooldownCoversAll`), because it is only ever extended.

`RowLocksProofs` proves all safety properties of the run `locks`, for any number of
deliveries, workers, events and items. `IInv` says for each place in a transaction
which locks are held there (`IntakeLocks`, `RecoveryLocks`, `JobLocks`, `KeyIsHeld`)
and what they protect: the events of a batch stay due while their rows are locked
(`BatchIsLocked`), an event stays unstored while its key is inserted (`KeyIsHeld`). A
step of one process leaves the others well because it writes only rows it has locked
(`WritesLocked`, `ProcessStep`), and no lock has two holders. `EventsOnlyMoveForward`
needs in addition that due events have attempts left, which a deferral leaves as they
are. `DeadlocksAreMixed` is a
consequence of the locks alone: `WhoBlocksWhom` lists the three ways in which one
worker can make another wait, an event row before the advisory lock, an item row
before the job, a job row before the item; a process in a circle both blocks and
waits, which the first way excludes, and the other two alternate. The assumptions
are those of `RowLocks`; `RequestsAreNoWorkers` says that a request and a worker are
different processes.

Only model-checked:

* liveness (`ComesToRest`, `EveryEventIsTakenIn`, `EveryLoadEnds`, and the recovery of
  abandoned leases): beyond the prover, which knows neither fairness nor `ENABLED`;
* the statements that TLC refutes, of course.

## 5. Not modelled

* Text: parsing of e-mail files, board items and webhooks, normalisation of names
  and domains, patterns, wording, audit rows, usage counters.
* The language model and text recognition; `validate_company_evidence`; Project
  fields that go over several lines; which of several files names the requester (the
  first that has one).
* Database failures other than a crash and a deadlock.
* A change of processing mode or of the pipeline version while jobs exist.
* Several items at once, except in `RowLocks`: the tables relate rows of one item
  only, except for the order in which work is chosen, which is left open.
* How long a closed publication gate stays closed: until the process is restarted,
  by the plain text of `publication_gate.py`.
* Authorisation, configuration, start-up, the accounts export: no state of their own.

## 6. Plan

Done: `ProcessingQueue` and the refinement of `ItemWork`, `SalesSync`, `WorkerLease`,
`Publication`, `SharedServices`, `RowLocks` and the decisions, with proofs of all safety
properties their runs check.

Next, in this order:

1. Pipeline-version upgrade: `SalesSync` with two versions.
2. Snapshot parsing and the choice of the first file with a requester.
