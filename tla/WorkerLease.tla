----------------------------- MODULE WorkerLease -----------------------------
(***************************************************************************)
(* The lease of one processing job in time: claim, the heartbeat thread,   *)
(* checkpoints, crashes and recovery.  ProcessingQueue lets a running job  *)
(* be recovered at any moment; here recovery waits for a stale heartbeat.  *)
(* Timestamps are kept as ages (now minus the timestamp), cut off just     *)
(* above the lease timeout, where all ages behave alike; a Tick is one     *)
(* unit of time.                                                           *)
(***************************************************************************)
EXTENDS Naturals

CONSTANTS
    Workers,
    LeaseTimeout,       \* worker_lease_timeout_seconds, in ticks
    HeartbeatInterval,  \* worker_heartbeat_interval_seconds, in ticks
    NoWorker            \* locked_by NULL

ASSUME LeaseTimes == /\ LeaseTimeout \in Nat /\ HeartbeatInterval \in Nat
                     /\ 0 < HeartbeatInterval /\ HeartbeatInterval < LeaseTimeout
ASSUME NoWorkerIsNoWorker == NoWorker \notin Workers

Ages == 0 .. LeaseTimeout + 1

Older(age) == IF age > LeaseTimeout THEN age ELSE age + 1

\* The processing_jobs row; heartbeat is the age of heartbeat_at.
Row == [status : {"running"}, owner : Workers, heartbeat : Ages]
       \union [status : {"waiting", "ended"}, owner : {NoWorker}, heartbeat : {0}]

\* A worker process.  begun: age of processing_time, taken when process_next_job
\* begins; started: of checkpoint_time, taken when the pipeline begins; timer: since the heartbeat thread
\* last woke up.  silence: since processing_time or the last heartbeat that was
\* committed.
Process == [phase : {"idle", "polling", "working"}, begun : Ages, started : Ages,
            thread : BOOLEAN, timer : 0 .. HeartbeatInterval, silence : Ages]

Stopped == [phase |-> "idle", begun |-> 0, started |-> 0,
            thread |-> FALSE, timer |-> 0, silence |-> 0]

VARIABLES row, process

vars == <<row, process>>

\* Type invariant: a row holds lease columns exactly while it runs.
TypeOK == /\ row \in Row
          /\ process \in [Workers -> Process]

Init == /\ row = [status |-> "waiting", owner |-> NoWorker, heartbeat |-> 0]
        /\ process = [w \in Workers |-> Stopped]

Owns(w) == row.status = "running" /\ row.owner = w

LeaseKept(ending) == [row EXCEPT !.status = ending]

Unleased(ending) == [status |-> ending, owner |-> NoWorker, heartbeat |-> 0]

-----------------------------------------------------------------------------
\* process_next_job takes processing_time, then does the webhook intake, which
\* may wait for Monday.
Poll(w) ==
    /\ process[w].phase = "idle"
    /\ process' = [process EXCEPT ![w] = [Stopped EXCEPT !.phase = "polling"]]
    /\ UNCHANGED row

\* claim_next_job with processing_time as the lease's timestamps; then the thread
\* starts and run_pipeline_job takes its checkpoint_time.
Claim(w) ==
    /\ process[w].phase = "polling"
    /\ row.status = "waiting"
    /\ row' = [status |-> "running", owner |-> w, heartbeat |-> process[w].begun]
    /\ process' = [process EXCEPT ![w] = [@ EXCEPT !.phase = "working", !.thread = TRUE,
                                                   !.started = 0]]

ClaimNothing(w) ==
    /\ process[w].phase = "polling"
    /\ process' = [process EXCEPT ![w] = Stopped]
    /\ UNCHANGED row

BeatUnowned(w) ==
    /\ process[w].thread
    /\ process[w].timer = HeartbeatInterval
    /\ IF row.status = "running"
       THEN /\ row' = [row EXCEPT !.heartbeat = 0]
            /\ process' = [process EXCEPT ![w].timer = 0, ![w].silence = 0]
       ELSE /\ process' = [process EXCEPT ![w].thread = FALSE, ![w].timer = 0]
            /\ UNCHANGED row

\* The thread wakes up.  If the lease is lost (JobLeaseError) the thread ends.
Beat(w) ==
    /\ process[w].thread
    /\ process[w].timer = HeartbeatInterval
    /\ IF Owns(w)
       THEN /\ row' = [row EXCEPT !.heartbeat = 0]
            /\ process' = [process EXCEPT ![w].timer = 0, ![w].silence = 0]
       ELSE /\ process' = [process EXCEPT ![w].thread = FALSE, ![w].timer = 0]
            /\ UNCHANGED row

\* Any other exception of the heartbeat is logged and the next one is awaited.
MissBeat(w) ==
    /\ process[w].thread
    /\ process[w].timer = HeartbeatInterval
    /\ process' = [process EXCEPT ![w].timer = 0]
    /\ UNCHANGED row

\* A stage commits; heartbeat_at becomes the time at which the RUN started.
Checkpoint(w) ==
    /\ process[w].phase = "working"
    /\ Owns(w)
    /\ row' = [row EXCEPT !.heartbeat = process[w].started]
    /\ UNCHANGED process

\* The job ends or fails in the run that owns it, and waits again if the failure is
\* retryable; a run without the lease writes nothing.  The thread is joined.
EndRun(w) ==
    /\ process[w].phase = "working"
    /\ row' \in IF Owns(w) THEN {Unleased("ended"), Unleased("waiting")} ELSE {row}
    /\ process' = [process EXCEPT ![w] = Stopped]

Crash(w) ==
    /\ process[w].phase # "idle"
    /\ process' = [process EXCEPT ![w] = Stopped]
    /\ UNCHANGED row

RecoverAtTimeout ==
    /\ row.status = "running"
    /\ row.heartbeat >= LeaseTimeout
    /\ row' \in {Unleased("waiting"), Unleased("ended")}
    /\ UNCHANGED process

\* recover_stale_jobs, run by every polling worker: heartbeat_at < now - timeout.
\* The last attempt ends the job.
Recover ==
    /\ row.status = "running"
    /\ row.heartbeat > LeaseTimeout
    /\ row' \in {Unleased("waiting"), Unleased("ended")}
    /\ UNCHANGED process

\* Time passes; no thread oversleeps, and Older stops where age no longer matters.
Tick ==
    /\ \A w \in Workers : process[w].thread => process[w].timer < HeartbeatInterval
    /\ row' = IF row.status = "running" THEN [row EXCEPT !.heartbeat = Older(@)] ELSE row
    /\ process' = [w \in Workers |->
          IF process[w].phase = "idle" THEN process[w]
          ELSE [process[w] EXCEPT
                  !.begun = Older(@),
                  !.started = Older(@),
                  !.silence = Older(@),
                  !.timer = IF process[w].thread THEN @ + 1 ELSE @]]

Next ==
    \/ \E w \in Workers :
          \/ Poll(w) \/ Claim(w) \/ ClaimNothing(w)
          \/ Beat(w) \/ MissBeat(w)
          \/ Checkpoint(w) \/ EndRun(w) \/ Crash(w)
    \/ Recover
    \/ Tick

\* Time goes on; threads wake up; some worker always polls, so a stale lease is
\* recovered unless it stops being stale.  Runs need not end.
Fairness == /\ WF_vars(Tick)
            /\ \A w \in Workers : WF_vars(Beat(w) \/ MissBeat(w))
            /\ WF_vars(Recover)

Spec == Init /\ [][Next]_vars /\ Fairness

-----------------------------------------------------------------------------
(* Properties *)

\* The worker whose id is on the lease does not run the job: it crashed, and perhaps
\* was started again under the same id.
Abandoned == row.status = "running" /\ process[row.owner].phase # "working"

\* An abandoned lease does not last, whatever zombie runs and heartbeat threads of
\* other workers still do to the row.
AbandonedLeaseIsRecovered == Abandoned ~> ~Abandoned

\* The lease is taken from a process that still runs the job.
Robbed(w) == /\ Owns(w) /\ process[w].phase = "working"
             /\ row'.status # "running" /\ process'[w] = process[w]

\* A worker keeps its lease for as long as the lease timeout after it began to look
\* for work, even if every heartbeat fails and whatever its checkpoints write.
YoungLeaseIsKept ==
    [][\A w \in Workers : Robbed(w) => process[w].begun > LeaseTimeout]_vars

\* A worker that commits its heartbeats keeps its lease: it "sends heartbeats from
\* short independent transactions, and recovers expired leases" (README.md:276-277).
OnlySilentLeasesAreRecovered ==
    [][\A w \in Workers : Robbed(w) => process[w].silence > LeaseTimeout]_vars
=============================================================================
