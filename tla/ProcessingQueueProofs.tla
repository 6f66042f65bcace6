------------------------ MODULE ProcessingQueueProofs ------------------------
(***************************************************************************)
(* The invariants of ProcessingQueue hold for every set of items, jobs,    *)
(* workers, revisions and versions and every attempt budget.               *)
(*                                                                         *)
(* The inductive invariant is the conjunction of the module's invariants,  *)
(* regrouped by what they speak of: RowInv of one processing_jobs row, and *)
(* ItemInv of one item with its rows.  A transaction changes the rows of   *)
(* one item only, so every other item keeps ItemInv (OtherItems), and most *)
(* transactions change a single row (RowUpdate).                           *)
(***************************************************************************)
EXTENDS ProcessingQueue, TLAPS

QueueInv == /\ OneActiveJobPerItem
            /\ LeaseOnlyWhileRunning
            /\ AttemptBudget
            /\ ResumableCheckpoint
            /\ ItemStateIsTruthful
            /\ SupersessionIsRecorded

RowInv(row) ==
    /\ row # NoJob =>
          /\ row.owner # NoWorker <=> row.status = "running"
          /\ row.attempts <= MaxAttempts
          /\ row.status = "running" => row.attempts >= 1
          /\ row.status \in WaitingStatuses => row.attempts < MaxAttempts
    /\ Active(row) \/ row.status = "failed" =>
          IF row.stage = "extracting" THEN row.checkpoint \in {"none", "forced"}
          ELSE row.checkpoint = StageBefore[row.stage]

StateFits(row, state) ==
    IF row.status = "running" THEN state \in {"processing", "analyzed", "publishing", "ineligible"}
    ELSE state = "scheduled"

ItemInv(i) ==
    /\ \A j1, j2 \in ActiveJobs(jobs, i) : j1 = j2
    /\ \A j \in ActiveJobs(jobs, i) :
          /\ StateFits(jobs[j], items[i].state)
          /\ Superseded(items[i], jobs[j]) => items[i].superseding
    /\ items[i].state = "completed" => ~HasActiveJob(i) /\ Ended(i, "completed")
    /\ items[i].state = "failed"    => ~HasActiveJob(i) /\ Ended(i, "failed")
    /\ items[i].state = "absent"    => ~HasActiveJob(i)
    /\ items[i].state \in {"ineligible", "absent"} => items[i].latest = NoIdentity
    /\ items[i].latest # NoIdentity /\ ~HasActiveJob(i)
          /\ items[i].state \notin {"completed", "failed"}
       => items[i].superseding

IInv == /\ TypeOK
        /\ \A j \in Jobs : RowInv(jobs[j])
        /\ \A i \in Items : ItemInv(i)

-----------------------------------------------------------------------------
LEMMA RowFacts ==
    ASSUME NEW row \in JobRow \union {NoJob}, row.status \in JobStatuses
    PROVE  row \in JobRow /\ row # NoJob
  BY DEF NoJob, JobStatuses, ActiveStatuses, WaitingStatuses, TerminalStatuses

LEMMA ActiveItem ==
    ASSUME TypeOK, NEW j \in Jobs, Active(jobs[j])
    PROVE  jobs[j] \in JobRow /\ jobs[j].item \in Items
  BY RowFacts DEF TypeOK, Active, JobStatuses, JobRow

LEMMA IInvIsQueueInv == IInv => QueueInv
<1> SUFFICES ASSUME IInv PROVE QueueInv
  OBVIOUS
<1>1. OneActiveJobPerItem
  BY ActiveItem DEF IInv, ItemInv, OneActiveJobPerItem, ActiveJobs
<1>2. LeaseOnlyWhileRunning /\ AttemptBudget /\ ResumableCheckpoint
  BY DEF IInv, RowInv, LeaseOnlyWhileRunning, AttemptBudget, ResumableCheckpoint
<1>3. ItemStateIsTruthful
  BY ActiveItem DEF IInv, ItemInv, ItemStateIsTruthful, ActiveJobs, StateFits
<1>4. SupersessionIsRecorded
  BY ActiveItem DEF IInv, ItemInv, SupersessionIsRecorded, ActiveJobs
<1> QED BY <1>1, <1>2, <1>3, <1>4 DEF QueueInv

LEMMA InitInv == Init => IInv
  BY NoIdentityIsNoIdentity, NoWorkerIsNoWorker
     DEF Init, IInv, TypeOK, RowInv, ItemInv, HasActiveJob, ActiveJobs, Active,
         ActiveStatuses, WaitingStatuses, NoJob, ItemRow, ItemStates

(* An item whose own row and job rows a step leaves alone keeps its invariant. *)
LEMMA OtherItems ==
    ASSUME TypeOK, NEW i \in Items, NEW k \in Items \ {i}, ItemInv(k),
           items'[k] = items[k],
           \A j \in Jobs : \/ jobs'[j] = jobs[j]
                           \/ /\ jobs[j] = NoJob \/ jobs[j].item = i
                              /\ jobs'[j].item = i
    PROVE  ItemInv(k)'
<1>1. \A j \in Jobs : Active(jobs'[j]) /\ jobs'[j].item = k
                      <=> Active(jobs[j]) /\ jobs[j].item = k
  BY DEF Active, NoJob, ActiveStatuses, WaitingStatuses
<1>2. ActiveJobs(jobs, k)' = ActiveJobs(jobs, k)
  BY <1>1 DEF ActiveJobs
<1>3. \A j \in ActiveJobs(jobs, k) : jobs'[j] = jobs[j]
  BY DEF ActiveJobs, Active, NoJob, ActiveStatuses, WaitingStatuses
<1>4. ASSUME NEW s \in {"completed", "failed"}, Ended(k, s) PROVE Ended(k, s)'
  BY <1>4 DEF Ended, NoJob
<1>5. HasActiveJob(k)' <=> HasActiveJob(k)
  BY <1>2 DEF HasActiveJob
<1> QED BY <1>2, <1>3, <1>4, <1>5 DEF ItemInv, Superseded

(* A transaction that writes one job row, with no other active row of its item. *)
LEMMA RowUpdate ==
    ASSUME IInv, NEW j \in Jobs, NEW row \in JobRow, NEW itemRow \in ItemRow,
           jobs[j] = NoJob \/ jobs[j].item = row.item,
           \A k \in Jobs \ {j} : ~(Active(jobs[k]) /\ jobs[k].item = row.item),
           jobs' = [jobs EXCEPT ![j] = row],
           items' = [items EXCEPT ![row.item] = itemRow],
           RowInv(row),
           Active(row) => /\ StateFits(row, itemRow.state)
                          /\ Superseded(itemRow, row) => itemRow.superseding,
           itemRow.state = "completed" => row.status = "completed" /\ row.identity = itemRow.latest,
           itemRow.state = "failed" => row.status = "failed" /\ row.identity = itemRow.latest,
           itemRow.state # "absent",
           itemRow.state = "ineligible" => itemRow.latest = NoIdentity,
           itemRow.latest # NoIdentity /\ itemRow.state \notin {"completed", "failed"}
               /\ ~Active(row) => itemRow.superseding
    PROVE  IInv'
<1> DEFINE i == row.item
<1>0. i \in Items
  BY DEF JobRow
<1>1. TypeOK'
  BY <1>0 DEF IInv, TypeOK
<1>2. \A k \in Jobs : RowInv(jobs'[k])
  BY DEF IInv, TypeOK
<1>3. /\ jobs'[j] = row /\ \A k \in Jobs \ {j} : jobs'[k] = jobs[k]
      /\ items'[i] = itemRow /\ \A k \in Items \ {i} : items'[k] = items[k]
  BY <1>0 DEF IInv, TypeOK
<1>4. ActiveJobs(jobs, i)' = IF Active(row) THEN {j} ELSE {}
  BY <1>3 DEF ActiveJobs
<1>5. ItemInv(i)'
  <2>1. /\ itemRow.state = "completed" => Ended(i, "completed")' /\ ~Active(row)
        /\ itemRow.state = "failed"    => Ended(i, "failed")' /\ ~Active(row)
    BY <1>3 DEF Ended, Active, ActiveStatuses, WaitingStatuses
  <2>2. HasActiveJob(i)' <=> Active(row)
    BY <1>4 DEF HasActiveJob
  <2>3. \A j1, j2 \in ActiveJobs(jobs, i)' : j1 = j2
    BY <1>4
  <2>4. ASSUME NEW k \in ActiveJobs(jobs, i)'
        PROVE  /\ StateFits(jobs'[k], items'[i].state)
               /\ Superseded(items'[i], jobs'[k]) => items'[i].superseding
    BY <1>3, <1>4, <2>4
  <2>5. /\ items'[i].state = "completed" => ~HasActiveJob(i)' /\ Ended(i, "completed")'
        /\ items'[i].state = "failed"    => ~HasActiveJob(i)' /\ Ended(i, "failed")'
    BY <1>3, <2>1, <2>2
  <2> QED BY <1>3, <2>2, <2>3, <2>4, <2>5 DEF ItemInv
<1>6. ASSUME NEW k \in Items \ {i} PROVE ItemInv(k)'
  BY <1>0, <1>3, OtherItems DEF IInv
<1> QED BY <1>1, <1>2, <1>5, <1>6 DEF IInv

-----------------------------------------------------------------------------
(* What the invariant says of the active job a transaction works on. *)
LEMMA ActiveFacts ==
    ASSUME IInv, NEW j \in Jobs, Active(jobs[j])
    PROVE  /\ jobs[j] \in JobRow /\ jobs[j] # NoJob
           /\ jobs[j].item \in Items /\ items[jobs[j].item] \in ItemRow
           /\ jobs[j].identity \in Identities /\ jobs[j].identity # NoIdentity
           /\ \A k \in Jobs \ {j} : ~(Active(jobs[k]) /\ jobs[k].item = jobs[j].item)
           /\ RowInv(jobs[j])
           /\ StateFits(jobs[j], items[jobs[j].item].state)
           /\ items[jobs[j].item].state = "ineligible" => items[jobs[j].item].latest = NoIdentity
           /\ Superseded(items[jobs[j].item], jobs[j]) => items[jobs[j].item].superseding
<1>1. /\ jobs[j] \in JobRow /\ jobs[j] # NoJob /\ jobs[j].item \in Items
      /\ items[jobs[j].item] \in ItemRow /\ jobs[j].identity \in Identities
  BY ActiveItem DEF IInv, TypeOK, JobRow, Active, NoJob, ActiveStatuses, WaitingStatuses
<1>2. j \in ActiveJobs(jobs, jobs[j].item)
  BY DEF ActiveJobs
<1>3. ItemInv(jobs[j].item)
  BY <1>1 DEF IInv
<1>4. \A k \in Jobs \ {j} : ~(Active(jobs[k]) /\ jobs[k].item = jobs[j].item)
  BY <1>2, <1>3 DEF ItemInv, ActiveJobs
<1> QED BY <1>1, <1>2, <1>3, <1>4, NoIdentityIsNoIdentity DEF ItemInv, IInv

LEMMA RescheduledInv ==
    ASSUME IInv, NEW j \in Jobs, jobs[j].status = "running",
           NEW a \in Nat, a < MaxAttempts, Rescheduled(j, a)
    PROVE  IInv'
<1> DEFINE i == jobs[j].item
           row == [ReleasedLease(jobs[j]) EXCEPT !.status = "retry_wait", !.attempts = a]
           itemRow == [items[i] EXCEPT !.state = "scheduled"]
<1>1. Active(jobs[j])
  BY DEF Active, ActiveStatuses
<1>2. /\ row \in JobRow /\ row.status = "retry_wait" /\ row.owner = NoWorker /\ row.attempts = a
      /\ row.item = i /\ row.identity = jobs[j].identity
      /\ row.stage = jobs[j].stage /\ row.checkpoint = jobs[j].checkpoint
  BY <1>1, ActiveFacts
     DEF JobRow, ReleasedLease, JobStatuses, ActiveStatuses, WaitingStatuses
<1>3. itemRow \in ItemRow /\ itemRow.state = "scheduled" /\ itemRow.latest = items[i].latest
      /\ itemRow.superseding = items[i].superseding
  BY <1>1, ActiveFacts DEF ItemRow, ItemStates
<1>4. RowInv(row) /\ Active(row)
  BY <1>1, <1>2, ActiveFacts, MaxAttemptsPositive
     DEF RowInv, Active, ActiveStatuses, WaitingStatuses
<1>5. StateFits(row, itemRow.state)
  BY <1>2, <1>3 DEF StateFits
<1>6. jobs' = [jobs EXCEPT ![j] = row] /\ items' = [items EXCEPT ![i] = itemRow]
  BY DEF Rescheduled
<1>7. Superseded(itemRow, row) => itemRow.superseding
  BY <1>1, <1>2, <1>3, ActiveFacts DEF Superseded
<1>8. \A k \in Jobs \ {j} : ~(Active(jobs[k]) /\ jobs[k].item = row.item)
  BY <1>1, <1>2, ActiveFacts
<1> HIDE DEF row, itemRow
<1> QED BY <1>2, <1>3, <1>4, <1>5, <1>6, <1>7, <1>8, RowUpdate

LEMMA FailedInv ==
    ASSUME IInv, NEW j \in Jobs, jobs[j].status = "running", Failed(j)
    PROVE  IInv'
<1> DEFINE i == jobs[j].item
           row == [ReleasedLease(jobs[j]) EXCEPT !.status = "failed"]
           itemRow == [items[i] EXCEPT !.state =
                          IF Superseded(items[i], jobs[j]) THEN @ ELSE "failed"]
<1>1. Active(jobs[j])
  BY DEF Active, ActiveStatuses
<1>2. /\ row \in JobRow /\ row.status = "failed" /\ row.owner = NoWorker
      /\ row.attempts = jobs[j].attempts
      /\ row.item = i /\ row.identity = jobs[j].identity
      /\ row.stage = jobs[j].stage /\ row.checkpoint = jobs[j].checkpoint
  BY <1>1, ActiveFacts DEF JobRow, ReleasedLease, JobStatuses, TerminalStatuses
<1>3. /\ itemRow \in ItemRow /\ itemRow.latest = items[i].latest
      /\ itemRow.superseding = items[i].superseding
      /\ IF Superseded(items[i], jobs[j]) THEN itemRow.state = items[i].state
                                          ELSE itemRow.state = "failed"
  BY <1>1, ActiveFacts DEF ItemRow, ItemStates
<1>4. RowInv(row) /\ ~Active(row)
  BY <1>1, <1>2, ActiveFacts DEF RowInv, Active, ActiveStatuses, WaitingStatuses
<1>5. items[i].state \in {"processing", "analyzed", "publishing", "ineligible"}
  BY <1>1, ActiveFacts DEF StateFits
<1>6. jobs' = [jobs EXCEPT ![j] = row] /\ items' = [items EXCEPT ![i] = itemRow]
  BY DEF Failed
<1>7. Superseded(items[i], jobs[j]) => items[i].superseding /\
          (items[i].state = "ineligible" => items[i].latest = NoIdentity)
  BY <1>1, ActiveFacts
<1>8. \A k \in Jobs \ {j} : ~(Active(jobs[k]) /\ jobs[k].item = row.item)
  BY <1>1, <1>2, ActiveFacts
<1>9. ~Superseded(items[i], jobs[j]) => row.identity = itemRow.latest
  BY <1>2, <1>3 DEF Superseded
<1> HIDE DEF row, itemRow
<1> QED BY <1>2, <1>3, <1>4, <1>5, <1>6, <1>7, <1>8, <1>9, RowUpdate

LEMMA ClaimInv ==
    ASSUME IInv, NEW j \in Jobs, NEW w \in Workers, Claim(w, j)
    PROVE  IInv'
<1> DEFINE i == jobs[j].item
           n == jobs[j].attempts + 1
           row == [jobs[j] EXCEPT !.status = "running", !.owner = w, !.attempts = n]
           itemRow == [items[i] EXCEPT !.state = "processing"]
<1>1. Active(jobs[j]) /\ jobs[j].status \in WaitingStatuses
  BY DEF Claim, Active, ActiveStatuses
<1>2. /\ row \in JobRow /\ row.status = "running" /\ row.owner = w
      /\ row.attempts = n
      /\ row.item = i /\ row.identity = jobs[j].identity
      /\ row.stage = jobs[j].stage /\ row.checkpoint = jobs[j].checkpoint
  <2>1. n \in Nat
    BY <1>1, ActiveFacts DEF JobRow
  <2> HIDE DEF n
  <2> QED BY <1>1, <2>1, ActiveFacts DEF JobRow, JobStatuses, ActiveStatuses
<1>3. /\ itemRow \in ItemRow /\ itemRow.state = "processing" /\ itemRow.latest = items[i].latest
      /\ itemRow.superseding = items[i].superseding
  BY <1>1, ActiveFacts DEF ItemRow, ItemStates
<1>4. RowInv(row) /\ Active(row)
  <2>1. jobs[j].attempts \in Nat /\ jobs[j].attempts < MaxAttempts
    BY <1>1, ActiveFacts DEF RowInv, JobRow
  <2>2. row.attempts <= MaxAttempts /\ row.attempts >= 1
    BY <1>2, <2>1, MaxAttemptsPositive
  <2> QED BY <1>1, <1>2, <2>2, ActiveFacts, NoWorkerIsNoWorker
             DEF RowInv, Active, ActiveStatuses, WaitingStatuses
<1>5. StateFits(row, itemRow.state)
  BY <1>2, <1>3 DEF StateFits
<1>6. jobs' = [jobs EXCEPT ![j] = row] /\ items' = [items EXCEPT ![i] = itemRow]
  BY DEF Claim
<1>7. Superseded(itemRow, row) => itemRow.superseding
  BY <1>1, <1>2, <1>3, ActiveFacts DEF Superseded
<1>8. \A k \in Jobs \ {j} : ~(Active(jobs[k]) /\ jobs[k].item = row.item)
  BY <1>1, <1>2, ActiveFacts
<1> HIDE DEF row, itemRow
<1> QED BY <1>2, <1>3, <1>4, <1>5, <1>6, <1>7, <1>8, RowUpdate

LEMMA AdvanceInv ==
    ASSUME IInv, NEW j \in Jobs, NEW w \in Workers,
           NEW from \in Stages, NEW to \in Stages,
           to # "extracting", from = StageBefore[to],
           NEW itemState \in {"processing", "analyzed", "publishing"},
           Advance(w, j, from, to, itemState)
    PROVE  IInv'
<1> DEFINE i == jobs[j].item
           row == [jobs[j] EXCEPT !.stage = to, !.checkpoint = from]
           itemRow == [items[i] EXCEPT !.state = itemState]
<1>1. Active(jobs[j]) /\ jobs[j].status = "running" /\ ~Superseded(items[i], jobs[j])
  BY DEF Advance, OwnsCurrent, Owns, Active, ActiveStatuses
<1>2. /\ row \in JobRow /\ row.status = "running" /\ row.owner = jobs[j].owner
      /\ row.attempts = jobs[j].attempts
      /\ row.item = i /\ row.identity = jobs[j].identity
      /\ row.stage = to /\ row.checkpoint = from
  BY <1>1, ActiveFacts DEF JobRow, Checkpoints
<1>3. /\ itemRow \in ItemRow /\ itemRow.state = itemState /\ itemRow.latest = items[i].latest
      /\ itemRow.superseding = items[i].superseding
  BY <1>1, ActiveFacts DEF ItemRow, ItemStates
<1>4. RowInv(row) /\ Active(row)
  BY <1>1, <1>2, ActiveFacts DEF RowInv, Active, ActiveStatuses, WaitingStatuses
<1>5. StateFits(row, itemRow.state)
  BY <1>2, <1>3 DEF StateFits
<1>6. jobs' = [jobs EXCEPT ![j] = row] /\ items' = [items EXCEPT ![i] = itemRow]
  BY DEF Advance
<1>7. ~Superseded(itemRow, row)
  BY <1>1, <1>2, <1>3 DEF Superseded
<1>8. \A k \in Jobs \ {j} : ~(Active(jobs[k]) /\ jobs[k].item = row.item)
  BY <1>1, <1>2, ActiveFacts
<1> HIDE DEF row, itemRow
<1> QED BY <1>2, <1>3, <1>4, <1>5, <1>6, <1>7, <1>8, RowUpdate

LEMMA CompletedInv ==
    ASSUME IInv, NEW j \in Jobs, NEW w \in Workers, NEW checkpoint \in Stages,
           OwnsCurrent(w, j), Completed(w, j, checkpoint)
    PROVE  IInv'
<1> DEFINE i == jobs[j].item
           row == [ReleasedLease(jobs[j]) EXCEPT !.status = "completed",
                                                 !.checkpoint = checkpoint]
           itemRow == [items[i] EXCEPT !.state = "completed", !.superseding = FALSE]
<1>1. Active(jobs[j]) /\ ~Superseded(items[i], jobs[j])
  BY DEF OwnsCurrent, Owns, Active, ActiveStatuses
<1>2. /\ row \in JobRow /\ row.status = "completed" /\ row.owner = NoWorker
      /\ row.attempts = jobs[j].attempts
      /\ row.item = i /\ row.identity = jobs[j].identity
  BY <1>1, ActiveFacts DEF JobRow, ReleasedLease, JobStatuses, TerminalStatuses, Checkpoints
<1>3. /\ itemRow \in ItemRow /\ itemRow.state = "completed" /\ itemRow.latest = items[i].latest
  BY <1>1, ActiveFacts DEF ItemRow, ItemStates
<1>4. RowInv(row) /\ ~Active(row)
  BY <1>1, <1>2, ActiveFacts DEF RowInv, Active, ActiveStatuses, WaitingStatuses
<1>5. jobs' = [jobs EXCEPT ![j] = row] /\ items' = [items EXCEPT ![i] = itemRow]
  <2>1. items' = [items EXCEPT ![i].state = "completed", ![i].superseding = FALSE]
    BY <1>1 DEF Completed
  <2>2. items' = [items EXCEPT ![i] = itemRow]
    BY <2>1, <1>1, ActiveFacts DEF IInv, TypeOK
  <2> QED BY <2>2 DEF Completed
<1>6. row.identity = itemRow.latest
  BY <1>1, <1>2, <1>3 DEF Superseded
<1>7. \A k \in Jobs \ {j} : ~(Active(jobs[k]) /\ jobs[k].item = row.item)
  BY <1>1, <1>2, ActiveFacts
<1> HIDE DEF row, itemRow
<1> QED BY <1>2, <1>3, <1>4, <1>5, <1>6, <1>7, RowUpdate

(* A fresh job for an item without an active one. *)
LEMMA NewRowInv ==
    ASSUME IInv, NEW n \in Jobs, jobs[n] = NoJob, NEW i \in Items, ActiveJobs(jobs, i) = {},
           NEW id \in Identities, NEW stage \in Stages, NEW checkpoint \in Checkpoints,
           IF stage = "extracting" THEN checkpoint \in {"none", "forced"}
                                   ELSE checkpoint = StageBefore[stage],
           NEW itemRow \in ItemRow, itemRow.state = "scheduled", itemRow.latest = id,
           jobs' = [jobs EXCEPT ![n] = NewJob(i, id, stage, checkpoint)],
           items' = [items EXCEPT ![i] = itemRow]
    PROVE  IInv'
<1> DEFINE row == NewJob(i, id, stage, checkpoint)
<1>1. /\ row \in JobRow /\ row.status = "scheduled" /\ row.owner = NoWorker /\ row.attempts = 0
      /\ row.item = i /\ row.identity = id /\ row.stage = stage /\ row.checkpoint = checkpoint
  BY DEF NewJob, JobRow, JobStatuses, ActiveStatuses, WaitingStatuses
<1>2. RowInv(row) /\ Active(row)
  BY <1>1, MaxAttemptsPositive DEF RowInv, Active, ActiveStatuses, WaitingStatuses
<1>3. StateFits(row, itemRow.state) /\ ~Superseded(itemRow, row)
  BY <1>1 DEF StateFits, Superseded
<1>4. \A k \in Jobs \ {n} : ~(Active(jobs[k]) /\ jobs[k].item = row.item)
  BY <1>1 DEF ActiveJobs
<1>5. jobs' = [jobs EXCEPT ![n] = row]
  OBVIOUS
<1> HIDE DEF row
<1> QED BY <1>1, <1>2, <1>3, <1>4, <1>5, RowUpdate

LEMMA QueueSnapshotInv ==
    ASSUME IInv, NEW i \in Items, NEW id \in Identities, NEW forced \in BOOLEAN,
           QueueSnapshot(i, id, forced)
    PROVE  IInv'
<1>0. items[i] \in ItemRow
  BY DEF IInv, TypeOK
<1>1. ASSUME NEW j \in ActiveJobs(jobs, i),
             items' = [items EXCEPT ![i] = Coalesced(items[i], jobs[j], id)],
             jobs' = jobs
      PROVE  IInv'
  <2> DEFINE itemRow == Coalesced(items[i], jobs[j], id)
  <2>1. j \in Jobs /\ Active(jobs[j]) /\ jobs[j].item = i
    BY DEF ActiveJobs
  <2>2. /\ itemRow \in ItemRow /\ itemRow.latest = id
        /\ StateFits(jobs[j], itemRow.state)
        /\ itemRow.state \in {"processing", "scheduled"}
        /\ Superseded(itemRow, jobs[j]) => itemRow.superseding
    BY <1>0, <2>1, ActiveFacts
       DEF Coalesced, ItemRow, ItemStates, StateFits, Superseded, Active, ActiveStatuses
  <2>3. jobs' = [jobs EXCEPT ![j] = jobs[j]]
    BY <1>1, <2>1 DEF IInv, TypeOK
  <2>4. items' = [items EXCEPT ![jobs[j].item] = itemRow]
    BY <1>1, <2>1
  <2> HIDE DEF itemRow
  <2> QED BY <2>1, <2>2, <2>3, <2>4, ActiveFacts, RowUpdate
<1>2. ASSUME ActiveJobs(jobs, i) = {}, NEW n \in Jobs, jobs[n] = NoJob,
             jobs' = [jobs EXCEPT ![n] = NewJob(i, id, "extracting",
                                                IF forced THEN "forced" ELSE "none")],
             items' = [items EXCEPT ![i].latest = id, ![i].state = "scheduled"]
      PROVE  IInv'
  <2> DEFINE itemRow == [items[i] EXCEPT !.latest = id, !.state = "scheduled"]
             checkpoint == IF forced THEN "forced" ELSE "none"
             stage == "extracting"
  <2>1. itemRow \in ItemRow /\ itemRow.state = "scheduled" /\ itemRow.latest = id
    BY <1>0 DEF ItemRow, ItemStates
  <2>2. items' = [items EXCEPT ![i] = itemRow]
    BY <1>2 DEF IInv, TypeOK
  <2>3. checkpoint \in {"none", "forced"} /\ checkpoint \in Checkpoints
    BY DEF Checkpoints
  <2>4. jobs' = [jobs EXCEPT ![n] = NewJob(i, id, stage, checkpoint)]
    BY <1>2
  <2>5. /\ stage \in Stages
        /\ IF stage = "extracting" THEN checkpoint \in {"none", "forced"}
                                   ELSE checkpoint = StageBefore[stage]
    BY DEF Stages
  <2>6. ActiveJobs(jobs, i) = {} /\ jobs[n] = NoJob
    BY <1>2
  <2> HIDE DEF itemRow, checkpoint, stage
  <2> QED BY <2>6, <2>1, <2>2, <2>3, <2>4, <2>5, NewRowInv
<1>3. CASE ActiveJobs(jobs, i) = {}
  <2>1. items' = [items EXCEPT ![i].latest = id, ![i].state = "scheduled"]
    BY <1>3 DEF QueueSnapshot, QueueOn
  <2>2. PICK n \in Jobs :
           /\ jobs[n] = NoJob
           /\ jobs' = [jobs EXCEPT ![n] = NewJob(i, id, "extracting",
                                                 IF forced THEN "forced" ELSE "none")]
    BY <1>3 DEF QueueSnapshot, QueueOn
  <2> QED BY <1>2, <1>3, <2>1, <2>2
<1>4. CASE ActiveJobs(jobs, i) # {}
  <2>1. PICK j \in ActiveJobs(jobs, i) :
           /\ items' = [items EXCEPT ![i] = Coalesced(items[i], jobs[j], id)]
           /\ jobs' = jobs
    BY <1>4 DEF QueueSnapshot, QueueOn
  <2> QED BY <1>1, <2>1
<1> QED BY <1>3, <1>4

LEMMA RetryFailedJobInv ==
    ASSUME IInv, NEW j \in Jobs, RetryFailedJob(j)
    PROVE  IInv'
<1> DEFINE i == jobs[j].item
<1>1. /\ jobs[j] \in JobRow /\ i \in Items /\ RowInv(jobs[j])
      /\ jobs[j].identity \in Identities /\ jobs[j].stage \in Stages
      /\ jobs[j].checkpoint \in Checkpoints
  BY RowFacts DEF RetryFailedJob, IInv, TypeOK, JobRow, JobStatuses, TerminalStatuses
<1>2. PICK n \in Jobs :
         /\ jobs[n] = NoJob
         /\ jobs' = [jobs EXCEPT ![n] = NewJob(i, jobs[j].identity, jobs[j].stage,
                                               jobs[j].checkpoint)]
  BY DEF RetryFailedJob
<1> DEFINE itemRow == [items[i] EXCEPT !.state = "scheduled", !.superseding = FALSE]
<1>3. /\ itemRow \in ItemRow /\ itemRow.state = "scheduled"
      /\ itemRow.latest = jobs[j].identity
  <2>1. items[i].latest = jobs[j].identity
    BY DEF RetryFailedJob, Superseded
  <2>2. items[i] \in ItemRow
    BY <1>1 DEF IInv, TypeOK
  <2> QED BY <2>1, <2>2 DEF ItemRow, ItemStates
<1>4. items' = [items EXCEPT ![i] = itemRow]
  BY <1>1 DEF RetryFailedJob, IInv, TypeOK
<1>5. IF jobs[j].stage = "extracting" THEN jobs[j].checkpoint \in {"none", "forced"}
      ELSE jobs[j].checkpoint = StageBefore[jobs[j].stage]
  BY <1>1 DEF RowInv, RetryFailedJob
<1>6. ActiveJobs(jobs, i) = {}
  BY DEF RetryFailedJob
<1> HIDE DEF itemRow
<1> QED BY <1>1, <1>2, <1>3, <1>4, <1>5, <1>6, NewRowInv

(* At most one job of the item is active, but reconciling may find none: the
   item's row changes in any case. *)
LEMMA ReconcileInv ==
    ASSUME IInv, NEW i \in Items, ReconcileIneligible(i)
    PROVE  IInv'
<1> DEFINE running == {j \in ActiveJobs(jobs, i) : jobs[j].status = "running"}
           itemRow == [latest |-> NoIdentity, state |-> "ineligible",
                       superseding |-> running # {}]
<1>1. /\ items' = [items EXCEPT ![i] = itemRow] /\ itemRow \in ItemRow
      /\ itemRow.state = "ineligible" /\ itemRow.latest = NoIdentity
      /\ itemRow.superseding <=> running # {}
  BY DEF ReconcileIneligible, ItemRow, ItemStates
<1>2. \A j \in Jobs : jobs'[j] = IF j \in ActiveJobs(jobs, i) \ running
                                 THEN [ReleasedLease(jobs[j]) EXCEPT !.status = "cancelled"]
                                 ELSE jobs[j]
  BY DEF ReconcileIneligible
<1>3. ASSUME NEW j \in ActiveJobs(jobs, i) \ running
      PROVE  /\ jobs'[j] \in JobRow /\ jobs'[j].item = i
             /\ ~Active(jobs'[j]) /\ RowInv(jobs'[j])
  <2>1. j \in Jobs /\ Active(jobs[j]) /\ jobs[j].item = i
    BY DEF ActiveJobs
  <2> DEFINE row == [ReleasedLease(jobs[j]) EXCEPT !.status = "cancelled"]
  <2>a. jobs'[j] = row
    BY <1>2, <2>1
  <2>b. /\ row \in JobRow /\ row.status = "cancelled" /\ row.owner = NoWorker
        /\ row.item = i /\ row.attempts = jobs[j].attempts
    BY <2>1, ActiveFacts DEF ReleasedLease, JobRow, JobStatuses, TerminalStatuses
  <2>2. /\ jobs'[j] \in JobRow /\ jobs'[j].status = "cancelled" /\ jobs'[j].owner = NoWorker
        /\ jobs'[j].item = i /\ jobs'[j].attempts = jobs[j].attempts
    BY <2>a, <2>b
  <2> QED BY <2>1, <2>2, ActiveFacts DEF RowInv, Active, ActiveStatuses, WaitingStatuses
<1>4. TypeOK' /\ \A j \in Jobs : RowInv(jobs'[j])
  <2>1. jobs' = [j \in Jobs |-> jobs'[j]]
    BY DEF ReconcileIneligible
  <2>2. \A j \in Jobs : jobs'[j] \in JobRow \union {NoJob} /\ RowInv(jobs'[j])
    BY <1>2, <1>3 DEF IInv, TypeOK
  <2> QED BY <1>1, <2>1, <2>2 DEF IInv, TypeOK
<1>5. ActiveJobs(jobs, i)' = running
  <2>1. \A j \in Jobs : Active(jobs'[j]) /\ jobs'[j].item = i => j \in running
    BY <1>2, <1>3 DEF ActiveJobs
  <2>2. \A j \in running : j \in Jobs /\ Active(jobs'[j]) /\ jobs'[j].item = i
    BY <1>2 DEF ActiveJobs
  <2> QED BY <2>1, <2>2 DEF ActiveJobs
<1>6. ItemInv(i)'
  <2>1. items'[i] = itemRow
    BY <1>1 DEF IInv, TypeOK
  <2>2. \A j1, j2 \in ActiveJobs(jobs, i)' : j1 = j2
    BY <1>5 DEF IInv, ItemInv
  <2>3. ASSUME NEW j \in ActiveJobs(jobs, i)'
        PROVE  StateFits(jobs'[j], items'[i].state) /\ items'[i].superseding
    BY <1>1, <1>2, <1>5, <2>1, <2>3 DEF StateFits, ActiveJobs
  <2> HIDE DEF itemRow
  <2> QED BY <1>1, <2>1, <2>2, <2>3 DEF ItemInv
<1>7. ASSUME NEW k \in Items \ {i} PROVE ItemInv(k)'
  <2>1. items'[k] = items[k]
    BY <1>1 DEF IInv, TypeOK
  <2>2. \A j \in Jobs : \/ jobs'[j] = jobs[j]
                        \/ jobs[j].item = i /\ jobs'[j].item = i
    BY <1>2, <1>3 DEF ActiveJobs
  <2> QED BY <2>1, <2>2, OtherItems DEF IInv
<1> QED BY <1>4, <1>6, <1>7 DEF IInv

(* Cancelling the job frees the item, so that the successor is always a new row. *)
LEMMA SupersedeInv ==
    ASSUME IInv, NEW j \in Jobs, NEW w \in Workers,
           NEW snapshot \in Identities \union {NoIdentity}, Supersede(w, j, snapshot)
    PROVE  IInv'
<1>0. PICK i \in Items : i = jobs[j].item
  BY ActiveFacts DEF Supersede, Owns, Active, ActiveStatuses
<1> DEFINE row == [ReleasedLease(jobs[j]) EXCEPT !.status = "cancelled"]
           cancelled == [jobs EXCEPT ![j] = row]
           wanting == [items EXCEPT ![i].latest = snapshot, ![i].superseding = TRUE]
<1>1. Active(jobs[j])
  BY DEF Supersede, Owns, Active, ActiveStatuses
<1>2. /\ row \in JobRow /\ row.status = "cancelled" /\ row.owner = NoWorker
      /\ row.item = i /\ row.attempts = jobs[j].attempts
  BY <1>0, <1>1, ActiveFacts DEF ReleasedLease, JobRow, JobStatuses, TerminalStatuses
<1>3. RowInv(row) /\ ~Active(row)
  BY <1>1, <1>2, ActiveFacts DEF RowInv, Active, ActiveStatuses, WaitingStatuses
<1>4. items[i] \in ItemRow /\ jobs[j].item = i
      /\ \A k \in Jobs \ {j} : ~(Active(jobs[k]) /\ jobs[k].item = i)
  BY <1>0, <1>1, ActiveFacts
<1>5. CASE /\ jobs' = cancelled
           /\ items' = [items EXCEPT ![i] = [latest |-> NoIdentity, state |-> "ineligible",
                                             superseding |-> FALSE]]
  <2> DEFINE itemRow == [latest |-> NoIdentity, state |-> "ineligible", superseding |-> FALSE]
  <2>1. /\ itemRow \in ItemRow /\ itemRow.state = "ineligible"
        /\ itemRow.latest = NoIdentity
    BY DEF ItemRow, ItemStates
  <2>2. jobs' = [jobs EXCEPT ![j] = row] /\ items' = [items EXCEPT ![i] = itemRow]
    BY <1>5
  <2> HIDE DEF row, itemRow
  <2> QED BY <1>2, <1>3, <1>4, <2>1, <2>2, RowUpdate
<1>6. CASE snapshot \in Identities /\ QueueOn(wanting, cancelled, i, snapshot, FALSE)
  <2>1. ActiveJobs(cancelled, i) = {}
    BY <1>3, <1>4 DEF ActiveJobs, IInv, TypeOK
  <2>2. PICK n \in Jobs :
           /\ cancelled[n] = NoJob
           /\ jobs' = [cancelled EXCEPT ![n] = NewJob(i, snapshot, "extracting", "none")]
    BY <1>6, <2>1 DEF QueueOn
  <2> DEFINE new == NewJob(i, snapshot, "extracting", "none")
             itemRow == [items[i] EXCEPT !.latest = snapshot, !.superseding = TRUE,
                                         !.state = "scheduled"]
  <2>3. /\ new \in JobRow /\ new.status = "scheduled" /\ new.owner = NoWorker
        /\ new.attempts = 0 /\ new.item = i /\ new.identity = snapshot
        /\ new.stage = "extracting" /\ new.checkpoint = "none"
    BY <1>4, <1>6 DEF NewJob, JobRow, JobStatuses, ActiveStatuses, WaitingStatuses, Stages,
                      Checkpoints
  <2>4. RowInv(new) /\ Active(new)
    BY <2>3, MaxAttemptsPositive DEF RowInv, Active, ActiveStatuses, WaitingStatuses
  <2>5. /\ items' = [items EXCEPT ![i] = itemRow] /\ itemRow \in ItemRow
        /\ itemRow.latest = snapshot /\ itemRow.superseding /\ itemRow.state = "scheduled"
    <3>1. items' = [wanting EXCEPT ![i].latest = snapshot, ![i].state = "scheduled"]
      BY <1>6, <2>1 DEF QueueOn
    <3>2. items' = [items EXCEPT ![i] = itemRow]
      BY <3>1, <1>4 DEF IInv, TypeOK
    <3> QED BY <3>2, <1>4, <1>6 DEF ItemRow, ItemStates
  <2>6. n # j /\ jobs[n] = NoJob
    <3>1. row # NoJob
      BY <1>2, RowFacts DEF JobStatuses, TerminalStatuses
    <3> HIDE DEF row
    <3> QED BY <2>2, <3>1 DEF IInv, TypeOK
  <2> HIDE DEF new, row, itemRow
  <2>7. /\ jobs'[n] = new /\ jobs'[j] = row
        /\ \A k \in Jobs \ {j, n} : jobs'[k] = jobs[k]
        /\ items'[i] = itemRow /\ \A k \in Items \ {i} : items'[k] = items[k]
    BY <1>4, <2>2, <2>5, <2>6 DEF IInv, TypeOK, new
  <2>8. TypeOK' /\ \A k \in Jobs : RowInv(jobs'[k])
    <3>1. jobs' \in [Jobs -> JobRow \union {NoJob}]
      BY <1>2, <2>2, <2>3 DEF IInv, TypeOK, new
    <3> QED BY <1>3, <2>4, <2>5, <2>7, <3>1 DEF IInv, TypeOK
  <2>9. ItemInv(i)'
    <3>1. ActiveJobs(jobs, i)' = {n}
      BY <1>3, <1>4, <2>3, <2>4, <2>7 DEF ActiveJobs
    <3>2. StateFits(new, "scheduled")
      BY <2>3 DEF StateFits
    <3> QED BY <2>5, <2>7, <3>1, <3>2 DEF ItemInv
  <2>10. ASSUME NEW k \in Items \ {i} PROVE ItemInv(k)'
    <3>1. \A m \in Jobs : \/ jobs'[m] = jobs[m]
                          \/ (jobs[m] = NoJob \/ jobs[m].item = i) /\ jobs'[m].item = i
      BY <1>2, <1>4, <2>3, <2>6, <2>7
    <3> QED BY <1>4, <2>7, <3>1, OtherItems DEF IInv
  <2> QED BY <2>8, <2>9, <2>10 DEF IInv
<1> QED BY <1>0, <1>5, <1>6 DEF Supersede

-----------------------------------------------------------------------------
LEMMA WorkerStepInv ==
    ASSUME IInv, NEW w \in Workers, NEW j \in Jobs, WorkerStep(w, j)
    PROVE  IInv'
<1>1. CASE Claim(w, j)
  BY <1>1, ClaimInv
<1>2. CASE FailPermanently(w, j)
  BY <1>2, FailedInv DEF FailPermanently, Owns
<1>3. ASSUME Owns(w, j)
      PROVE  jobs[j].attempts \in Nat /\ jobs[j].attempts >= 1 /\ jobs[j].attempts <= MaxAttempts
  BY <1>3, ActiveFacts DEF Owns, Active, ActiveStatuses, RowInv, JobRow
<1>4. CASE FailRetryably(w, j)
  BY <1>3, <1>4, RescheduledInv, FailedInv DEF FailRetryably, Owns
<1>5. CASE Defer(w, j)
  <2> DEFINE a == jobs[j].attempts - 1
  <2>1. a \in Nat /\ a < MaxAttempts
    BY <1>3, <1>5, MaxAttemptsPositive DEF Defer
  <2>2. Rescheduled(j, a) /\ jobs[j].status = "running"
    BY <1>5 DEF Defer, Owns
  <2> QED BY <2>1, <2>2, RescheduledInv
<1>6. CASE CheckpointExtraction(w, j)
  BY <1>6, AdvanceInv DEF CheckpointExtraction, Stages, StageBefore
<1>7. CASE CheckpointMatching(w, j)
  BY <1>7, AdvanceInv DEF CheckpointMatching, Stages, StageBefore
<1>8. CASE CheckpointValidation(w, j)
  BY <1>8, AdvanceInv DEF CheckpointValidation, Stages, StageBefore
<1>9. CASE CompleteShadow(w, j)
  BY <1>9, CompletedInv DEF CompleteShadow, Stages
<1>10. CASE CompletePublication(w, j)
  BY <1>10, CompletedInv DEF CompletePublication, Stages
<1>11. CASE \E snapshot \in Identities \union {NoIdentity} : Supersede(w, j, snapshot)
  BY <1>11, SupersedeInv
<1> QED BY <1>1, <1>2, <1>4, <1>5, <1>6, <1>7, <1>8, <1>9, <1>10, <1>11 DEF WorkerStep

LEMMA RecoverStaleInv ==
    ASSUME IInv, NEW j \in Jobs, RecoverStale(j)
    PROVE  IInv'
<1>1. jobs[j].attempts \in Nat
  BY ActiveFacts DEF RecoverStale, Active, ActiveStatuses, JobRow
<1> QED BY <1>1, RescheduledInv, FailedInv DEF RecoverStale

LEMMA NextInv == IInv /\ [Next]_vars => IInv'
<1> SUFFICES ASSUME IInv, [Next]_vars PROVE IInv'
  OBVIOUS
<1>1. CASE UNCHANGED vars
  BY <1>1 DEF vars, IInv, TypeOK, ItemInv, RowInv, HasActiveJob, ActiveJobs, Ended
<1>2. CASE \E i \in Items, id \in Identities, forced \in BOOLEAN : QueueSnapshot(i, id, forced)
  BY <1>2, QueueSnapshotInv
<1>3. CASE \E i \in Items : ReconcileIneligible(i)
  BY <1>3, ReconcileInv
<1>4. CASE \E j \in Jobs : RetryFailedJob(j) \/ RecoverStale(j)
  BY <1>4, RetryFailedJobInv, RecoverStaleInv
<1>5. CASE \E w \in Workers, j \in Jobs : WorkerStep(w, j)
  BY <1>5, WorkerStepInv
<1> QED BY <1>1, <1>2, <1>3, <1>4, <1>5 DEF Next

(* The inductive invariant of the queue: what every transaction assumes of the
   rows it locks, and restores. *)
THEOREM Inductive == Spec => []IInv
  BY InitInv, NextInv, PTL DEF Spec

(* Every row of the two tables keeps the types the columns and their CHECK
   constraints promise. *)
THEOREM TypeCorrect == Spec => []TypeOK
<1>1. IInv => TypeOK
  BY DEF IInv
<1> QED BY <1>1, Inductive, PTL

(* One active job per Sales item, whatever intake, operators and workers do
   concurrently: the partial unique index is never needed to reject a row. *)
THEOREM OneActiveJob == Spec => []OneActiveJobPerItem
<1>1. IInv => OneActiveJobPerItem
  BY IInvIsQueueInv DEF QueueInv
<1> QED BY <1>1, Inductive, PTL

(* No job is attempted more often than its budget, and every waiting job can
   still be attempted, although a claim never looks at the budget. *)
THEOREM BudgetKept == Spec => []AttemptBudget
<1>1. IInv => AttemptBudget
  BY IInvIsQueueInv DEF QueueInv
<1> QED BY <1>1, Inductive, PTL

(* A lease is on record exactly while a job runs. *)
THEOREM LeaseRecorded == Spec => []LeaseOnlyWhileRunning
<1>1. IInv => LeaseOnlyWhileRunning
  BY IInvIsQueueInv DEF QueueInv
<1> QED BY <1>1, Inductive, PTL

(* Every job that can be resumed, by a retry, by recovery or by an operator's
   clone, finds the checkpoint its stage needs. *)
THEOREM AlwaysResumable == Spec => []ResumableCheckpoint
<1>1. IInv => ResumableCheckpoint
  BY IInvIsQueueInv DEF QueueInv
<1> QED BY <1>1, Inductive, PTL

(* The state shown on an item is the state of its jobs. *)
THEOREM ItemStateTruthful == Spec => []ItemStateIsTruthful
<1>1. IInv => ItemStateIsTruthful
  BY IInvIsQueueInv DEF QueueInv
<1> QED BY <1>1, Inductive, PTL

(* A request for a newer input is on record until a job for it ends. *)
THEOREM SupersessionRecorded == Spec => []SupersessionIsRecorded
<1>1. IInv => SupersessionIsRecorded
  BY IInvIsQueueInv DEF QueueInv
<1> QED BY <1>1, Inductive, PTL

-----------------------------------------------------------------------------
(* What one transaction may do to a row: insert it, or move an active one. *)
RowStep(k) ==
    \/ jobs'[k] = jobs[k]
    \/ jobs[k] = NoJob /\ jobs'[k].status = "scheduled"
    \/ /\ Active(jobs[k])
       /\ jobs'[k] # NoJob
       /\ jobs'[k].item = jobs[k].item /\ jobs'[k].identity = jobs[k].identity
       /\ StageRank(jobs[k].stage) <= StageRank(jobs'[k].stage)
       /\ jobs'[k].status = "completed" =>
             /\ jobs[k].status = "running"
             /\ items[jobs[k].item].latest = jobs[k].identity
             /\ items'[jobs[k].item].state = "completed"
             /\ ~items'[jobs[k].item].superseding

(* A row rewritten without touching its identity and stage, and not completed. *)
LEMMA KeptStage ==
    ASSUME IInv, NEW k \in Jobs, Active(jobs[k]), jobs'[k].status \in JobStatuses \ {"completed"},
           jobs'[k].item = jobs[k].item, jobs'[k].identity = jobs[k].identity,
           jobs'[k].stage = jobs[k].stage
    PROVE  RowStep(k)
<1>1. jobs'[k] # NoJob
  BY DEF NoJob, JobStatuses, ActiveStatuses, WaitingStatuses, TerminalStatuses
<1>2. StageRank(jobs[k].stage) <= StageRank(jobs'[k].stage)
  BY ActiveFacts DEF StageRank, JobRow, Stages
<1> QED BY <1>1, <1>2 DEF RowStep

LEMMA LeaseRowStep ==
    ASSUME IInv, NEW j \in Jobs, Active(jobs[j]), NEW k \in Jobs,
           \/ Failed(j) \/ (\E a \in Nat : Rescheduled(j, a)) \/ (\E w \in Workers : Claim(w, j))
    PROVE  RowStep(k)
<1>1. CASE k # j
  BY <1>1 DEF Failed, Rescheduled, Claim, RowStep, IInv, TypeOK
<1>2. CASE k = j
  <2>1. /\ jobs'[j].status \in {"failed", "retry_wait", "running"}
        /\ jobs'[j].item = jobs[j].item /\ jobs'[j].identity = jobs[j].identity
        /\ jobs'[j].stage = jobs[j].stage
    <3>1. CASE Failed(j)
      BY <3>1, ActiveFacts DEF Failed, ReleasedLease, JobRow, IInv, TypeOK
    <3>2. ASSUME NEW a \in Nat, Rescheduled(j, a)
          PROVE  /\ jobs'[j].status = "retry_wait"
                 /\ jobs'[j].item = jobs[j].item /\ jobs'[j].identity = jobs[j].identity
                 /\ jobs'[j].stage = jobs[j].stage
      BY <3>2, ActiveFacts DEF Rescheduled, ReleasedLease, JobRow, IInv, TypeOK
    <3>3. ASSUME NEW w \in Workers, Claim(w, j)
          PROVE  /\ jobs'[j].status = "running"
                 /\ jobs'[j].item = jobs[j].item /\ jobs'[j].identity = jobs[j].identity
                 /\ jobs'[j].stage = jobs[j].stage
      <4> DEFINE n == jobs[j].attempts + 1
      <4>1. jobs' = [jobs EXCEPT ![j] = [jobs[j] EXCEPT !.status = "running", !.owner = w,
                                                        !.attempts = n]]
        BY <3>3 DEF Claim
      <4> HIDE DEF n
      <4> QED BY <4>1, ActiveFacts DEF JobRow, IInv, TypeOK
    <3> QED BY <3>1, <3>2, <3>3
  <2> QED BY <1>2, <2>1, KeptStage
          DEF JobStatuses, ActiveStatuses, WaitingStatuses, TerminalStatuses
<1> QED BY <1>1, <1>2

LEMMA AdvanceRowStep ==
    ASSUME IInv, NEW w \in Workers, NEW j \in Jobs, NEW k \in Jobs,
           NEW from \in Stages, NEW to \in Stages, NEW itemState,
           StageRank(from) <= StageRank(to), Advance(w, j, from, to, itemState)
    PROVE  RowStep(k)
<1>1. Active(jobs[j]) /\ jobs[j].status = "running" /\ jobs[j].stage = from
  BY DEF Advance, OwnsCurrent, Owns, Active, ActiveStatuses
<1>2. CASE k # j
  BY <1>2 DEF Advance, RowStep, IInv, TypeOK
<1>3. CASE k = j
  <2>1. /\ jobs'[j].status = "running" /\ jobs'[j].stage = to
        /\ jobs'[j].item = jobs[j].item /\ jobs'[j].identity = jobs[j].identity
    BY <1>1, ActiveFacts DEF Advance, JobRow, IInv, TypeOK
  <2>2. jobs'[j] # NoJob
    BY <2>1 DEF NoJob
  <2> QED BY <1>1, <1>3, <2>1, <2>2 DEF RowStep
<1> QED BY <1>2, <1>3

LEMMA CompletedRowStep ==
    ASSUME IInv, NEW w \in Workers, NEW j \in Jobs, NEW k \in Jobs, NEW checkpoint \in Stages,
           OwnsCurrent(w, j), Completed(w, j, checkpoint)
    PROVE  RowStep(k)
<1>1. Active(jobs[j]) /\ jobs[j].status = "running" /\ ~Superseded(items[jobs[j].item], jobs[j])
  BY DEF OwnsCurrent, Owns, Active, ActiveStatuses
<1>2. CASE k # j
  BY <1>2 DEF Completed, RowStep, IInv, TypeOK
<1>3. CASE k = j
  <2>1. /\ jobs'[j].status = "completed" /\ jobs'[j].stage = jobs[j].stage
        /\ jobs'[j].item = jobs[j].item /\ jobs'[j].identity = jobs[j].identity
    BY <1>1, ActiveFacts DEF Completed, ReleasedLease, JobRow, IInv, TypeOK
  <2>2. /\ items'[jobs[j].item].state = "completed" /\ ~items'[jobs[j].item].superseding
        /\ items[jobs[j].item].latest = jobs[j].identity
    BY <1>1, ActiveFacts DEF Completed, Superseded, ItemRow, IInv, TypeOK
  <2>3. jobs'[j] # NoJob
    BY <2>1 DEF NoJob
  <2>4. StageRank(jobs[j].stage) <= StageRank(jobs'[j].stage)
    BY <1>1, <2>1, ActiveFacts DEF StageRank, JobRow, Stages
  <2> QED BY <1>1, <1>3, <2>1, <2>2, <2>3, <2>4 DEF RowStep
<1> QED BY <1>2, <1>3

(* Inserting a row, after at most one other row was cancelled. *)
LEMMA InsertRowStep ==
    ASSUME IInv, NEW rows, NEW itemRows, NEW i, NEW id, NEW forced \in BOOLEAN, NEW k \in Jobs,
           QueueOn(itemRows, rows, i, id, forced),
           rows \in [Jobs -> JobRow \union {NoJob}],
           NEW j \in Jobs, \A m \in Jobs \ {j} : rows[m] = jobs[m],
           \/ rows[j] = jobs[j]
           \/ /\ Active(jobs[j]) /\ rows[j].status = "cancelled"
              /\ rows[j].item = jobs[j].item /\ rows[j].identity = jobs[j].identity
              /\ rows[j].stage = jobs[j].stage
    PROVE  RowStep(k)
<1>1. \/ jobs'[k] = rows[k]
      \/ rows[k] = NoJob /\ jobs'[k].status = "scheduled"
  BY DEF QueueOn, NewJob
<1>2. CASE jobs'[k] = rows[k]
  BY <1>2, KeptStage DEF RowStep, JobStatuses, TerminalStatuses
<1>3. CASE rows[k] = NoJob /\ jobs'[k].status = "scheduled"
  BY <1>3 DEF RowStep, NoJob
<1> QED BY <1>1, <1>2, <1>3

LEMMA NextRowStep ==
    ASSUME IInv, Next, NEW k \in Jobs
    PROVE  RowStep(k)
<1>1. ASSUME NEW i \in Items, NEW id \in Identities, NEW forced \in BOOLEAN,
             QueueSnapshot(i, id, forced)
      PROVE  RowStep(k)
  BY <1>1, InsertRowStep DEF QueueSnapshot, IInv, TypeOK
<1>2. ASSUME NEW i \in Items, ReconcileIneligible(i)
      PROVE  RowStep(k)
  <2> DEFINE row == [ReleasedLease(jobs[k]) EXCEPT !.status = "cancelled"]
  <2>1. \/ jobs'[k] = jobs[k]
        \/ Active(jobs[k]) /\ jobs'[k] = row
    BY <1>2 DEF ReconcileIneligible, ActiveJobs
  <2>2. Active(jobs[k]) => /\ row.status = "cancelled" /\ row.item = jobs[k].item
                           /\ row.identity = jobs[k].identity /\ row.stage = jobs[k].stage
    BY ActiveFacts DEF ReleasedLease, JobRow
  <2> HIDE DEF row
  <2> QED BY <2>1, <2>2, KeptStage DEF RowStep, JobStatuses, TerminalStatuses
<1>3. ASSUME NEW j \in Jobs, RetryFailedJob(j)
      PROVE  RowStep(k)
  BY <1>3 DEF RetryFailedJob, NewJob, RowStep, IInv, TypeOK
<1>4. ASSUME NEW j \in Jobs, RecoverStale(j)
      PROVE  RowStep(k)
  <2>1. Active(jobs[j]) /\ jobs[j].attempts \in Nat
    BY <1>4, ActiveFacts DEF RecoverStale, Active, ActiveStatuses, JobRow
  <2> QED BY <1>4, <2>1, LeaseRowStep DEF RecoverStale
<1>5. ASSUME NEW w \in Workers, NEW j \in Jobs, WorkerStep(w, j)
      PROVE  RowStep(k)
  <2>1. CASE Claim(w, j)
    BY <2>1, LeaseRowStep DEF Claim, Active, ActiveStatuses
  <2>2. CASE FailPermanently(w, j) \/ FailRetryably(w, j) \/ Defer(w, j)
    <3>1. Active(jobs[j]) /\ jobs[j].attempts \in Nat /\ jobs[j].attempts >= 1
      BY <2>2, ActiveFacts DEF FailPermanently, FailRetryably, Defer, Owns, Active,
                               ActiveStatuses, RowInv, JobRow
    <3>2. jobs[j].attempts - 1 \in Nat
      BY <3>1
    <3> QED BY <2>2, <3>1, <3>2, LeaseRowStep DEF FailPermanently, FailRetryably, Defer
  <2>3. CASE CheckpointExtraction(w, j)
    BY <2>3, AdvanceRowStep DEF CheckpointExtraction, Stages, StageRank
  <2>4. CASE CheckpointMatching(w, j)
    BY <2>4, AdvanceRowStep DEF CheckpointMatching, Stages, StageRank
  <2>5. CASE CheckpointValidation(w, j)
    BY <2>5, AdvanceRowStep DEF CheckpointValidation, Stages, StageRank
  <2>6. CASE CompleteShadow(w, j)
    BY <2>6, CompletedRowStep DEF CompleteShadow, Stages
  <2>7. CASE CompletePublication(w, j)
    BY <2>7, CompletedRowStep DEF CompletePublication, Stages
  <2>8. ASSUME NEW snapshot \in Identities \union {NoIdentity}, Supersede(w, j, snapshot)
        PROVE  RowStep(k)
    <3> DEFINE row == [ReleasedLease(jobs[j]) EXCEPT !.status = "cancelled"]
               rows == [jobs EXCEPT ![j] = row]
    <3>1. Active(jobs[j])
      BY <2>8 DEF Supersede, Owns, Active, ActiveStatuses
    <3>2. /\ row.status = "cancelled" /\ row.item = jobs[j].item /\ row \in JobRow
          /\ row.identity = jobs[j].identity /\ row.stage = jobs[j].stage
      BY <3>1, ActiveFacts DEF ReleasedLease, JobRow, JobStatuses, TerminalStatuses
    <3>3. \/ jobs' = rows
          \/ \E itemRows, i : QueueOn(itemRows, rows, i, snapshot, FALSE)
      BY <2>8 DEF Supersede
    <3> HIDE DEF row
    <3>4. /\ rows \in [Jobs -> JobRow \union {NoJob}]
          /\ rows[j] = row /\ \A m \in Jobs \ {j} : rows[m] = jobs[m]
      BY <3>2 DEF IInv, TypeOK
    <3> HIDE DEF rows
    <3>5. CASE jobs' = rows
      BY <3>1, <3>2, <3>4, <3>5, KeptStage DEF RowStep, JobStatuses, TerminalStatuses
    <3>6. ASSUME NEW itemRows, NEW i, QueueOn(itemRows, rows, i, snapshot, FALSE)
          PROVE  RowStep(k)
      BY <3>1, <3>2, <3>4, <3>6, InsertRowStep
    <3> QED BY <3>3, <3>5, <3>6
  <2> QED BY <1>5, <2>1, <2>2, <2>3, <2>4, <2>5, <2>6, <2>7, <2>8 DEF WorkerStep
<1> QED BY <1>1, <1>2, <1>3, <1>4, <1>5 DEF Next

(* A job's input never changes, its stages are never revisited and its end is
   final, through every retry, recovery, supersession and operator command. *)
THEOREM JobsMoveForward == Spec => JobsOnlyMoveForward
<1>1. ASSUME IInv, Next, NEW j \in Jobs, jobs[j] # NoJob
      PROVE  /\ jobs'[j] # NoJob
             /\ jobs'[j].item = jobs[j].item /\ jobs'[j].identity = jobs[j].identity
             /\ StageRank(jobs[j].stage) <= StageRank(jobs'[j].stage)
             /\ jobs[j].status \in TerminalStatuses => jobs'[j] = jobs[j]
  <2>1. StageRank(jobs[j].stage) \in Nat
    BY <1>1 DEF IInv, TypeOK, JobRow, Stages, StageRank
  <2> QED BY <1>1, <2>1, NextRowStep
          DEF RowStep, Active, ActiveStatuses, WaitingStatuses, TerminalStatuses
<1>2. IInv /\ [Next]_vars => [\A j \in Jobs : jobs[j] # NoJob =>
          /\ jobs'[j] # NoJob
          /\ jobs'[j].item = jobs[j].item /\ jobs'[j].identity = jobs[j].identity
          /\ StageRank(jobs[j].stage) <= StageRank(jobs'[j].stage)
          /\ jobs[j].status \in TerminalStatuses => jobs'[j] = jobs[j]]_vars
  BY <1>1
<1> QED BY <1>2, Inductive, PTL DEF Spec, JobsOnlyMoveForward

(* No lost lease and no superseded input is ever recorded as completed. *)
THEOREM CurrentInputCompletes == Spec => OnlyCurrentInputCompletes
<1>1. ASSUME IInv, Next, NEW j \in Jobs, jobs'[j].status = "completed", jobs[j] # jobs'[j]
      PROVE  /\ jobs[j].status = "running"
             /\ items[jobs[j].item].latest = jobs[j].identity
             /\ items'[jobs[j].item].state = "completed"
             /\ ~items'[jobs[j].item].superseding
  BY <1>1, NextRowStep DEF RowStep
<1>2. IInv /\ [Next]_vars =>
        [\A j \in Jobs : jobs'[j].status = "completed" /\ jobs[j] # jobs'[j] =>
          /\ jobs[j].status = "running"
          /\ items[jobs[j].item].latest = jobs[j].identity
          /\ items'[jobs[j].item].state = "completed"
          /\ ~items'[jobs[j].item].superseding]_vars
  BY <1>1
<1> QED BY <1>2, Inductive, PTL DEF Spec, OnlyCurrentInputCompletes
=============================================================================
