---------------------------- MODULE ItemWorkProofs ----------------------------
(***************************************************************************)
(* ProcessingQueue implements ItemWork, for every value of the constants.  *)
(* A transaction changes the rows of one item i: what the others show      *)
(* stays (OthersShowTheSame), and what i shows makes one step of ItemWork  *)
(* or none (ItemStep).  SingleRow gives that view for the transactions     *)
(* that write one job row.                                                 *)
(***************************************************************************)
EXTENDS ProcessingQueueProofs

Ends == {"completed", "failed"}

ShowsTheSame(k) ==
    /\ items'[k].latest = items[k].latest
    /\ WorkedOn(k)' = WorkedOn(k)
    /\ \A s \in Ends : EndedInputs(k, s)' = EndedInputs(k, s)

OutcomesKept(i) == \A s \in Ends : EndedInputs(i, s)' = EndedInputs(i, s)

\* The actions of ItemWork, in terms of what one item shows.
ItemStep(i) ==
    \/ ShowsTheSame(i)
    \/ /\ OutcomesKept(i)
       /\ \/ /\ items'[i].latest \in Identities                              \* Want
             /\ WorkedOn(i)' = IF WorkedOn(i) = {} THEN {items'[i].latest} ELSE WorkedOn(i)
          \/ /\ items'[i].latest \in Identities /\ WorkedOn(i) # {}          \* Replace
             /\ WorkedOn(i)' = {items'[i].latest}
          \/ /\ items'[i].latest = NoIdentity                                \* Forget
             /\ WorkedOn(i)' \subseteq WorkedOn(i)
          \/ /\ items'[i].latest = items[i].latest /\ WorkedOn(i) = {}       \* Retry
             /\ items[i].latest \in EndedInputs(i, "failed")
             /\ WorkedOn(i)' = {items[i].latest}
    \/ /\ items'[i].latest = items[i].latest /\ WorkedOn(i)' = {}
       /\ \/ /\ WorkedOn(i) = {items[i].latest}                              \* Finish
             /\ EndedInputs(i, "completed")' =
                   EndedInputs(i, "completed") \union {items[i].latest}
             /\ EndedInputs(i, "failed")' = EndedInputs(i, "failed")
          \/ /\ WorkedOn(i) # {}                                             \* Fail
             /\ EndedInputs(i, "failed")' = EndedInputs(i, "failed") \union WorkedOn(i)
             /\ EndedInputs(i, "completed")' = EndedInputs(i, "completed")

-----------------------------------------------------------------------------
(* One item makes a step of ItemWork and the others show the same: so does the queue. *)
LEMMA Abstraction ==
    ASSUME TypeOK, NEW i \in Items, ItemStep(i), \A k \in Items \ {i} : ShowsTheSame(k)
    PROVE  Work!Next \/ UNCHANGED Work!work
<1> DEFINE wanted == [k \in Items |-> items[k].latest]
           working == [k \in Items |-> WorkedOn(k)]
           done == [k \in Items |-> EndedInputs(k, "completed")]
           failed == [k \in Items |-> EndedInputs(k, "failed")]
<1>1. /\ wanted' = [wanted EXCEPT ![i] = items'[i].latest]
      /\ working' = [working EXCEPT ![i] = WorkedOn(i)']
      /\ done' = [done EXCEPT ![i] = EndedInputs(i, "completed")']
      /\ failed' = [failed EXCEPT ![i] = EndedInputs(i, "failed")']
  BY DEF ShowsTheSame, Ends
<1>2. /\ wanted[i] = items[i].latest /\ working[i] = WorkedOn(i)
      /\ done[i] = EndedInputs(i, "completed") /\ failed[i] = EndedInputs(i, "failed")
  OBVIOUS
<1>3. /\ items'[i].latest = items[i].latest => wanted' = wanted
      /\ WorkedOn(i)' = WorkedOn(i) => working' = working
      /\ EndedInputs(i, "completed")' = EndedInputs(i, "completed") => done' = done
      /\ EndedInputs(i, "failed")' = EndedInputs(i, "failed") => failed' = failed
  BY <1>1, <1>2
<1>4. CASE ShowsTheSame(i)
  BY <1>3, <1>4 DEF ShowsTheSame, Ends, Work!work
<1>5. CASE OutcomesKept(i) /\ items'[i].latest \in Identities
           /\ WorkedOn(i)' = IF WorkedOn(i) = {} THEN {items'[i].latest} ELSE WorkedOn(i)
  <2>1. PICK id \in Identities : id = items'[i].latest
    BY <1>5
  <2>2. Work!Want(i, id)
    BY <1>1, <1>2, <1>3, <1>5, <2>1 DEF OutcomesKept, Ends, Work!Want
  <2> QED BY <2>2 DEF Work!Next
<1>6. CASE OutcomesKept(i) /\ items'[i].latest \in Identities /\ WorkedOn(i) # {}
           /\ WorkedOn(i)' = {items'[i].latest}
  <2>1. PICK id \in Identities : id = items'[i].latest
    BY <1>6
  <2>2. Work!Replace(i, id)
    BY <1>1, <1>2, <1>3, <1>6, <2>1 DEF OutcomesKept, Ends, Work!Replace
  <2> QED BY <2>2 DEF Work!Next
<1>7. CASE OutcomesKept(i) /\ items'[i].latest = NoIdentity /\ WorkedOn(i)' \subseteq WorkedOn(i)
  <2>1. Work!Forget(i)
    BY <1>1, <1>2, <1>3, <1>7 DEF OutcomesKept, Ends, Work!Forget
  <2> QED BY <2>1 DEF Work!Next
<1>8. CASE OutcomesKept(i) /\ items'[i].latest = items[i].latest /\ WorkedOn(i) = {}
           /\ items[i].latest \in EndedInputs(i, "failed") /\ WorkedOn(i)' = {items[i].latest}
  <2>1. Work!Retry(i)
    BY <1>1, <1>2, <1>3, <1>8 DEF OutcomesKept, Ends, Work!Retry
  <2> QED BY <2>1 DEF Work!Next
<1>9. CASE items'[i].latest = items[i].latest /\ WorkedOn(i)' = {}
           /\ WorkedOn(i) = {items[i].latest}
           /\ EndedInputs(i, "completed")' = EndedInputs(i, "completed") \union {items[i].latest}
           /\ EndedInputs(i, "failed")' = EndedInputs(i, "failed")
  <2>1. Work!Finish(i)
    BY <1>1, <1>2, <1>3, <1>9 DEF Work!Finish
  <2> QED BY <2>1 DEF Work!Next
<1>10. CASE items'[i].latest = items[i].latest /\ WorkedOn(i)' = {} /\ WorkedOn(i) # {}
            /\ EndedInputs(i, "failed")' = EndedInputs(i, "failed") \union WorkedOn(i)
            /\ EndedInputs(i, "completed")' = EndedInputs(i, "completed")
  <2>1. Work!Fail(i)
    BY <1>1, <1>2, <1>3, <1>10 DEF Work!Fail
  <2> QED BY <2>1 DEF Work!Next
<1> QED BY <1>4, <1>5, <1>6, <1>7, <1>8, <1>9, <1>10 DEF ItemStep

(* What an item shows depends on its own rows alone. *)
LEMMA OthersShowTheSame ==
    ASSUME NEW i \in Items, NEW k \in Items \ {i}, items'[k] = items[k],
           \A j \in Jobs : \/ jobs'[j] = jobs[j]
                           \/ /\ jobs[j] = NoJob \/ jobs[j].item = i
                              /\ jobs'[j].item = i
    PROVE  ShowsTheSame(k)
<1>1. ASSUME NEW j \in Jobs
      PROVE  \/ jobs'[j] = jobs[j]
             \/ /\ jobs[j].status \in ActiveStatuses \union Ends => jobs[j].item # k
                /\ jobs'[j].item # k
  BY <1>1 DEF NoJob, ActiveStatuses, WaitingStatuses, Ends
<1>2. WorkedOn(k)' = WorkedOn(k)
  BY <1>1 DEF WorkedOn, ActiveJobs, Active
<1>3. ASSUME NEW s \in Ends PROVE EndedInputs(k, s)' = EndedInputs(k, s)
  BY <1>1, <1>3 DEF EndedInputs
<1> QED BY <1>2, <1>3 DEF ShowsTheSame

(* A transaction that writes one job row, new or active: what its item shows before
   and after, if no other row of the item is active. *)
LEMMA SingleRow ==
    ASSUME IInv, NEW j \in Jobs, NEW row, NEW i \in Items, row.item = i,
           \/ jobs[j] = NoJob
           \/ Active(jobs[j]) /\ jobs[j].item = i /\ jobs[j].identity = row.identity,
           \A k \in Jobs \ {j} : ~(Active(jobs[k]) /\ jobs[k].item = i),
           jobs' = [jobs EXCEPT ![j] = row],
           \A k \in Items \ {i} : items'[k] = items[k]
    PROVE  /\ \A k \in Items \ {i} : ShowsTheSame(k)
           /\ jobs[j] = NoJob => WorkedOn(i) = {}
           /\ jobs[j] # NoJob => WorkedOn(i) = {row.identity}
           /\ Active(row) => WorkedOn(i)' = {row.identity}
           /\ ~Active(row) => WorkedOn(i)' = {}
           /\ row.status \notin Ends => OutcomesKept(i)
           /\ \A s \in Ends :
                 /\ row.status = s => EndedInputs(i, s)' = EndedInputs(i, s) \union {row.identity}
                 /\ row.status # s => EndedInputs(i, s)' = EndedInputs(i, s)
<1>1. jobs'[j] = row /\ \A k \in Jobs \ {j} : jobs'[k] = jobs[k]
  BY DEF IInv, TypeOK
<1>2. \A k \in Items \ {i} : ShowsTheSame(k)
  BY <1>1, OthersShowTheSame
<1>3. /\ ActiveJobs(jobs, i) = IF jobs[j] = NoJob THEN {} ELSE {j}
      /\ ActiveJobs(jobs, i)' = IF Active(row) THEN {j} ELSE {}
  BY <1>1 DEF ActiveJobs, Active, NoJob, ActiveStatuses, WaitingStatuses
<1>4. WorkedOn(i) = IF jobs[j] = NoJob THEN {} ELSE {row.identity}
  BY <1>3 DEF WorkedOn, NoJob, ActiveStatuses, WaitingStatuses
<1>5. WorkedOn(i)' = IF Active(row) THEN {row.identity} ELSE {}
  BY <1>1, <1>3 DEF WorkedOn, ActiveJobs
<1>6. ASSUME NEW s \in Ends
      PROVE  /\ row.status = s => EndedInputs(i, s)' = EndedInputs(i, s) \union {row.identity}
             /\ row.status # s => EndedInputs(i, s)' = EndedInputs(i, s)
  <2>1. jobs[j].status # s
    BY DEF NoJob, Active, ActiveStatuses, WaitingStatuses, Ends
  <2> QED BY <1>1, <2>1 DEF EndedInputs
<1>7. row.status \notin Ends => OutcomesKept(i)
  BY <1>6 DEF OutcomesKept
<1> QED BY <1>2, <1>4, <1>5, <1>6, <1>7

-----------------------------------------------------------------------------
(* The lease: claims and retries are invisible, the last failure is a Fail. *)
LEMMA ClaimWork ==
    ASSUME IInv, NEW w \in Workers, NEW j \in Jobs, Claim(w, j)
    PROVE  Work!Next \/ UNCHANGED Work!work
<1>0. PICK i \in Items : i = jobs[j].item
  BY ActiveFacts DEF Claim, Active, ActiveStatuses
<1> DEFINE n == jobs[j].attempts + 1
           row == [jobs[j] EXCEPT !.status = "running", !.owner = w, !.attempts = n]
<1>1. Active(jobs[j])
  BY <1>0 DEF Claim, Active, ActiveStatuses
<1>2. i \in Items /\ items[i] \in ItemRow /\ jobs[j] # NoJob
  BY <1>0, <1>1, ActiveFacts
<1>3. row.status = "running" /\ row.item = i /\ row.identity = jobs[j].identity
  <2> HIDE DEF n
  <2> QED BY <1>0, <1>1, ActiveFacts DEF JobRow
<1>4. jobs' = [jobs EXCEPT ![j] = row]
  BY <1>0 DEF Claim
<1>5. /\ items'[i].latest = items[i].latest
      /\ \A k \in Items \ {i} : items'[k] = items[k]
  BY <1>0, <1>2 DEF Claim, IInv, TypeOK, ItemRow
<1>6. \A k \in Jobs \ {j} : ~(Active(jobs[k]) /\ jobs[k].item = i)
  BY <1>0, <1>1, ActiveFacts
<1>a. Active(row) /\ row.status \notin Ends
  BY <1>3 DEF Active, ActiveStatuses, WaitingStatuses, Ends
<1> HIDE DEF row
<1>7. /\ WorkedOn(i)' = WorkedOn(i) /\ OutcomesKept(i)
      /\ \A k \in Items \ {i} : ShowsTheSame(k)
  <2>1. WorkedOn(i) = {row.identity} /\ WorkedOn(i)' = {row.identity}
    BY <1>0, <1>1, <1>2, <1>3, <1>4, <1>5, <1>6, SingleRow, <1>a
  <2>2. OutcomesKept(i)
    BY <1>0, <1>1, <1>2, <1>3, <1>4, <1>5, <1>6, SingleRow, <1>a
  <2>3. \A k \in Items \ {i} : ShowsTheSame(k)
    BY <1>0, <1>1, <1>2, <1>3, <1>4, <1>5, <1>6, SingleRow, <1>a
  <2> QED BY <2>1, <2>2, <2>3
<1>8. ShowsTheSame(i)
  BY <1>5, <1>7 DEF ShowsTheSame, OutcomesKept
<1> QED BY <1>0, <1>2, <1>7, <1>8, Abstraction DEF ItemStep, IInv

LEMMA RescheduledWork ==
    ASSUME IInv, NEW j \in Jobs, Active(jobs[j]), NEW a, Rescheduled(j, a)
    PROVE  Work!Next \/ UNCHANGED Work!work
<1>0. PICK i \in Items : i = jobs[j].item
  BY ActiveFacts
<1> DEFINE row == [ReleasedLease(jobs[j]) EXCEPT !.status = "retry_wait", !.attempts = a]
<1>1. i \in Items /\ items[i] \in ItemRow /\ jobs[j] # NoJob
  BY <1>0, ActiveFacts
<1>2. row.status = "retry_wait" /\ row.item = i /\ row.identity = jobs[j].identity
  BY <1>0, ActiveFacts DEF JobRow, ReleasedLease
<1>3. jobs' = [jobs EXCEPT ![j] = row]
  BY <1>0 DEF Rescheduled
<1>4. /\ items'[i].latest = items[i].latest
      /\ \A k \in Items \ {i} : items'[k] = items[k]
  BY <1>0, <1>1 DEF Rescheduled, IInv, TypeOK, ItemRow
<1>5. \A k \in Jobs \ {j} : ~(Active(jobs[k]) /\ jobs[k].item = i)
  BY <1>0, ActiveFacts
<1>a. Active(row) /\ row.status \notin Ends
  BY <1>2 DEF Active, ActiveStatuses, WaitingStatuses, Ends
<1> HIDE DEF row
<1>6. /\ WorkedOn(i)' = WorkedOn(i) /\ OutcomesKept(i)
      /\ \A k \in Items \ {i} : ShowsTheSame(k)
  <2>1. WorkedOn(i) = {row.identity} /\ WorkedOn(i)' = {row.identity}
    BY <1>0, <1>1, <1>2, <1>3, <1>4, <1>5, SingleRow, <1>a
  <2>2. OutcomesKept(i)
    BY <1>0, <1>1, <1>2, <1>3, <1>4, <1>5, SingleRow, <1>a
  <2>3. \A k \in Items \ {i} : ShowsTheSame(k)
    BY <1>0, <1>1, <1>2, <1>3, <1>4, <1>5, SingleRow, <1>a
  <2> QED BY <2>1, <2>2, <2>3
<1>7. ShowsTheSame(i)
  BY <1>4, <1>6 DEF ShowsTheSame, OutcomesKept
<1> QED BY <1>0, <1>1, <1>6, <1>7, Abstraction DEF ItemStep, IInv

LEMMA FailedWork ==
    ASSUME IInv, NEW j \in Jobs, Active(jobs[j]), Failed(j)
    PROVE  Work!Next \/ UNCHANGED Work!work
<1>0. PICK i \in Items : i = jobs[j].item
  BY ActiveFacts
<1> DEFINE row == [ReleasedLease(jobs[j]) EXCEPT !.status = "failed"]
<1>1. i \in Items /\ items[i] \in ItemRow /\ jobs[j] # NoJob
  BY <1>0, ActiveFacts
<1>2. row.status = "failed" /\ row.item = i /\ row.identity = jobs[j].identity
  BY <1>0, ActiveFacts DEF JobRow, ReleasedLease
<1>3. jobs' = [jobs EXCEPT ![j] = row]
  BY <1>0 DEF Failed
<1>4. /\ items'[i].latest = items[i].latest
      /\ \A k \in Items \ {i} : items'[k] = items[k]
  BY <1>0, <1>1 DEF Failed, IInv, TypeOK, ItemRow
<1>5. \A k \in Jobs \ {j} : ~(Active(jobs[k]) /\ jobs[k].item = i)
  BY <1>0, ActiveFacts
<1>a. ~Active(row)
  BY <1>2 DEF Active, ActiveStatuses, WaitingStatuses
<1> HIDE DEF row
<1>6. /\ WorkedOn(i) = {row.identity} /\ WorkedOn(i)' = {}
      /\ EndedInputs(i, "failed")' = EndedInputs(i, "failed") \union {row.identity}
      /\ EndedInputs(i, "completed")' = EndedInputs(i, "completed")
      /\ \A k \in Items \ {i} : ShowsTheSame(k)
  BY <1>0, <1>1, <1>2, <1>3, <1>5, <1>4, SingleRow, <1>a
     DEF ShowsTheSame, Ends
<1>7. ItemStep(i)
  BY <1>0, <1>4, <1>6 DEF ItemStep
<1> QED BY <1>0, <1>1, <1>6, <1>7, Abstraction DEF IInv

(* Checkpoints are invisible, a completed job is a Finish. *)
LEMMA AdvanceWork ==
    ASSUME IInv, NEW w \in Workers, NEW j \in Jobs, NEW from, NEW to, NEW itemState,
           Advance(w, j, from, to, itemState)
    PROVE  Work!Next \/ UNCHANGED Work!work
<1>0. PICK i \in Items : i = jobs[j].item
  BY ActiveFacts DEF Advance, OwnsCurrent, Owns, Active, ActiveStatuses
<1> DEFINE row == [jobs[j] EXCEPT !.stage = to, !.checkpoint = from]
<1>1. Active(jobs[j]) /\ jobs[j].status = "running"
  BY <1>0 DEF Advance, OwnsCurrent, Owns, Active, ActiveStatuses
<1>2. i \in Items /\ items[i] \in ItemRow /\ jobs[j] # NoJob
  BY <1>0, <1>1, ActiveFacts
<1>3. row.status = "running" /\ row.item = i /\ row.identity = jobs[j].identity
  BY <1>0, <1>1, ActiveFacts DEF JobRow
<1>4. jobs' = [jobs EXCEPT ![j] = row]
  BY <1>0 DEF Advance
<1>5. /\ items'[i].latest = items[i].latest
      /\ \A k \in Items \ {i} : items'[k] = items[k]
  BY <1>0, <1>2 DEF Advance, IInv, TypeOK, ItemRow
<1>6. \A k \in Jobs \ {j} : ~(Active(jobs[k]) /\ jobs[k].item = i)
  BY <1>0, <1>1, ActiveFacts
<1>a. Active(row) /\ row.status \notin Ends
  BY <1>3 DEF Active, ActiveStatuses, WaitingStatuses, Ends
<1> HIDE DEF row
<1>7. /\ WorkedOn(i)' = WorkedOn(i) /\ OutcomesKept(i)
      /\ \A k \in Items \ {i} : ShowsTheSame(k)
  <2>1. WorkedOn(i) = {row.identity} /\ WorkedOn(i)' = {row.identity}
    BY <1>0, <1>1, <1>2, <1>3, <1>4, <1>5, <1>6, SingleRow, <1>a
  <2>2. OutcomesKept(i)
    BY <1>0, <1>1, <1>2, <1>3, <1>4, <1>5, <1>6, SingleRow, <1>a
  <2>3. \A k \in Items \ {i} : ShowsTheSame(k)
    BY <1>0, <1>1, <1>2, <1>3, <1>4, <1>5, <1>6, SingleRow, <1>a
  <2> QED BY <2>1, <2>2, <2>3
<1>8. ShowsTheSame(i)
  BY <1>5, <1>7 DEF ShowsTheSame, OutcomesKept
<1> QED BY <1>0, <1>2, <1>7, <1>8, Abstraction DEF ItemStep, IInv

LEMMA CompletedWork ==
    ASSUME IInv, NEW w \in Workers, NEW j \in Jobs, NEW checkpoint,
           OwnsCurrent(w, j), Completed(w, j, checkpoint)
    PROVE  Work!Next \/ UNCHANGED Work!work
<1>0. PICK i \in Items : i = jobs[j].item
  BY ActiveFacts DEF OwnsCurrent, Owns, Active, ActiveStatuses
<1> DEFINE row == [ReleasedLease(jobs[j]) EXCEPT !.status = "completed",
                                                 !.checkpoint = checkpoint]
<1>1. Active(jobs[j]) /\ ~Superseded(items[i], jobs[j])
  BY <1>0 DEF OwnsCurrent, Owns, Active, ActiveStatuses
<1>2. i \in Items /\ items[i] \in ItemRow /\ jobs[j] # NoJob
  BY <1>0, <1>1, ActiveFacts
<1>3. row.status = "completed" /\ row.item = i /\ row.identity = jobs[j].identity
  BY <1>0, <1>1, ActiveFacts DEF JobRow, ReleasedLease
<1>4. jobs' = [jobs EXCEPT ![j] = row]
  BY <1>0 DEF Completed
<1>5. /\ items'[i].latest = items[i].latest
      /\ \A k \in Items \ {i} : items'[k] = items[k]
  BY <1>0, <1>1, <1>2 DEF Completed, IInv, TypeOK, ItemRow
<1>6. \A k \in Jobs \ {j} : ~(Active(jobs[k]) /\ jobs[k].item = i)
  BY <1>0, <1>1, ActiveFacts
<1>7. row.identity = items[i].latest
  BY <1>0, <1>1, <1>3 DEF Superseded
<1>a. ~Active(row)
  BY <1>3 DEF Active, ActiveStatuses, WaitingStatuses
<1> HIDE DEF row
<1>8. /\ WorkedOn(i) = {row.identity} /\ WorkedOn(i)' = {}
      /\ EndedInputs(i, "completed")' = EndedInputs(i, "completed") \union {row.identity}
      /\ EndedInputs(i, "failed")' = EndedInputs(i, "failed")
      /\ \A k \in Items \ {i} : ShowsTheSame(k)
  BY <1>0, <1>1, <1>2, <1>3, <1>4, <1>5, <1>6, SingleRow, <1>a
     DEF ShowsTheSame, Ends
<1>9. ItemStep(i)
  BY <1>0, <1>5, <1>7, <1>8 DEF ItemStep
<1> QED BY <1>0, <1>2, <1>8, <1>9, Abstraction DEF IInv

-----------------------------------------------------------------------------
(* Intake and operators. *)

(* A fresh job for an item without an active one. *)
LEMMA FreshJob ==
    ASSUME IInv, NEW n \in Jobs, jobs[n] = NoJob, NEW i \in Items, ActiveJobs(jobs, i) = {},
           NEW row, row.status = "scheduled", row.item = i, jobs' = [jobs EXCEPT ![n] = row],
           \A k \in Items \ {i} : items'[k] = items[k]
    PROVE  /\ WorkedOn(i) = {} /\ WorkedOn(i)' = {row.identity} /\ OutcomesKept(i)
           /\ \A k \in Items \ {i} : ShowsTheSame(k)
<1>1. Active(row) /\ row.status \notin Ends
  BY DEF Active, ActiveStatuses, WaitingStatuses, Ends
<1>2. \A k \in Jobs \ {n} : ~(Active(jobs[k]) /\ jobs[k].item = i)
  BY DEF ActiveJobs
<1>3. /\ Active(row) => WorkedOn(i)' = {row.identity}
      /\ row.status \notin Ends => OutcomesKept(i)
      /\ \A k \in Items \ {i} : ShowsTheSame(k)
  BY <1>1, <1>2, SingleRow
<1>4. WorkedOn(i) = {}
  BY DEF WorkedOn
<1> QED BY <1>1, <1>3, <1>4

LEMMA QueueSnapshotWork ==
    ASSUME IInv, NEW i \in Items, NEW id \in Identities, NEW forced \in BOOLEAN,
           QueueSnapshot(i, id, forced)
    PROVE  Work!Next \/ UNCHANGED Work!work
<1>1. items[i] \in ItemRow
  BY DEF IInv, TypeOK
<1>2. CASE ActiveJobs(jobs, i) = {}
  <2>1. PICK n \in Jobs :
           /\ jobs[n] = NoJob
           /\ jobs' = [jobs EXCEPT ![n] = NewJob(i, id, "extracting",
                                                 IF forced THEN "forced" ELSE "none")]
    BY <1>2 DEF QueueSnapshot, QueueOn
  <2>2. items' = [items EXCEPT ![i].latest = id, ![i].state = "scheduled"]
    BY <1>2 DEF QueueSnapshot, QueueOn
  <2>3. items'[i].latest = id /\ \A k \in Items \ {i} : items'[k] = items[k]
    BY <1>1, <2>2 DEF IInv, TypeOK, ItemRow
  <2>4. /\ WorkedOn(i) = {} /\ WorkedOn(i)' = {id} /\ OutcomesKept(i)
        /\ \A k \in Items \ {i} : ShowsTheSame(k)
    <3>1. PICK row : row = NewJob(i, id, "extracting", IF forced THEN "forced" ELSE "none")
      OBVIOUS
    <3>2. /\ jobs' = [jobs EXCEPT ![n] = row]
          /\ jobs[n] = NoJob
          /\ row.status = "scheduled" /\ row.item = i /\ row.identity = id
      BY <2>1, <3>1 DEF NewJob
    <3>3. /\ WorkedOn(i) = {} /\ WorkedOn(i)' = {row.identity} /\ OutcomesKept(i)
          /\ \A k \in Items \ {i} : ShowsTheSame(k)
      BY <1>2, <2>3, <3>2, FreshJob
    <3> QED BY <3>2, <3>3
  <2>5. ItemStep(i)
    BY <2>3, <2>4 DEF ItemStep
  <2> QED BY <2>4, <2>5, Abstraction DEF IInv
<1>3. CASE ActiveJobs(jobs, i) # {}
  <2>1. PICK j \in ActiveJobs(jobs, i) :
           /\ items' = [items EXCEPT ![i] = Coalesced(items[i], jobs[j], id)]
           /\ jobs' = jobs
    BY <1>3 DEF QueueSnapshot, QueueOn
  <2>2. items'[i].latest = id /\ \A k \in Items \ {i} : items'[k] = items[k]
    BY <2>1 DEF Coalesced, IInv, TypeOK
  <2>3. WorkedOn(i) # {} /\ WorkedOn(i)' = WorkedOn(i) /\ OutcomesKept(i)
    BY <2>1 DEF WorkedOn, ActiveJobs, OutcomesKept, EndedInputs
  <2>4. \A k \in Items \ {i} : ShowsTheSame(k)
    BY <2>1, <2>2, OthersShowTheSame
  <2>5. ItemStep(i)
    BY <2>2, <2>3 DEF ItemStep
  <2> QED BY <2>4, <2>5, Abstraction DEF IInv
<1> QED BY <1>2, <1>3

LEMMA RetryFailedJobWork ==
    ASSUME IInv, NEW j \in Jobs, RetryFailedJob(j)
    PROVE  Work!Next \/ UNCHANGED Work!work
<1>1. /\ jobs[j] \in JobRow /\ jobs[j].status = "failed"
      /\ items[jobs[j].item].latest = jobs[j].identity
  BY RowFacts DEF RetryFailedJob, Superseded, IInv, TypeOK, JobStatuses, TerminalStatuses
<1>2. PICK i \in Items : i = jobs[j].item
  BY <1>1 DEF JobRow
<1>3. PICK id \in Identities : id = jobs[j].identity
  BY <1>1 DEF JobRow
<1>4. PICK n \in Jobs :
         /\ jobs[n] = NoJob
         /\ jobs' = [jobs EXCEPT ![n] = NewJob(i, id, jobs[j].stage, jobs[j].checkpoint)]
  BY <1>2, <1>3 DEF RetryFailedJob
<1>5. items' = [items EXCEPT ![i].state = "scheduled", ![i].superseding = FALSE]
  BY <1>2 DEF RetryFailedJob
<1>6. items'[i].latest = items[i].latest /\ \A k \in Items \ {i} : items'[k] = items[k]
  BY <1>5 DEF IInv, TypeOK, ItemRow
<1>7. ActiveJobs(jobs, i) = {}
  BY <1>2 DEF RetryFailedJob
<1>8. /\ WorkedOn(i) = {} /\ WorkedOn(i)' = {id} /\ OutcomesKept(i)
      /\ \A k \in Items \ {i} : ShowsTheSame(k)
  <2>1. PICK row : row = NewJob(i, id, jobs[j].stage, jobs[j].checkpoint)
    OBVIOUS
  <2>2. /\ jobs' = [jobs EXCEPT ![n] = row]
        /\ row.status = "scheduled" /\ row.item = i /\ row.identity = id
    BY <1>4, <2>1 DEF NewJob
  <2> QED BY <1>4, <1>6, <1>7, <2>2, FreshJob
<1>9. id \in EndedInputs(i, "failed") /\ items[i].latest = id
  BY <1>1, <1>2, <1>3 DEF EndedInputs
<1>10. ItemStep(i)
  BY <1>6, <1>8, <1>9 DEF ItemStep
<1> QED BY <1>8, <1>10, Abstraction DEF IInv

LEMMA ReconcileWork ==
    ASSUME IInv, NEW i \in Items, ReconcileIneligible(i)
    PROVE  Work!Next \/ UNCHANGED Work!work
<1>1. items'[i].latest = NoIdentity /\ \A k \in Items \ {i} : items'[k] = items[k]
  BY DEF ReconcileIneligible, IInv, TypeOK
<1>2. ASSUME NEW j \in Jobs
      PROVE  \/ jobs'[j] = jobs[j]
             \/ /\ Active(jobs[j]) /\ jobs[j].item = i
                /\ jobs'[j].item = i /\ jobs'[j].status = "cancelled"
  <2> DEFINE row == [ReleasedLease(jobs[j]) EXCEPT !.status = "cancelled"]
  <2>1. \/ jobs'[j] = jobs[j]
        \/ Active(jobs[j]) /\ jobs[j].item = i /\ jobs'[j] = row
    BY DEF ReconcileIneligible, ActiveJobs
  <2>2. Active(jobs[j]) => row.item = jobs[j].item /\ row.status = "cancelled"
    BY ActiveFacts DEF ReleasedLease, JobRow
  <2> QED BY <2>1, <2>2
<1>3. \A k \in Items \ {i} : ShowsTheSame(k)
  BY <1>1, <1>2, OthersShowTheSame
<1>4. OutcomesKept(i)
  <2>1. \A j \in Jobs, s \in Ends : jobs'[j].status = s \/ jobs[j].status = s => jobs'[j] = jobs[j]
    BY <1>2 DEF Ends, Active, ActiveStatuses, WaitingStatuses
  <2> QED BY <2>1 DEF OutcomesKept, EndedInputs
<1>5. WorkedOn(i)' \subseteq WorkedOn(i)
  <2>1. \A j \in Jobs : Active(jobs'[j]) => jobs'[j] = jobs[j]
    BY <1>2 DEF Active, ActiveStatuses, WaitingStatuses
  <2> QED BY <2>1 DEF WorkedOn, ActiveJobs
<1>6. ItemStep(i)
  BY <1>1, <1>4, <1>5 DEF ItemStep
<1> QED BY <1>3, <1>6, Abstraction DEF IInv

(* The cancelled job gives way to none or to its successor, never to nothing while
   an input is wanted. *)
LEMMA SupersedeWork ==
    ASSUME IInv, NEW w \in Workers, NEW j \in Jobs,
           NEW snapshot \in Identities \union {NoIdentity}, Supersede(w, j, snapshot)
    PROVE  Work!Next \/ UNCHANGED Work!work
<1>0. PICK i \in Items : i = jobs[j].item
  BY ActiveFacts DEF Supersede, Owns, Active, ActiveStatuses
<1> DEFINE row == [ReleasedLease(jobs[j]) EXCEPT !.status = "cancelled"]
           cancelled == [jobs EXCEPT ![j] = row]
           wanting == [items EXCEPT ![i].latest = snapshot, ![i].superseding = TRUE]
<1>1. Active(jobs[j])
  BY DEF Supersede, Owns, Active, ActiveStatuses
<1>2. /\ items[i] \in ItemRow /\ jobs[j].item = i /\ jobs[j] # NoJob
      /\ \A k \in Jobs \ {j} : ~(Active(jobs[k]) /\ jobs[k].item = i)
  BY <1>0, <1>1, ActiveFacts
<1>3. /\ row.status = "cancelled" /\ row.item = i /\ row.identity = jobs[j].identity
  BY <1>0, <1>1, ActiveFacts DEF ReleasedLease, JobRow
<1>4. ~Active(row) /\ row.status \notin Ends /\ row # NoJob
  BY <1>3 DEF Active, ActiveStatuses, WaitingStatuses, Ends, NoJob
<1>5. WorkedOn(i) # {}
  BY <1>1, <1>2 DEF WorkedOn, ActiveJobs
<1>6. CASE /\ jobs' = cancelled
           /\ items' = [items EXCEPT ![i] = [latest |-> NoIdentity, state |-> "ineligible",
                                             superseding |-> FALSE]]
  <2>1. items'[i].latest = NoIdentity /\ \A k \in Items \ {i} : items'[k] = items[k]
    BY <1>6 DEF IInv, TypeOK
  <2>2. jobs' = [jobs EXCEPT ![j] = row]
    BY <1>6
  <2> HIDE DEF row
  <2>3. WorkedOn(i)' = {} /\ OutcomesKept(i) /\ \A k \in Items \ {i} : ShowsTheSame(k)
    BY <1>1, <1>2, <1>3, <1>4, <2>1, <2>2, SingleRow
  <2>4. ItemStep(i)
    BY <2>1, <2>3 DEF ItemStep
  <2> QED BY <2>3, <2>4, Abstraction DEF IInv
<1>7. CASE snapshot \in Identities /\ QueueOn(wanting, cancelled, i, snapshot, FALSE)
  <2> HIDE DEF row
  <2>1. ActiveJobs(cancelled, i) = {}
    BY <1>2, <1>4 DEF ActiveJobs, IInv, TypeOK
  <2>2. PICK n \in Jobs :
           /\ cancelled[n] = NoJob
           /\ jobs' = [cancelled EXCEPT ![n] = NewJob(i, snapshot, "extracting", "none")]
    BY <1>7, <2>1 DEF QueueOn
  <2>3. items' = [wanting EXCEPT ![i].latest = snapshot, ![i].state = "scheduled"]
    BY <1>7, <2>1 DEF QueueOn
  <2>4. items'[i].latest = snapshot /\ \A k \in Items \ {i} : items'[k] = items[k]
    BY <1>2, <2>3 DEF IInv, TypeOK, ItemRow
  <2> DEFINE new == NewJob(i, snapshot, "extracting", "none")
  <2>5. new.status = "scheduled" /\ new.item = i /\ new.identity = snapshot
    BY DEF NewJob
  <2>6. n # j /\ jobs[n] = NoJob
    BY <1>4, <2>2 DEF IInv, TypeOK
  <2>7. /\ jobs'[n] = new /\ jobs'[j] = row
        /\ \A k \in Jobs \ {j, n} : jobs'[k] = jobs[k]
    BY <2>2, <2>6 DEF IInv, TypeOK
  <2> HIDE DEF new
  <2>8. \A k \in Items \ {i} : ShowsTheSame(k)
    <3>1. \A m \in Jobs : \/ jobs'[m] = jobs[m]
                          \/ (jobs[m] = NoJob \/ jobs[m].item = i) /\ jobs'[m].item = i
      BY <1>2, <1>3, <2>5, <2>6, <2>7
    <3> QED BY <2>4, <3>1, OthersShowTheSame
  <2>9. WorkedOn(i)' = {snapshot}
    <3>1. ActiveJobs(jobs, i)' = {n}
      BY <1>2, <1>4, <2>5, <2>7 DEF ActiveJobs, Active, ActiveStatuses, WaitingStatuses
    <3> QED BY <2>5, <2>7, <3>1 DEF WorkedOn, ActiveJobs
  <2>10. OutcomesKept(i)
    <3>1. /\ jobs[n].status \notin Ends /\ jobs'[n].status \notin Ends
          /\ jobs[j].status \notin Ends /\ jobs'[j].status \notin Ends
      BY <1>1, <1>4, <2>5, <2>6, <2>7
         DEF NoJob, Ends, Active, ActiveStatuses, WaitingStatuses
    <3>2. \A k \in Jobs, s \in Ends : jobs'[k].status = s \/ jobs[k].status = s => jobs'[k] = jobs[k]
      BY <2>7, <3>1
    <3> QED BY <3>2 DEF OutcomesKept, EndedInputs
  <2>11. ItemStep(i)
    BY <1>5, <1>7, <2>4, <2>9, <2>10 DEF ItemStep
  <2> QED BY <2>8, <2>11, Abstraction DEF IInv
<1> QED BY <1>0, <1>6, <1>7 DEF Supersede

-----------------------------------------------------------------------------
LEMMA WorkerStepWork ==
    ASSUME IInv, NEW w \in Workers, NEW j \in Jobs, WorkerStep(w, j)
    PROVE  Work!Next \/ UNCHANGED Work!work
<1>1. CASE Claim(w, j)
  BY <1>1, ClaimWork
<1>2. CASE FailPermanently(w, j) \/ FailRetryably(w, j) \/ Defer(w, j)
  BY <1>2, RescheduledWork, FailedWork
     DEF FailPermanently, FailRetryably, Defer, Owns, Active, ActiveStatuses
<1>3. CASE CheckpointExtraction(w, j) \/ CheckpointMatching(w, j) \/ CheckpointValidation(w, j)
  BY <1>3, AdvanceWork DEF CheckpointExtraction, CheckpointMatching, CheckpointValidation
<1>4. CASE CompleteShadow(w, j) \/ CompletePublication(w, j)
  BY <1>4, CompletedWork DEF CompleteShadow, CompletePublication
<1>5. CASE \E snapshot \in Identities \union {NoIdentity} : Supersede(w, j, snapshot)
  BY <1>5, SupersedeWork
<1> QED BY <1>1, <1>2, <1>3, <1>4, <1>5 DEF WorkerStep

LEMMA NextWork == IInv /\ [Next]_vars => [Work!Next]_Work!work
<1> SUFFICES ASSUME IInv, [Next]_vars PROVE Work!Next \/ UNCHANGED Work!work
  OBVIOUS
<1>1. CASE UNCHANGED vars
  BY <1>1 DEF vars, Work!work, WorkedOn, ActiveJobs, EndedInputs
<1>2. CASE \E i \in Items, id \in Identities, forced \in BOOLEAN : QueueSnapshot(i, id, forced)
  BY <1>2, QueueSnapshotWork
<1>3. CASE \E i \in Items : ReconcileIneligible(i)
  BY <1>3, ReconcileWork
<1>4. ASSUME NEW j \in Jobs, RecoverStale(j) PROVE Work!Next \/ UNCHANGED Work!work
  BY <1>4, RescheduledWork, FailedWork DEF RecoverStale, Active, ActiveStatuses
<1>5. CASE \E j \in Jobs : RetryFailedJob(j) \/ RecoverStale(j)
  BY <1>4, <1>5, RetryFailedJobWork
<1>6. CASE \E w \in Workers, j \in Jobs : WorkerStep(w, j)
  BY <1>6, WorkerStepWork
<1> QED BY <1>1, <1>2, <1>3, <1>5, <1>6 DEF Next

LEMMA InitWork == Init => Work!Init
  BY DEF Init, Work!Init, WorkedOn, EndedInputs, ActiveJobs, Active, NoJob, ActiveStatuses,
         WaitingStatuses

(* The two tables, with every lease, attempt, stage and recovery in them, implement
   the abstract view: each transaction is one of its steps or none. *)
THEOREM ImplementsItemWork == Spec => RefinesItemWork
  BY InitWork, NextWork, Inductive, PTL DEF Spec, RefinesItemWork, Work!Spec
=============================================================================
