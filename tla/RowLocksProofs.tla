---------------------------- MODULE RowLocksProofs ----------------------------
(***************************************************************************)
(* What RowLocks states about safety holds for every set of deliveries,    *)
(* workers, events and items.                                              *)
(*                                                                         *)
(* The inductive invariant says which locks a process holds at each point  *)
(* of its transactions (IntakeLocks, RecoveryLocks, JobLocks, KeyIsHeld),  *)
(* and what the locks protect: the events of a batch stay due while they   *)
(* are locked (BatchIsLocked), an event stays unstored while its key is    *)
(* (KeyIsHeld).  That processes wait in a circle only where both orders    *)
(* meet follows from the locks alone, however many processes wait.         *)
(***************************************************************************)
EXTENDS RowLocks, TLAPS, WellFoundedInduction

\* The points at which a worker's transaction is about one item.
ItemPoints == {"advisory", "batch", "read", "queue_item", "queue_job", "recover_item",
               "checkpoint_job", "checkpoint_item", "failure_job", "failure_item"}

EventRowsOf(i) == {EventRow(e) : e \in {f \in Events : ItemOf[f] = i}}
JobAndItemRows == {JobRow(i) : i \in Items} \union {ItemRow(i) : i \in Items}

WorksOnItem(w) == at[w] \in ItemPoints => item[w] \in Items

\* An intake holds its candidate, then its item and events of it, then the item row.
IntakeLocks(w) ==
    /\ at[w] = "advisory" =>
          /\ holds[w] \subseteq EventRowsOf(item[w])
          /\ \E e \in Events : Due(e) /\ ItemOf[e] = item[w] /\ EventRow(e) \in holds[w]
    /\ at[w] \in {"batch", "read", "queue_item", "queue_job"} =>
          Advisory(item[w]) \in holds[w]
    /\ at[w] \in {"batch", "read", "queue_item"} =>
          holds[w] \subseteq EventRowsOf(item[w]) \union {Advisory(item[w])}
    /\ at[w] = "queue_job" =>
          holds[w] \subseteq EventRowsOf(item[w]) \union {Advisory(item[w]), ItemRow(item[w])}
    /\ at[w] = "batch" => /\ todo[w] # {} /\ todo[w] \subseteq Events
                          /\ \A e \in todo[w] : ItemOf[e] = item[w]

BatchIsLocked(w) ==
    /\ at[w] \notin {"batch", "read", "queue_item", "queue_job"} => batch[w] = {}
    /\ \A e \in batch[w] : EventRow(e) \in holds[w] /\ Due(e)

\* A recovery holds the stale jobs, and the items it is through with.
RecoveryLocks(w) ==
    /\ at[w] \in {"recover_item", "claim"} =>
          /\ holds[w] \subseteq JobAndItemRows
          /\ \A i \in Items : ItemRow(i) \in holds[w] => JobRow(i) \in holds[w]
    /\ at[w] = "recover_item" => /\ todo[w] \subseteq Items /\ item[w] \in todo[w]
                                 /\ \A i \in todo[w] : JobRow(i) \in holds[w]

JobLocks(w) ==
    at[w] \in {"checkpoint_item", "failure_item"} => holds[w] = {JobRow(item[w])}

\* A request that inserts holds the key of an event that is not stored.
KeyIsHeld(d) ==
    at[d] = "inserted" => Key(EventOf[d]) \in holds[d] /\ ~IsStored(EventOf[d])

WorkerOK(w) ==
    /\ at[w] \in IntakePoints \union JobPoints
    /\ WorksOnItem(w) /\ IntakeLocks(w) /\ BatchIsLocked(w) /\ RecoveryLocks(w) /\ JobLocks(w)

RequestOK(d) ==
    /\ at[d] \in RequestPoints
    /\ KeyIsHeld(d)
    /\ at[d] \in Answers => IsStored(EventOf[d])

DueHasAttemptsLeft == \A e \in Events : Due(e) => event[e].attempts < MaxAttempts

IInv ==
    /\ TypeOK
    /\ \A w \in Workers : WorkerOK(w)
    /\ \A d \in Requests : RequestOK(d)
    /\ DueHasAttemptsLeft
    /\ AnswersAreTrue

-----------------------------------------------------------------------------
(* Locks and steps *)

\* First finds the least of some numbers.
LEMMA FirstIsOne ==
    ASSUME NEW S \in SUBSET Nat, S # {}
    PROVE  First(S) \in S
<1> DEFINE Less == OpToRel(<, Nat)
<1>1. PICK n \in S : \A m \in S : <<m, n>> \notin Less
  <2>1. IsWellFoundedOn(Less, Nat)
    BY NatLessThanWellFounded
  <2> HIDE DEF Less
  <2> QED
    BY <2>1, WFMin
<1>2. \A m \in S : n <= m
  <2>1. ASSUME NEW m \in S, m < n PROVE FALSE
    <3>1. <<m, n>> \in Less
      BY <2>1 DEF OpToRel
    <3> QED
      BY <1>1, <3>1
  <2> QED
    BY <2>1
<1> QED
  BY <1>2, Zenon DEF First

\* What a step of p may do to locks.
Locking(p) ==
    \/ \E locks \in SUBSET Resources : Lock(p, locks)
    \/ Release(p)
    \/ UNCHANGED holds

\* No step gives a process a lock that another one holds.
LEMMA LocksStayApart ==
    ASSUME IInv, NEW p \in Processes, Locking(p)
    PROVE  /\ holds' \in [Processes -> SUBSET Resources]
           /\ \A q \in Processes \ {p} : holds'[q] = holds[q]
           /\ \A q, r \in Processes : q = r \/ holds'[q] \intersect holds'[r] = {}
<1>1. /\ holds \in [Processes -> SUBSET Resources]
      /\ \A q, r \in Processes : q = r \/ holds[q] \intersect holds[r] = {}
  BY DEF IInv, TypeOK
<1>2. CASE UNCHANGED holds
  BY <1>1, <1>2
<1>3. CASE Release(p)
  BY <1>1, <1>3 DEF Release
<1>4. ASSUME NEW locks \in SUBSET Resources, Lock(p, locks)
      PROVE  /\ holds' \in [Processes -> SUBSET Resources]
             /\ \A q \in Processes \ {p} : holds'[q] = holds[q]
             /\ \A q, r \in Processes : q = r \/ holds'[q] \intersect holds'[r] = {}
  <2>1. /\ holds' = [holds EXCEPT ![p] = holds[p] \union locks]
        /\ \A q \in Processes \ {p} : holds[q] \intersect locks = {}
    BY <1>4 DEF Lock
  <2>2. /\ holds'[p] = holds[p] \union locks
        /\ \A q \in Processes \ {p} : holds'[q] = holds[q]
        /\ holds' \in [Processes -> SUBSET Resources]
    BY <1>1, <2>1
  <2>3. \A q \in Processes \ {p} : holds'[q] \intersect holds'[p] = {}
    BY <1>1, <2>1, <2>2
  <2> QED
    BY <1>1, <2>2, <2>3
<1> QED
  BY <1>2, <1>3, <1>4 DEF Locking

\* The rows that a step of p may write: due events it has locked, and the event it inserts.
WritesLocked(p) ==
    \A e \in Events : event'[e] # event[e] =>
        \/ Due(e) /\ EventRow(e) \in holds[p]
        \/ ~IsStored(e) /\ Key(e) \in holds[p]

\* A step of p keeps the invariant if it leaves p itself well and writes only what it
\* has locked.
LEMMA ProcessStep ==
    ASSUME IInv, NEW p \in Processes,
           event' \in [Events -> [status : {"none", "due", "exhausted", "processed"},
                                  attempts : 0 .. MaxAttempts]],
           job' \in [Items -> [status : {"none", "waiting", "running"},
                               owner : Workers \union {Nobody}]],
           \E point : at' = [at EXCEPT ![p] = point],
           Locking(p),
           p \in Workers =>
              /\ item' \in [Workers -> Items \union {Nobody}]
              /\ todo' \in [Workers -> (SUBSET Events) \union (SUBSET Items)]
              /\ batch' \in [Workers -> SUBSET Events]
              /\ \A v \in Workers \ {p} : /\ item'[v] = item[v] /\ todo'[v] = todo[v]
                                          /\ batch'[v] = batch[v]
              /\ WorkerOK(p)',
           p \in Requests => UNCHANGED <<item, todo, batch>> /\ RequestOK(p)',
           at'[p] \in Outside => holds'[p] = {},
           WritesLocked(p),
           \A e \in Events : IsStored(e) => IsStored(e)',
           \A e \in Events : event'[e] # event[e] /\ Due(e)' => event'[e].attempts < MaxAttempts,
           at'[p] = "accepted" => at[p] = "accepted" \/ ~IsStored(EventOf[p])
    PROVE  IInv'
<1>1. /\ holds' \in [Processes -> SUBSET Resources]
      /\ \A q \in Processes \ {p} : holds'[q] = holds[q]
      /\ \A q, r \in Processes : q = r \/ holds'[q] \intersect holds'[r] = {}
  BY LocksStayApart
<1>2. /\ at \in [Processes -> RequestPoints \union IntakePoints \union JobPoints]
      /\ \A q \in Processes : at[q] \in Outside => holds[q] = {}
      /\ \A q, r \in Processes : q = r \/ holds[q] \intersect holds[r] = {}
  BY DEF IInv, TypeOK
<1>3. p \in Requests \union Workers /\ (p \in Requests => p \notin Workers)
  BY RequestsAreNoWorkers DEF Processes
<1>4. \A q \in Processes \ {p} : at'[q] = at[q]
  BY <1>2
<1>5. at' \in [Processes -> RequestPoints \union IntakePoints \union JobPoints]
  <2>1. at'[p] \in RequestPoints \union IntakePoints \union JobPoints
    BY <1>3 DEF WorkerOK, RequestOK
  <2> QED
    BY <1>2, <2>1
<1>6. \A v \in Workers \ {p} :
         item'[v] = item[v] /\ todo'[v] = todo[v] /\ batch'[v] = batch[v]
  BY <1>3
<1>7. TypeOK'
  BY <1>1, <1>2, <1>3, <1>4, <1>5 DEF IInv, TypeOK
<1>8. ASSUME NEW v \in Workers \ {p} PROVE WorkerOK(v)'
  <2>1. WorkerOK(v) /\ v \in Processes
    BY DEF IInv, Processes
  <2>2. at'[v] = at[v] /\ holds'[v] = holds[v]
    BY <1>1, <1>4, <2>1
  <2>3. \A e \in Events : Due(e) /\ EventRow(e) \in holds[v] => Due(e)'
    <3> SUFFICES ASSUME NEW e \in Events, Due(e), EventRow(e) \in holds[v] PROVE event'[e] = event[e]
      BY DEF Due
    <3>1. EventRow(e) \notin holds[p]
      BY <1>2, <2>1
    <3> QED
      BY <3>1 DEF WritesLocked, Due, IsStored
  <2>4. batch[v] \subseteq Events
    BY DEF IInv, TypeOK
  <2>5. IntakeLocks(v)'
    BY <1>6, <2>1, <2>2, <2>3 DEF WorkerOK, IntakeLocks
  <2>6. BatchIsLocked(v)'
    BY <1>6, <2>1, <2>2, <2>3, <2>4 DEF WorkerOK, BatchIsLocked
  <2>7. WorksOnItem(v)' /\ RecoveryLocks(v)' /\ JobLocks(v)'
    BY <1>6, <2>1, <2>2 DEF WorkerOK, WorksOnItem, RecoveryLocks, JobLocks
  <2> QED
    BY <2>1, <2>2, <2>5, <2>6, <2>7 DEF WorkerOK
<1>9. ASSUME NEW d \in Requests \ {p} PROVE RequestOK(d)'
  <2>1. RequestOK(d) /\ d \in Processes /\ EventOf[d] \in Events
    BY DeliveriesHaveEvents DEF IInv, Processes
  <2>2. at'[d] = at[d] /\ holds'[d] = holds[d]
    BY <1>1, <1>4, <2>1
  <2>3. ASSUME at[d] = "inserted" PROVE event'[EventOf[d]] = event[EventOf[d]]
    <3>1. Key(EventOf[d]) \in holds[d] /\ ~IsStored(EventOf[d])
      BY <2>1, <2>3 DEF RequestOK, KeyIsHeld
    <3>2. Key(EventOf[d]) \notin holds[p]
      BY <1>2, <2>1, <3>1
    <3> QED
      BY <2>1, <3>1, <3>2 DEF WritesLocked, Due, IsStored
  <2> QED
    BY <2>1, <2>2, <2>3 DEF RequestOK, KeyIsHeld, IsStored
<1>10. DueHasAttemptsLeft'
  BY DEF IInv, DueHasAttemptsLeft, Due
<1>11. (\A w \in Workers : WorkerOK(w))' /\ (\A d \in Requests : RequestOK(d))'
  BY <1>3, <1>8, <1>9
<1>12. AnswersAreTrue'
  <2>1. \A d \in Requests : at'[d] \in Answers => IsStored(EventOf[d])'
    BY <1>11 DEF RequestOK
  <2>2. ASSUME NEW d \in Requests, at'[d] = "accepted"
        PROVE  d \in Processes /\ (at[d] = "accepted" \/ (d = p /\ ~IsStored(EventOf[p])))
    BY <1>4, <2>2 DEF Processes
  <2>3. \A d \in Requests : at[d] = "accepted" => IsStored(EventOf[d])
    BY DEF IInv, AnswersAreTrue, Answers
  <2>4. ASSUME NEW d1 \in Requests, NEW d2 \in Requests, at'[d1] = "accepted",
               at'[d2] = "accepted", EventOf[d1] = EventOf[d2]
        PROVE  d1 = d2
    BY <2>2, <2>3, <2>4 DEF IInv, AnswersAreTrue
  <2> QED
    BY <2>1, <2>4 DEF AnswersAreTrue
<1> QED
  BY <1>7, <1>10, <1>11, <1>12 DEF IInv

-----------------------------------------------------------------------------
(* The webhook route *)

\* What a step of a request leaves to show.
LEMMA RequestMoves ==
    ASSUME IInv, NEW d \in Requests, NEW point \in RequestPoints, GoTo(d, point),
           UNCHANGED <<event, job, item, todo, batch>>,
           \/ Lock(d, {Key(EventOf[d])}) /\ point = "inserted" /\ ~IsStored(EventOf[d])
           \/ Release(d) /\ point \notin Answers \union {"inserted"}
           \/ UNCHANGED holds /\ holds[d] = {} /\ point = "insert"
           \/ UNCHANGED holds /\ holds[d] = {} /\ point = "duplicate" /\ IsStored(EventOf[d])
    PROVE  IInv'
<1>1. /\ d \in Processes /\ EventOf[d] \in Events /\ d \notin Workers
      /\ holds \in [Processes -> SUBSET Resources]
      /\ at \in [Processes -> RequestPoints \union IntakePoints \union JobPoints]
  BY DeliveriesHaveEvents, RequestsAreNoWorkers DEF IInv, TypeOK, Processes
<1>2. at'[d] = point /\ at' = [at EXCEPT ![d] = point]
  BY <1>1 DEF GoTo
<1>3. Key(EventOf[d]) \in Resources
  BY <1>1 DEF Resources
<1>4. /\ point = "inserted" => Key(EventOf[d]) \in holds'[d] /\ ~IsStored(EventOf[d])
      /\ point # "inserted" => holds'[d] = {}
      /\ point \in Answers => IsStored(EventOf[d]) /\ point = "duplicate"
  BY <1>1 DEF Lock, Release, Answers
<1>5. RequestOK(d)'
  BY <1>2, <1>4 DEF RequestOK, KeyIsHeld, IsStored
<1>6. /\ event \in [Events -> [status : {"none", "due", "exhausted", "processed"},
                               attempts : 0 .. MaxAttempts]]
      /\ job \in [Items -> [status : {"none", "waiting", "running"},
                            owner : Workers \union {Nobody}]]
  BY DEF IInv, TypeOK
<1>7. /\ WritesLocked(d)
      /\ at'[d] \in Outside => holds'[d] = {}
      /\ \A e \in Events : IsStored(e) => IsStored(e)'
      /\ at'[d] = "accepted" => at[d] = "accepted"
  BY <1>2, <1>4 DEF WritesLocked, Outside, Answers, IsStored
<1>8. Locking(d)
  BY <1>3 DEF Locking
<1> QED
  BY <1>1, <1>2, <1>5, <1>6, <1>7, <1>8, ProcessStep

LEMMA LookStep ==
    ASSUME IInv, NEW d \in Requests, Look(d) \/ Insert(d) \/ Lose(d)
    PROVE  IInv'
<1>1. at[d] \in {"sent", "insert"} => holds[d] = {}
  BY DEF IInv, TypeOK, Processes, Outside
<1>2. CASE Look(d)
  <2>1. CASE IsStored(EventOf[d])
    BY <1>1, <1>2, <2>1, RequestMoves DEF Look, RequestPoints, Answers
  <2>2. CASE ~IsStored(EventOf[d])
    BY <1>1, <1>2, <2>2, RequestMoves DEF Look, RequestPoints, Answers
  <2> QED
    BY <2>1, <2>2
<1>3. CASE Insert(d)
  <2>1. CASE IsStored(EventOf[d])
    BY <1>1, <1>3, <2>1, RequestMoves DEF Insert, RequestPoints, Answers
  <2>2. CASE ~IsStored(EventOf[d])
    BY <1>1, <1>3, <2>2, RequestMoves DEF Insert, RequestPoints, Answers
  <2> QED
    BY <2>1, <2>2
<1>4. CASE Lose(d)
  BY <1>1, <1>4, RequestMoves DEF Lose, RequestPoints, Answers
<1> QED
  BY <1>2, <1>3, <1>4

\* The commit stores the event, which the request's key kept unstored.
LEMMA CommitStep == ASSUME IInv, NEW d \in Requests, Commit(d) PROVE IInv'
<1> DEFINE e == EventOf[d]
           row == [status |-> "due", attempts |-> 0]
<1>1. /\ d \in Processes /\ e \in Events /\ d \notin Workers
      /\ holds \in [Processes -> SUBSET Resources]
      /\ at \in [Processes -> RequestPoints \union IntakePoints \union JobPoints]
      /\ event \in [Events -> [status : {"none", "due", "exhausted", "processed"},
                               attempts : 0 .. MaxAttempts]]
      /\ job \in [Items -> [status : {"none", "waiting", "running"},
                            owner : Workers \union {Nobody}]]
      /\ RequestOK(d)
  BY DeliveriesHaveEvents, RequestsAreNoWorkers DEF IInv, TypeOK, Processes
<1>2. /\ at[d] = "inserted" /\ Key(e) \in holds[d] /\ ~IsStored(e)
      /\ at'[d] = "accepted" /\ at' = [at EXCEPT ![d] = "accepted"]
      /\ Locking(d) /\ holds'[d] = {} /\ UNCHANGED <<job, item, todo, batch>>
  BY <1>1 DEF Commit, GoTo, Release, Locking, RequestOK, KeyIsHeld
<1>3. event' = [event EXCEPT ![e] = row] /\ event'[e] = row
      /\ \A f \in Events \ {e} : event'[f] = event[f]
  BY <1>1 DEF Commit
<1>4. row \in [status : {"none", "due", "exhausted", "processed"},
               attempts : 0 .. MaxAttempts]
  BY AttemptsPositive
<1>5. RequestOK(d)'
  BY <1>2, <1>3 DEF RequestOK, KeyIsHeld, IsStored, RequestPoints, Answers
<1>6. /\ WritesLocked(d)
      /\ \A f \in Events : IsStored(f) => IsStored(f)'
  BY <1>2, <1>3 DEF WritesLocked, IsStored
<1>7. \A f \in Events : event'[f] # event[f] => event'[f].attempts < MaxAttempts
  BY <1>3, AttemptsPositive
<1> QED
  BY <1>1, <1>2, <1>3, <1>4, <1>5, <1>6, <1>7, ProcessStep

-----------------------------------------------------------------------------
(* The workers *)

\* What the invariant says of one worker.
LEMMA WhatIsHeld ==
    ASSUME IInv, NEW w \in Workers
    PROVE  /\ w \in Processes /\ w \notin Requests /\ WorkerOK(w)
           /\ holds[w] \in SUBSET Resources
           /\ at[w] \in Outside => holds[w] = {}
           /\ at[w] \notin {"batch", "read", "queue_item", "queue_job"} => batch[w] = {}
           /\ at[w] \in ItemPoints => item[w] \in Items
           /\ event \in [Events -> [status : {"none", "due", "exhausted", "processed"},
                                    attempts : 0 .. MaxAttempts]]
           /\ job \in [Items -> [status : {"none", "waiting", "running"},
                                 owner : Workers \union {Nobody}]]
           /\ item \in [Workers -> Items \union {Nobody}]
           /\ todo \in [Workers -> (SUBSET Events) \union (SUBSET Items)]
           /\ batch \in [Workers -> SUBSET Events]
<1>1. w \in Processes /\ w \notin Requests /\ WorkerOK(w)
  BY RequestsAreNoWorkers DEF IInv, Processes
<1>2. /\ holds[w] \in SUBSET Resources
      /\ at[w] \in Outside => holds[w] = {}
      /\ batch[w] \in SUBSET Events
  BY <1>1 DEF IInv, TypeOK
<1>3. at[w] \notin {"batch", "read", "queue_item", "queue_job"} => batch[w] = {}
  BY <1>1 DEF WorkerOK, BatchIsLocked
<1> QED
  BY <1>1, <1>2, <1>3 DEF WorkerOK, WorksOnItem, IInv, TypeOK

\* A step of a worker that writes no event.
LEMMA WorkerMoves ==
    ASSUME IInv, NEW w \in Workers,
           \E point : GoTo(w, point),
           \/ UNCHANGED item
           \/ \E i \in Items \union {Nobody} : item' = [item EXCEPT ![w] = i],
           \/ UNCHANGED todo
           \/ \E t \in (SUBSET Events) \union (SUBSET Items) : todo' = [todo EXCEPT ![w] = t],
           \/ UNCHANGED batch
           \/ \E b \in SUBSET Events : batch' = [batch EXCEPT ![w] = b],
           UNCHANGED event,
           job' \in [Items -> [status : {"none", "waiting", "running"},
                               owner : Workers \union {Nobody}]],
           Locking(w), WorkerOK(w)',
           at'[w] \in Outside => holds'[w] = {}
    PROVE  IInv'
<1>1. /\ w \in Processes /\ w \notin Requests
      /\ event \in [Events -> [status : {"none", "due", "exhausted", "processed"},
                               attempts : 0 .. MaxAttempts]]
      /\ item \in [Workers -> Items \union {Nobody}]
      /\ todo \in [Workers -> (SUBSET Events) \union (SUBSET Items)]
      /\ batch \in [Workers -> SUBSET Events]
  BY WhatIsHeld
<1>2. /\ item' \in [Workers -> Items \union {Nobody}]
      /\ \A v \in Workers \ {w} : item'[v] = item[v]
  BY <1>1
<1>3. /\ todo' \in [Workers -> (SUBSET Events) \union (SUBSET Items)]
      /\ \A v \in Workers \ {w} : todo'[v] = todo[v]
  BY <1>1
<1>4. /\ batch' \in [Workers -> SUBSET Events]
      /\ \A v \in Workers \ {w} : batch'[v] = batch[v]
  BY <1>1
<1>5. WritesLocked(w) /\ \A e \in Events : IsStored(e) => IsStored(e)'
  BY DEF WritesLocked, IsStored
<1>6. at'[w] # "accepted" /\ \E point : at' = [at EXCEPT ![w] = point]
  BY DEF GoTo, WorkerOK, IntakePoints, JobPoints
<1> QED
  BY <1>1, <1>2, <1>3, <1>4, <1>5, <1>6, ProcessStep

\* What becomes of the events of an intake.
Outcomes == {Processed, Deferred} \union {Charged(failure) : failure \in Failures}

\* The end of an intake writes its batch, which it has locked and which is due.
LEMMA EndIntakeStep ==
    ASSUME IInv, NEW w \in Workers, NEW outcome \in Outcomes, EndIntake(w, outcome),
           UNCHANGED todo,
           job' \in [Items -> [status : {"none", "waiting", "running"},
                               owner : Workers \union {Nobody}]]
    PROVE  /\ IInv'
           /\ \A e \in Events : event'[e] # event[e] =>
                 /\ Due(e) /\ event'[e].status # "none"
                 /\ event'[e].attempts \in {event[e].attempts, event[e].attempts + 1}
<1>1. /\ w \in Processes /\ w \notin Requests /\ WorkerOK(w)
      /\ event \in [Events -> [status : {"none", "due", "exhausted", "processed"},
                               attempts : 0 .. MaxAttempts]]
      /\ item \in [Workers -> Items \union {Nobody}]
      /\ todo \in [Workers -> (SUBSET Events) \union (SUBSET Items)]
      /\ batch \in [Workers -> SUBSET Events] /\ batch[w] \subseteq Events
      /\ at \in [Processes -> RequestPoints \union IntakePoints \union JobPoints]
      /\ holds \in [Processes -> SUBSET Resources]
  BY WhatIsHeld DEF IInv, TypeOK
<1>2. \A e \in batch[w] : EventRow(e) \in holds[w] /\ Due(e)
  BY <1>1 DEF WorkerOK, BatchIsLocked
<1>3. ASSUME NEW e \in Events, Due(e)
      PROVE  /\ outcome[e] \in [status : {"due", "exhausted", "processed"},
                                attempts : 0 .. MaxAttempts]
             /\ outcome[e].status = "due" => outcome[e].attempts < MaxAttempts
             /\ outcome[e].attempts \in {event[e].attempts, event[e].attempts + 1}
  <2>1. event[e].attempts \in 0 .. MaxAttempts /\ event[e].attempts < MaxAttempts
    BY <1>1, <1>3 DEF IInv, DueHasAttemptsLeft
  <2>2. CASE outcome = Processed \/ outcome = Deferred
    BY <1>3, <2>1, <2>2 DEF Processed, Deferred
  <2>3. ASSUME NEW failure \in Failures, outcome = Charged(failure)
        PROVE  /\ outcome[e] \in [status : {"due", "exhausted", "processed"},
                                   attempts : 0 .. MaxAttempts]
               /\ outcome[e].status = "due" => outcome[e].attempts < MaxAttempts
               /\ outcome[e].attempts \in {event[e].attempts, event[e].attempts + 1}
    <3>1. /\ outcome[e].attempts = event[e].attempts + 1
          /\ outcome[e].status \in {"due", "exhausted"}
          /\ outcome[e].status = "due" => event[e].attempts + 1 < MaxAttempts
          /\ outcome[e] = [status |-> outcome[e].status, attempts |-> event[e].attempts + 1]
      BY <2>3 DEF Charged
    <3>2. event[e].attempts + 1 \in 0 .. MaxAttempts
      BY <2>1, AttemptsPositive
    <3> QED
      BY <3>1, <3>2
  <2> QED
    BY <2>2, <2>3 DEF Outcomes
<1>4. /\ event' = [e \in Events |-> IF e \in batch[w] THEN outcome[e] ELSE event[e]]
      /\ batch' = [batch EXCEPT ![w] = {}] /\ item' = [item EXCEPT ![w] = Nobody]
      /\ holds' = [holds EXCEPT ![w] = {}] /\ at' = [at EXCEPT ![w] = "recover"]
  BY DEF EndIntake, Release, GoTo
<1>5. /\ at'[w] = "recover" /\ holds'[w] = {} /\ batch'[w] = {}
      /\ batch' \in [Workers -> SUBSET Events] /\ item' \in [Workers -> Items \union {Nobody}]
      /\ \A v \in Workers \ {w} : batch'[v] = batch[v] /\ item'[v] = item[v]
      /\ Locking(w)
  BY <1>1, <1>4 DEF Locking, Release
<1>6. \A e \in Events : \/ event'[e] = event[e]
                        \/ e \in batch[w] /\ Due(e) /\ event'[e] = outcome[e]
  BY <1>2, <1>4
<1>7. event' \in [Events -> [status : {"none", "due", "exhausted", "processed"},
                             attempts : 0 .. MaxAttempts]]
  <2>1. \A e \in Events :
           event'[e] \in [status : {"none", "due", "exhausted", "processed"},
                          attempts : 0 .. MaxAttempts]
    BY <1>1, <1>3, <1>6
  <2> QED
    BY <1>4, <2>1
<1>8. /\ WritesLocked(w)
      /\ \A e \in Events : IsStored(e) => IsStored(e)'
      /\ \A e \in Events : event'[e] # event[e] /\ Due(e)' => event'[e].attempts < MaxAttempts
      /\ \A e \in Events : event'[e] # event[e] =>
            /\ Due(e) /\ event'[e].status # "none"
            /\ event'[e].attempts \in {event[e].attempts, event[e].attempts + 1}
  BY <1>2, <1>3, <1>6 DEF WritesLocked, IsStored, Due
<1>9. WorkerOK(w)'
  BY <1>5 DEF WorkerOK, WorksOnItem, ItemPoints, IntakeLocks, BatchIsLocked, RecoveryLocks, JobLocks,
              IntakePoints, JobPoints
<1> QED
  BY <1>1, <1>4, <1>5, <1>7, <1>8, <1>9, ProcessStep

\* Where a worker goes, and what Lock, Release and GoTo leave it with.
LEMMA Going ==
    ASSUME IInv, NEW w \in Workers
    PROVE  /\ \A point : GoTo(w, point) => at'[w] = point
           /\ \A locks : Lock(w, locks) => holds'[w] = holds[w] \union locks
           /\ Release(w) => holds'[w] = {} /\ Locking(w)
           /\ \A locks \in SUBSET Resources : Lock(w, locks) => Locking(w)
<1>1. /\ w \in Processes /\ holds \in [Processes -> SUBSET Resources]
      /\ at \in [Processes -> RequestPoints \union IntakePoints \union JobPoints]
  BY DEF IInv, TypeOK, Processes
<1> QED
  BY <1>1 DEF GoTo, Lock, Release, Locking

LEMMA SelectStep == ASSUME IInv, NEW w \in Workers, SelectCandidate(w) PROVE IInv'
<1> DEFINE candidates == {e \in Events : Due(e) /\ Free(EventRow(e))}
           e == First(candidates)
<1>1. /\ at[w] = "poll" /\ holds[w] = {} /\ batch[w] = {} /\ WorkerOK(w)
      /\ UNCHANGED <<event, job, todo, batch>>
  BY WhatIsHeld DEF SelectCandidate, Outside
<1>2. CASE candidates = {}
  <2>1. GoTo(w, "recover") /\ UNCHANGED <<holds, item>>
    BY <1>2 DEF SelectCandidate
  <2>2. WorkerOK(w)' /\ Locking(w) /\ holds'[w] = {}
    BY <1>1, <2>1, Going DEF WorkerOK, WorksOnItem, ItemPoints, IntakeLocks, BatchIsLocked,
       RecoveryLocks, JobLocks, IntakePoints, JobPoints, Locking
  <2> QED
    BY <1>1, <2>1, <2>2, WhatIsHeld, WorkerMoves
<1>3. CASE candidates # {}
  <2>1. e \in candidates
    BY <1>3, FirstIsOne, EventsAreNumbered
  <2>2. /\ Lock(w, {EventRow(e)}) /\ item' = [item EXCEPT ![w] = ItemOf[e]]
        /\ GoTo(w, "advisory")
    BY <1>3 DEF SelectCandidate
  <2> HIDE DEF e
  <2>3. /\ e \in Events /\ Due(e) /\ ItemOf[e] \in Items /\ EventRow(e) \in Resources
    BY <2>1 DEF Items, Resources
  <2>4. /\ at'[w] = "advisory" /\ item'[w] = ItemOf[e] /\ holds'[w] = {EventRow(e)}
        /\ Locking(w)
    BY <1>1, <2>2, <2>3, Going, WhatIsHeld
  <2>5. IntakeLocks(w)'
    BY <1>1, <2>3, <2>4 DEF IntakeLocks, EventRowsOf, Due
  <2>6. WorkerOK(w)' /\ at'[w] \notin Outside
    BY <1>1, <2>3, <2>4, <2>5 DEF WorkerOK, WorksOnItem, ItemPoints, BatchIsLocked,
       RecoveryLocks, JobLocks, IntakePoints, JobPoints, Outside, Answers
  <2> QED
    BY <1>1, <2>2, <2>3, <2>4, <2>6, WhatIsHeld, WorkerMoves
<1> QED
  BY <1>2, <1>3

LEMMA AdvisoryStep == ASSUME IInv, NEW w \in Workers, TryAdvisoryLock(w) PROVE IInv'
<1> DEFINE i == item[w]
           due == {e \in Events : Due(e) /\ ItemOf[e] = i}
<1>1. /\ at[w] = "advisory" /\ i \in Items /\ WorkerOK(w) /\ UNCHANGED <<event, job, batch>>
      /\ Advisory(i) \in Resources /\ holds[w] \subseteq EventRowsOf(i) /\ due # {}
  BY WhatIsHeld DEF TryAdvisoryLock, ItemPoints, Resources, WorkerOK, IntakeLocks
<1>2. CASE Free(Advisory(i))
  <2>1. /\ Lock(w, {Advisory(i)}) /\ GoTo(w, "batch") /\ UNCHANGED item
        /\ todo' = [todo EXCEPT ![w] = due]
    BY <1>2 DEF TryAdvisoryLock, BeginBatch
  <2>2. /\ at'[w] = "batch" /\ item'[w] = i /\ todo'[w] = due /\ batch'[w] = batch[w]
        /\ holds'[w] = holds[w] \union {Advisory(i)} /\ Locking(w)
    BY <1>1, <2>1, Going, WhatIsHeld
  <2>3. IntakeLocks(w)'
    BY <1>1, <2>2 DEF IntakeLocks, EventRowsOf
  <2>4. BatchIsLocked(w)'
    BY <1>1, <2>2 DEF WorkerOK, BatchIsLocked, Due
  <2>5. WorkerOK(w)' /\ at'[w] \notin Outside
    BY <1>1, <2>2, <2>3, <2>4 DEF WorkerOK, WorksOnItem, ItemPoints, RecoveryLocks, JobLocks,
       IntakePoints, JobPoints, Outside, Answers
  <2> QED
    BY <1>1, <2>1, <2>2, <2>5, WhatIsHeld, WorkerMoves
<1>3. CASE ~Free(Advisory(i))
  <2>1. /\ Release(w) /\ GoTo(w, "recover") /\ UNCHANGED todo
        /\ item' = [item EXCEPT ![w] = Nobody]
    BY <1>3 DEF TryAdvisoryLock
  <2>2. /\ at'[w] = "recover" /\ holds'[w] = {} /\ batch'[w] = {} /\ Locking(w)
    BY <1>1, <2>1, Going, WhatIsHeld
  <2>3. WorkerOK(w)'
    BY <2>2 DEF WorkerOK, WorksOnItem, ItemPoints, IntakeLocks, BatchIsLocked, RecoveryLocks,
                JobLocks, IntakePoints, JobPoints
  <2> QED
    BY <1>1, <2>1, <2>2, <2>3, WhatIsHeld, WorkerMoves
<1> QED
  BY <1>2, <1>3

LEMMA LockEventStep == ASSUME IInv, NEW w \in Workers, LockEvent(w) PROVE IInv'
<1> DEFINE e == First(todo[w])
           b == IF Due(e) THEN batch[w] \union {e} ELSE batch[w]
           point == IF todo[w] = {e} THEN "read" ELSE "batch"
<1>1. /\ at[w] = "batch" /\ item[w] \in Items /\ WorkerOK(w) /\ UNCHANGED <<event, job, item>>
      /\ todo[w] # {} /\ todo[w] \subseteq Events /\ \A f \in todo[w] : ItemOf[f] = item[w]
      /\ Advisory(item[w]) \in holds[w]
      /\ holds[w] \subseteq EventRowsOf(item[w]) \union {Advisory(item[w])}
      /\ at \in [Processes -> RequestPoints \union IntakePoints \union JobPoints]
  BY WhatIsHeld DEF LockEvent, ItemPoints, WorkerOK, IntakeLocks, IInv, TypeOK
<1>2. e \in todo[w] /\ e \in Events /\ ItemOf[e] = item[w]
  BY <1>1, FirstIsOne, EventsAreNumbered
<1>3. /\ Lock(w, {EventRow(e)}) /\ GoTo(w, point)
      /\ todo' = [todo EXCEPT ![w] = todo[w] \ {e}] /\ batch' = [batch EXCEPT ![w] = b]
  <2>1. CASE todo[w] = {e}
    BY <2>1 DEF LockEvent
  <2>2. CASE todo[w] # {e}
    <3>1. at' = [at EXCEPT ![w] = "batch"]
      BY <1>1, <2>2 DEF LockEvent
    <3> QED
      BY <2>2, <3>1 DEF LockEvent, GoTo
  <2> QED
    BY <2>1, <2>2
<1> HIDE DEF e, point
<1>4. EventRow(e) \in Resources /\ EventRow(e) \in EventRowsOf(item[w])
      /\ todo[w] \ {e} \in SUBSET Events /\ b \in SUBSET Events
  BY <1>1, <1>2, WhatIsHeld DEF Resources, EventRowsOf
<1>5. /\ at'[w] = point /\ todo'[w] = todo[w] \ {e} /\ batch'[w] = b
      /\ holds'[w] = holds[w] \union {EventRow(e)} /\ Locking(w)
  <2>1. at'[w] = point
    BY <1>3, Going
  <2>2. holds'[w] = holds[w] \union {EventRow(e)} /\ Locking(w)
    <3>1. {EventRow(e)} \in SUBSET Resources
      BY <1>4
    <3> QED
      BY <1>3, <3>1, Going
  <2>3. todo'[w] = todo[w] \ {e} /\ batch'[w] = b
    BY <1>3, WhatIsHeld
  <2> QED
    BY <2>1, <2>2, <2>3
<1>6. point \in {"batch", "read"} /\ (point = "batch" => todo[w] # {e})
  BY DEF point
<1>7. IntakeLocks(w)'
  BY <1>1, <1>2, <1>4, <1>5, <1>6 DEF IntakeLocks
<1>8. BatchIsLocked(w)'
  BY <1>1, <1>5, <1>6 DEF WorkerOK, BatchIsLocked, Due
<1>9. WorkerOK(w)' /\ at'[w] \notin Outside
  BY <1>1, <1>5, <1>6, <1>7, <1>8 DEF WorkerOK, WorksOnItem, ItemPoints, RecoveryLocks, JobLocks,
     IntakePoints, JobPoints, Outside, Answers
<1> HIDE DEF b
<1> QED
  BY <1>1, <1>3, <1>4, <1>5, <1>9, WhatIsHeld, WorkerMoves

\* The read of Monday, in every outcome of the savepoint.
LEMMA ReadStep ==
    ASSUME IInv, NEW w \in Workers, ReadAnswered(w) \/ ReadDeferred(w)
    PROVE  IInv'
<1>1. /\ at[w] = "read" /\ item[w] \in Items /\ WorkerOK(w) /\ UNCHANGED <<job, todo>>
  BY WhatIsHeld DEF ReadAnswered, ReadDeferred, ItemPoints
<1>2. CASE GoTo(w, "queue_item") /\ UNCHANGED <<event, batch, item, holds>>
  <2>1. at'[w] = "queue_item" /\ Locking(w)
    BY <1>2, Going DEF Locking
  <2>2. WorkerOK(w)' /\ at'[w] \notin Outside
    BY <1>1, <1>2, <2>1 DEF WorkerOK, WorksOnItem, ItemPoints, IntakeLocks, BatchIsLocked,
       RecoveryLocks, JobLocks, IntakePoints, JobPoints, Due, Outside, Answers
  <2> QED
    BY <1>1, <1>2, <2>1, <2>2, WhatIsHeld, WorkerMoves
<1>3. CASE \E outcome \in Outcomes : EndIntake(w, outcome)
  BY <1>1, <1>3, WhatIsHeld, EndIntakeStep
<1> QED
  BY <1>2, <1>3 DEF ReadAnswered, ReadDeferred, Outcomes

LEMMA QueueItemStep == ASSUME IInv, NEW w \in Workers, QueueItem(w) PROVE IInv'
<1>1. /\ at[w] = "queue_item" /\ item[w] \in Items /\ WorkerOK(w)
      /\ UNCHANGED <<event, job, item, todo, batch>>
      /\ Lock(w, {ItemRow(item[w])}) /\ GoTo(w, "queue_job")
  BY WhatIsHeld DEF QueueItem, ItemPoints
<1>2. ItemRow(item[w]) \in Resources
  BY <1>1 DEF Resources
<1>3. /\ at'[w] = "queue_job" /\ holds'[w] = holds[w] \union {ItemRow(item[w])} /\ Locking(w)
  BY <1>1, <1>2, Going
<1>4. WorkerOK(w)' /\ at'[w] \notin Outside
  BY <1>1, <1>3 DEF WorkerOK, WorksOnItem, ItemPoints, IntakeLocks, BatchIsLocked,
     RecoveryLocks, JobLocks, IntakePoints, JobPoints, Due, Outside, Answers
<1> QED
  BY <1>1, <1>3, <1>4, WhatIsHeld, WorkerMoves

LEMMA QueueJobStep ==
    ASSUME IInv, NEW w \in Workers, QueueJob(w) \/ DeadlockOfIntake(w)
    PROVE  IInv'
<1>1. item[w] \in Items
  BY WhatIsHeld DEF QueueJob, DeadlockOfIntake, ItemPoints
<1>2. job' \in [Items -> [status : {"none", "waiting", "running"},
                         owner : Workers \union {Nobody}]]
  BY <1>1, WhatIsHeld DEF QueueJob, DeadlockOfIntake, WaitingJob
<1> QED
  BY <1>2, EndIntakeStep DEF QueueJob, DeadlockOfIntake, Outcomes, Failures

\* A recovery that has locked the stale jobs goes on with one of them, or claims.
LEMMA RecoverNextStep ==
    ASSUME IInv, NEW w \in Workers, NEW stale \in SUBSET Items, RecoverNext(w, stale),
           Locking(w), batch[w] = {}, UNCHANGED <<event, batch>>,
           job' \in [Items -> [status : {"none", "waiting", "running"},
                               owner : Workers \union {Nobody}]],
           holds'[w] \subseteq JobAndItemRows,
           \A i \in Items : ItemRow(i) \in holds'[w] => JobRow(i) \in holds'[w],
           \A i \in stale : JobRow(i) \in holds'[w]
    PROVE  IInv'
<1>1. PICK i \in Items \union {Nobody}, point \in {"claim", "recover_item"} :
         /\ todo' = [todo EXCEPT ![w] = stale] /\ GoTo(w, point)
         /\ item' = [item EXCEPT ![w] = i]
         /\ point = "recover_item" => i \in stale
  BY DEF RecoverNext
<1>2. /\ at'[w] = point /\ item'[w] = i /\ todo'[w] = stale /\ batch'[w] = {}
  BY <1>1, Going, WhatIsHeld
<1>3. RecoveryLocks(w)'
  BY <1>1, <1>2 DEF RecoveryLocks
<1>4. WorkerOK(w)' /\ at'[w] \notin Outside
  BY <1>1, <1>2, <1>3 DEF WorkerOK, WorksOnItem, ItemPoints, IntakeLocks, BatchIsLocked,
     JobLocks, IntakePoints, JobPoints, Outside, Answers
<1>5. \E t \in (SUBSET Events) \union (SUBSET Items) : todo' = [todo EXCEPT ![w] = t]
  <2>1. stale \in (SUBSET Events) \union (SUBSET Items)
    OBVIOUS
  <2> QED
    BY <1>1, <2>1, Zenon
<1>6. \E k \in Items \union {Nobody} : item' = [item EXCEPT ![w] = k]
  BY <1>1
<1> QED
  BY <1>1, <1>4, <1>5, <1>6, WorkerMoves

LEMMA LockStaleStep == ASSUME IInv, NEW w \in Workers, LockStaleJobs(w) PROVE IInv'
<1>1. /\ at[w] = "recover" /\ holds[w] = {} /\ batch[w] = {} /\ UNCHANGED <<event, job, batch>>
  BY WhatIsHeld DEF LockStaleJobs, Outside
<1>2. PICK stale \in SUBSET Items :
         Lock(w, {JobRow(i) : i \in stale}) /\ RecoverNext(w, stale)
  BY DEF LockStaleJobs
<1>3. {JobRow(i) : i \in stale} \in SUBSET Resources
  BY DEF Resources
<1>4. holds'[w] = {JobRow(i) : i \in stale} /\ Locking(w)
  BY <1>1, <1>2, <1>3, Going
<1>5. /\ holds'[w] \subseteq JobAndItemRows
      /\ \A i \in Items : ItemRow(i) \in holds'[w] => JobRow(i) \in holds'[w]
      /\ \A i \in stale : JobRow(i) \in holds'[w]
  BY <1>4 DEF JobAndItemRows, JobRow, ItemRow
<1> QED
  BY <1>1, <1>2, <1>4, <1>5, WhatIsHeld, RecoverNextStep

LEMMA RecoverItemStep == ASSUME IInv, NEW w \in Workers, RecoverItem(w) PROVE IInv'
<1>1. /\ at[w] = "recover_item" /\ item[w] \in Items /\ batch[w] = {} /\ WorkerOK(w)
      /\ UNCHANGED <<event, batch>>
  BY WhatIsHeld DEF RecoverItem, ItemPoints
<1>2. /\ holds[w] \subseteq JobAndItemRows
      /\ \A i \in Items : ItemRow(i) \in holds[w] => JobRow(i) \in holds[w]
      /\ todo[w] \subseteq Items /\ item[w] \in todo[w]
      /\ \A i \in todo[w] : JobRow(i) \in holds[w]
  BY <1>1 DEF WorkerOK, RecoveryLocks
<1>3. Lock(w, {ItemRow(item[w])}) /\ RecoverNext(w, todo[w] \ {item[w]})
  BY DEF RecoverItem
<1>4. {ItemRow(item[w])} \in SUBSET Resources /\ ItemRow(item[w]) \in JobAndItemRows
  BY <1>1 DEF Resources, JobAndItemRows
<1>5. holds'[w] = holds[w] \union {ItemRow(item[w])} /\ Locking(w)
  BY <1>3, <1>4, Going
<1>6. job' \in [Items -> [status : {"none", "waiting", "running"},
                         owner : Workers \union {Nobody}]]
  BY <1>1, WhatIsHeld DEF RecoverItem, WaitingJob, NoJob
<1>7. /\ holds'[w] \subseteq JobAndItemRows
      /\ \A i \in Items : ItemRow(i) \in holds'[w] => JobRow(i) \in holds'[w]
      /\ \A i \in todo[w] \ {item[w]} : JobRow(i) \in holds'[w]
  BY <1>1, <1>2, <1>4, <1>5 DEF ItemRow
<1>8. todo[w] \ {item[w]} \in SUBSET Items
  BY <1>2
<1> QED
  BY <1>1, <1>3, <1>5, <1>6, <1>7, <1>8, RecoverNextStep

\* A transaction of a worker ends: it holds nothing any more.
LEMMA EndsTransaction ==
    ASSUME IInv, NEW w \in Workers,
           NEW point \in {"poll", "checkpoint_job", "failure_job", "ended"}, GoTo(w, point),
           Locking(w), holds'[w] = {},
           at[w] \in JobPoints \/ batch'[w] = {},
           \/ UNCHANGED item
           \/ \E i \in Items \union {Nobody} : item' = [item EXCEPT ![w] = i],
           point \in {"checkpoint_job", "failure_job"} => item'[w] \in Items,
           \/ UNCHANGED todo
           \/ todo' = [todo EXCEPT ![w] = {}],
           \/ UNCHANGED batch
           \/ batch' = [batch EXCEPT ![w] = {}],
           UNCHANGED event,
           job' \in [Items -> [status : {"none", "waiting", "running"},
                               owner : Workers \union {Nobody}]]
    PROVE  IInv'
<1>1. at'[w] = point
  BY Going
<1>2. batch'[w] = {}
  BY WhatIsHeld DEF JobPoints
<1>3. WorkerOK(w)'
  BY <1>1, <1>2 DEF WorkerOK, WorksOnItem, ItemPoints, IntakeLocks, BatchIsLocked, RecoveryLocks,
              JobLocks, IntakePoints, JobPoints
<1>4. {} \in SUBSET Events
  OBVIOUS
<1> QED
  BY <1>3, <1>4, WorkerMoves

LEMMA ClaimStep == ASSUME IInv, NEW w \in Workers, ClaimAndCommit(w) PROVE IInv'
<1>1. /\ at[w] = "claim" /\ Release(w) /\ UNCHANGED <<event, todo, batch>>
      /\ holds'[w] = {} /\ Locking(w) /\ at[w] \in JobPoints
  BY Going DEF ClaimAndCommit, JobPoints
<1>2. ASSUME NEW i \in Items,
             job' = [job EXCEPT ![i] = [status |-> "running", owner |-> w]],
             item' = [item EXCEPT ![w] = i], NextStage(w)
      PROVE  IInv'
  <2>1. item'[w] = i /\ job' \in [Items -> [status : {"none", "waiting", "running"},
                                            owner : Workers \union {Nobody}]]
    BY <1>2, WhatIsHeld
  <2> QED
    BY <1>1, <1>2, <2>1, EndsTransaction DEF NextStage
<1>3. CASE item' = [item EXCEPT ![w] = Nobody] /\ GoTo(w, "poll") /\ UNCHANGED job
  BY <1>1, <1>3, WhatIsHeld, EndsTransaction
<1> QED
  BY <1>2, <1>3 DEF ClaimAndCommit

LEMMA LockOwnedStep ==
    ASSUME IInv, NEW w \in Workers,
           \/ LockOwnedJob(w, "checkpoint_job", "checkpoint_item")
           \/ LockOwnedJob(w, "failure_job", "failure_item")
    PROVE  IInv'
<1>1. PICK from \in {"checkpoint_job", "failure_job"}, to \in {"checkpoint_item", "failure_item"} :
         LockOwnedJob(w, from, to)
  OBVIOUS
<1>2. /\ at[w] = from /\ item[w] \in Items /\ holds[w] = {} /\ batch[w] = {}
      /\ UNCHANGED <<event, job, todo, batch>> /\ at[w] \in JobPoints
  BY <1>1, WhatIsHeld DEF LockOwnedJob, ItemPoints, Outside, JobPoints
<1>3. CASE Lock(w, {JobRow(item[w])}) /\ GoTo(w, to) /\ UNCHANGED item
  <2>1. {JobRow(item[w])} \in SUBSET Resources
    BY <1>2 DEF Resources
  <2>2. at'[w] = to /\ holds'[w] = {JobRow(item[w])} /\ Locking(w)
    BY <1>2, <1>3, <2>1, Going
  <2>3. WorkerOK(w)' /\ at'[w] \notin Outside
    BY <1>2, <1>3, <2>2 DEF WorkerOK, WorksOnItem, ItemPoints, IntakeLocks, BatchIsLocked,
       RecoveryLocks, JobLocks, IntakePoints, JobPoints, Outside, Answers
  <2> QED
    BY <1>2, <1>3, <2>2, <2>3, WhatIsHeld, WorkerMoves
<1>4. CASE GoTo(w, "poll") /\ item' = [item EXCEPT ![w] = Nobody] /\ UNCHANGED holds
  <2>1. Locking(w) /\ holds'[w] = {}
    BY <1>2, <1>4 DEF Locking
  <2> QED
    BY <1>2, <1>4, <2>1, WhatIsHeld, EndsTransaction
<1> QED
  BY <1>1, <1>3, <1>4 DEF LockOwnedJob

LEMMA EndJobStep ==
    ASSUME IInv, NEW w \in Workers,
           \/ EndJob(w, "checkpoint_item", {NoJob, WaitingJob})
           \/ EndJob(w, "failure_item", {NoJob, WaitingJob})
    PROVE  IInv'
<1>1. /\ at[w] \in JobPoints /\ at[w] \in ItemPoints /\ Release(w) /\ GoTo(w, "poll")
      /\ item' = [item EXCEPT ![w] = Nobody] /\ UNCHANGED <<event, todo, batch>>
      /\ \E row \in {NoJob, WaitingJob} : job' = [job EXCEPT ![item[w]] = row]
  BY DEF EndJob, JobPoints, ItemPoints
<1>2. job' \in [Items -> [status : {"none", "waiting", "running"},
                         owner : Workers \union {Nobody}]]
  BY <1>1, WhatIsHeld DEF WaitingJob, NoJob
<1> QED
  BY <1>1, <1>2, Going, EndsTransaction

LEMMA CheckpointStep ==
    ASSUME IInv, NEW w \in Workers, Checkpoint(w) \/ DeadlockOfCheckpoint(w)
    PROVE  IInv'
<1>1. PICK point \in {"checkpoint_job", "failure_job"} :
         /\ at[w] \in JobPoints /\ item[w] \in Items /\ Release(w) /\ GoTo(w, point)
         /\ UNCHANGED <<event, job, item, todo, batch>>
  BY WhatIsHeld DEF Checkpoint, DeadlockOfCheckpoint, NextStage, JobPoints, ItemPoints
<1> QED
  BY <1>1, WhatIsHeld, Going, EndsTransaction

LEMMA DiesStep ==
    ASSUME IInv, NEW w \in Workers, DeadlockOfWorker(w) \/ Restart(w)
    PROVE  IInv'
<1>1. CASE DeadlockOfWorker(w)
  <2>1. /\ Release(w) /\ UNCHANGED event /\ item' = [item EXCEPT ![w] = Nobody]
        /\ todo' = [todo EXCEPT ![w] = {}] /\ batch' = [batch EXCEPT ![w] = {}]
        /\ GoTo(w, "ended") /\ batch'[w] = {}
    BY <1>1, WhatIsHeld DEF DeadlockOfWorker
  <2>2. job' \in [Items -> [status : {"none", "waiting", "running"},
                           owner : Workers \union {Nobody}]]
    BY <1>1, WhatIsHeld DEF DeadlockOfWorker
  <2> QED
    BY <2>1, <2>2, Going, EndsTransaction
<1>2. CASE Restart(w)
  <2>1. /\ at[w] \in JobPoints /\ holds[w] = {} /\ GoTo(w, "poll")
        /\ UNCHANGED <<event, job, holds, item, todo, batch>>
    BY <1>2, WhatIsHeld DEF Restart, JobPoints, Outside
  <2> QED
    BY <2>1, WhatIsHeld, EndsTransaction DEF Locking
<1> QED
  BY <1>1, <1>2

-----------------------------------------------------------------------------
(* All steps *)

LEMMA InitIInv == Init => IInv
<1> SUFFICES ASSUME Init PROVE IInv
  OBVIOUS
<1>1. /\ \A d \in Requests : at[d] = "sent"
      /\ \A w \in Workers : at[w] = "poll"
  BY RequestsAreNoWorkers DEF Init, Processes
<1>2. \A p \in Processes : holds[p] = {}
  BY DEF Init
<1>3. event \in [Events -> [status : {"none", "due", "exhausted", "processed"},
                           attempts : 0 .. MaxAttempts]]
  <2> SUFFICES ASSUME NEW e \in Events
               PROVE  event[e] \in [status : {"none", "due"}, attempts : 0 .. MaxAttempts]
    BY DEF Init
  <2>1. CASE e \in Stored
    <3>1. Tried[e] \in 0 .. MaxAttempts
      BY <2>1, StoredAreDue, AttemptsPositive
    <3> QED
      BY <2>1, <3>1 DEF Init
  <2>2. CASE e \notin Stored
    BY <2>2, AttemptsPositive DEF Init
  <2> QED
    BY <2>1, <2>2
<1>4. TypeOK
  <2>1. at \in [Processes -> RequestPoints \union IntakePoints \union JobPoints]
    BY DEF Init, RequestPoints, IntakePoints
  <2>2. /\ job \in [Items -> [status : {"none", "waiting", "running"}, owner : Workers \union {Nobody}]]
        /\ item \in [Workers -> Items \union {Nobody}]
        /\ todo \in [Workers -> (SUBSET Events) \union (SUBSET Items)]
        /\ batch \in [Workers -> SUBSET Events]
        /\ holds \in [Processes -> SUBSET Resources]
    BY DEF Init, NoJob
  <2> QED
    BY <1>2, <1>3, <2>1, <2>2 DEF TypeOK
<1>5. ASSUME NEW w \in Workers PROVE WorkerOK(w)
  BY <1>1 DEF Init, WorkerOK, WorksOnItem, ItemPoints, IntakeLocks, BatchIsLocked, RecoveryLocks,
              JobLocks, IntakePoints, JobPoints
<1>6. ASSUME NEW d \in Requests PROVE RequestOK(d)
  BY <1>1 DEF RequestOK, KeyIsHeld, RequestPoints, Answers
<1>7. DueHasAttemptsLeft
  <2> SUFFICES ASSUME NEW e \in Events, Due(e) PROVE event[e].attempts < MaxAttempts
    BY DEF DueHasAttemptsLeft
  <2>1. e \in Stored
    BY DEF Due, Init
  <2>2. event[e].attempts = Tried[e] /\ Tried[e] \in 0 .. MaxAttempts - 1
    BY <2>1, StoredAreDue DEF Init
  <2> QED
    BY <2>2, AttemptsPositive
<1>8. AnswersAreTrue
  BY <1>1 DEF AnswersAreTrue, Answers
<1> QED
  BY <1>4, <1>5, <1>6, <1>7, <1>8 DEF IInv

LEMMA StutterStep == ASSUME IInv, UNCHANGED vars PROVE IInv'
  BY DEF vars, IInv, TypeOK, WorkerOK, WorksOnItem, IntakeLocks, BatchIsLocked, RecoveryLocks,
         JobLocks, RequestOK, KeyIsHeld, DueHasAttemptsLeft, AnswersAreTrue, Due, IsStored

LEMMA NextIInv == IInv /\ [Next]_vars => IInv'
<1> SUFFICES ASSUME IInv, [Next]_vars PROVE IInv'
  OBVIOUS
<1>1. ASSUME NEW d \in Requests, RequestStep(d) \/ Lose(d) PROVE IInv'
  BY <1>1, LookStep, CommitStep DEF RequestStep
<1>2. ASSUME NEW w \in Workers, IntakeStep(w) PROVE IInv'
  BY <1>2, SelectStep, AdvisoryStep, LockEventStep, ReadStep, QueueItemStep, QueueJobStep
     DEF IntakeStep
<1>3. ASSUME NEW w \in Workers, JobStep(w) PROVE IInv'
  BY <1>3, LockStaleStep, RecoverItemStep, ClaimStep, LockOwnedStep, CheckpointStep, EndJobStep
     DEF JobStep
<1>4. ASSUME NEW w \in Workers, Restart(w) \/ Deadlock(w) PROVE IInv'
  BY <1>4, QueueJobStep, CheckpointStep, DiesStep DEF Deadlock
<1> QED
  BY <1>1, <1>2, <1>3, <1>4, StutterStep DEF Next, WorkerStep

LEMMA Inductive == Spec => []IInv
  BY InitIInv, NextIInv, PTL DEF Spec

-----------------------------------------------------------------------------
(* The theorems *)

(* No transaction of the webhook route or of a worker keeps a lock after its end, and
   no two hold the same. *)
THEOREM LockTypes == Spec => []TypeOK
<1>1. IInv => TypeOK
  BY DEF IInv
<1> QED
  BY <1>1, Inductive, PTL

(* Two deliveries of one webhook are never both accepted, and none is answered before
   the event is committed, however _claim_event's lookups, inserts and losses interleave. *)
THEOREM AnswersTrue == Spec => []AnswersAreTrue
<1>1. IInv => AnswersAreTrue
  BY DEF IInv
<1> QED
  BY <1>1, Inductive, PTL

\* A step leaves an event as it is, stores one that was not stored, or is the end of an
\* intake of due events.
LEMMA EventsOfAStep ==
    ASSUME IInv, [Next]_vars
    PROVE  \A e \in Events : event'[e] # event[e] =>
              \/ ~IsStored(e)
              \/ /\ Due(e) /\ event'[e].status # "none"
                 /\ event'[e].attempts \in {event[e].attempts, event[e].attempts + 1}
<1> DEFINE Forward == \A e \in Events : event'[e] # event[e] =>
              \/ ~IsStored(e)
              \/ /\ Due(e) /\ event'[e].status # "none"
                 /\ event'[e].attempts \in {event[e].attempts, event[e].attempts + 1}
<1>1. CASE UNCHANGED event
  BY <1>1
<1>2. ASSUME NEW d \in Requests, Commit(d) PROVE Forward
  <2>1. ~IsStored(EventOf[d]) /\ EventOf[d] \in Events
    BY <1>2, DeliveriesHaveEvents DEF IInv, RequestOK, KeyIsHeld, Commit
  <2>2. \A e \in Events : e # EventOf[d] => event'[e] = event[e]
    BY <1>2 DEF Commit, IInv, TypeOK
  <2> QED
    BY <2>1, <2>2
<1>3. ASSUME NEW w \in Workers, NEW outcome \in Outcomes, EndIntake(w, outcome),
             UNCHANGED todo,
             job' \in [Items -> [status : {"none", "waiting", "running"},
                                 owner : Workers \union {Nobody}]]
      PROVE  Forward
  BY <1>3, EndIntakeStep
<1>4. ASSUME NEW w \in Workers,
             ReadAnswered(w) \/ ReadDeferred(w) \/ QueueJob(w) \/ DeadlockOfIntake(w)
      PROVE  UNCHANGED event \/ Forward
  <2>1. item[w] \in Items \/ ReadAnswered(w) \/ ReadDeferred(w)
    BY <1>4, WhatIsHeld DEF QueueJob, DeadlockOfIntake, ItemPoints
  <2>2. job' \in [Items -> [status : {"none", "waiting", "running"},
                            owner : Workers \union {Nobody}]]
    BY <1>4, <2>1, WhatIsHeld DEF ReadAnswered, ReadDeferred, QueueJob, DeadlockOfIntake,
       WaitingJob
  <2>3. /\ UNCHANGED todo
        /\ \/ UNCHANGED event
           \/ \E outcome \in Outcomes : EndIntake(w, outcome)
    BY <1>4 DEF ReadAnswered, ReadDeferred, QueueJob, DeadlockOfIntake, Outcomes, Failures
  <2> HIDE DEF Forward
  <2> QED
    BY <1>3, <2>2, <2>3
<1> HIDE DEF Forward
<1>5. ASSUME NEW d \in Requests, RequestStep(d) \/ Lose(d) PROVE UNCHANGED event \/ Forward
  BY <1>2, <1>5 DEF RequestStep, Look, Insert, Lose
<1>6. ASSUME NEW w \in Workers, IntakeStep(w) PROVE UNCHANGED event \/ Forward
  BY <1>4, <1>6 DEF IntakeStep, SelectCandidate, TryAdvisoryLock, LockEvent, QueueItem
<1>7. ASSUME NEW w \in Workers, JobStep(w) \/ Restart(w) PROVE UNCHANGED event
  BY <1>7 DEF JobStep, Restart, LockStaleJobs, RecoverItem, ClaimAndCommit, LockOwnedJob,
     Checkpoint, EndJob
<1>8. ASSUME NEW w \in Workers, Deadlock(w) PROVE UNCHANGED event \/ Forward
  BY <1>4, <1>8 DEF Deadlock, DeadlockOfCheckpoint, DeadlockOfWorker
<1>9. Forward
  BY <1>1, <1>5, <1>6, <1>7, <1>8 DEF Next, WorkerStep, vars, Forward
<1> QED
  BY <1>9 DEF Forward

(* Whatever transactions of the route and of the workers interleave, deadlock or die, a
   stored webhook event stays stored, an ended one stays as it is, and an attempt is
   counted once or not at all, never taken back. *)
THEOREM EventsMoveForward == Spec => EventsOnlyMoveForward
<1>1. ASSUME IInv, [Next]_vars, NEW e \in Events, IsStored(e)
      PROVE  /\ IsStored(e)'
             /\ event'[e].attempts \in {event[e].attempts, event[e].attempts + 1}
             /\ ~Due(e) => event'[e] = event[e]
  BY <1>1, EventsOfAStep DEF IsStored
<1>2. IInv /\ [Next]_vars => [\A e \in Events : IsStored(e) =>
          /\ IsStored(e)'
          /\ event'[e].attempts \in {event[e].attempts, event[e].attempts + 1}
          /\ ~Due(e) => event'[e] = event[e]]_vars
  BY <1>1
<1> QED
  BY <1>2, Inductive, PTL DEF Spec, EventsOnlyMoveForward

-----------------------------------------------------------------------------
(* Waiting *)

\* Two locks of different kinds, or of different rows of one kind, are different.
LEMMA LocksDiffer ==
    ASSUME NEW x, NEW y
    PROVE  /\ EventRow(x) # Advisory(y) /\ EventRow(x) # ItemRow(y) /\ EventRow(x) # JobRow(y)
           /\ Advisory(x) # ItemRow(y) /\ Advisory(x) # JobRow(y) /\ ItemRow(x) # JobRow(y)
           /\ EventRow(x) = EventRow(y) => x = y
           /\ ItemRow(x) = ItemRow(y) => x = y
           /\ JobRow(x) = JobRow(y) => x = y
  BY DEF EventRow, Advisory, ItemRow, JobRow

\* Where a process has the job's row and may go on to the item's.
JobHolders == {"recover_item", "claim", "checkpoint_item", "failure_item"}

\* What a worker waits for.
LEMMA WorkerWants ==
    ASSUME IInv, NEW p \in Workers, NEW r \in Wanted(p)
    PROVE  \/ /\ at[p] = "batch"
              /\ \E e \in Events : r = EventRow(e) /\ ItemOf[e] = item[p]
           \/ /\ at[p] \in {"queue_item", "recover_item", "checkpoint_item", "failure_item"}
              /\ r = ItemRow(item[p])
           \/ /\ at[p] \in {"queue_job", "checkpoint_job", "failure_job"}
              /\ r = JobRow(item[p])
<1>1. at[p] \in IntakePoints \union JobPoints
  BY DEF IInv, WorkerOK
<1>2. CASE at[p] = "batch"
  <2>1. Wanted(p) = {EventRow(First(todo[p]))}
    BY <1>2 DEF Wanted
  <2>2. todo[p] # {} /\ todo[p] \subseteq Events /\ \A e \in todo[p] : ItemOf[e] = item[p]
    BY <1>2 DEF IInv, WorkerOK, IntakeLocks
  <2>3. First(todo[p]) \in todo[p]
    BY <2>2, FirstIsOne, EventsAreNumbered
  <2> QED
    BY <1>2, <2>1, <2>2, <2>3
<1>3. CASE at[p] # "batch"
  BY <1>1, <1>3 DEF Wanted, IntakePoints, JobPoints
<1> QED
  BY <1>2, <1>3

\* Who makes whom wait: an intake that has its item's events blocks only one that waits
\* for an event before it had the advisory lock, one that has the item row blocks only
\* those that have the job, and those block only the ones that want the job, or the
\* item row before it.
LEMMA WhoBlocksWhom ==
    ASSUME IInv, NEW p \in Workers, NEW w \in Workers, w \in Blockers(p)
    PROVE  \/ at[w] = "advisory" /\ at[p] = "batch"
           \/ at[w] = "queue_job" /\ at[p] \in {"recover_item", "checkpoint_item", "failure_item"}
           \/ at[w] \in JobHolders
                 /\ at[p] \in {"queue_item", "queue_job", "checkpoint_job", "failure_job"}
<1>1. PICK r \in Wanted(p) : r \in holds[w] /\ w # p
  BY DEF Blockers
<1>2. /\ WorkerOK(w) /\ WorkerOK(p) /\ holds[w] # {} /\ at[w] \notin Outside
      /\ holds[w] \intersect holds[p] = {}
      /\ at[w] \in ItemPoints => item[w] \in Items
      /\ at[p] \in ItemPoints => item[p] \in Items
  BY <1>1, WhatIsHeld DEF IInv, TypeOK
<1>3. at[w] \in {"advisory", "batch", "read", "queue_item", "queue_job"} \union JobHolders
  BY <1>2 DEF WorkerOK, IntakePoints, JobPoints, JobHolders, Outside
<1>4. CASE at[w] \in JobHolders
  <2>1. \E i \in Items : r = JobRow(i) \/ (r = ItemRow(i) /\ JobRow(i) \in holds[w])
    BY <1>1, <1>2, <1>4 DEF WorkerOK, RecoveryLocks, JobLocks, JobHolders, JobAndItemRows,
       ItemPoints
  <2>2. at[p] # "batch"
    BY <1>1, <2>1, WorkerWants, LocksDiffer
  <2>3. at[p] \notin {"recover_item", "checkpoint_item", "failure_item"}
    <3> SUFFICES ASSUME at[p] \in {"recover_item", "checkpoint_item", "failure_item"}
                 PROVE  FALSE
      OBVIOUS
    <3>1. JobRow(item[p]) \in holds[p]
      BY <1>2 DEF WorkerOK, RecoveryLocks, JobLocks
    <3>2. r = ItemRow(item[p])
      BY <1>1, WorkerWants
    <3>3. JobRow(item[p]) \in holds[w]
      BY <2>1, <3>2, LocksDiffer
    <3> QED
      BY <1>2, <3>1, <3>3
  <2> QED
    BY <1>1, <1>4, <2>2, <2>3, WorkerWants
<1>5. CASE at[w] = "advisory"
  <2>1. \E e \in Events : r = EventRow(e)
    BY <1>1, <1>2, <1>5 DEF WorkerOK, IntakeLocks, EventRowsOf
  <2> QED
    BY <1>1, <1>5, <2>1, WorkerWants, LocksDiffer
<1>6. CASE at[w] \in {"batch", "read", "queue_item", "queue_job"}
  <2>1. /\ Advisory(item[w]) \in holds[w]
        /\ \/ \E e \in Events : r = EventRow(e) /\ ItemOf[e] = item[w]
           \/ r = Advisory(item[w])
           \/ r = ItemRow(item[w]) /\ at[w] = "queue_job"
    BY <1>1, <1>2, <1>6 DEF WorkerOK, IntakeLocks, EventRowsOf
  <2>2. ASSUME at[p] \in {"batch", "queue_item"}, item[p] = item[w] PROVE FALSE
    <3>1. Advisory(item[p]) \in holds[p]
      BY <1>2, <2>2 DEF WorkerOK, IntakeLocks
    <3> QED
      BY <1>2, <2>1, <2>2, <3>1
  <2>3. at[p] # "batch"
    BY <1>1, <2>1, <2>2, WorkerWants, LocksDiffer
  <2>4. r = ItemRow(item[w]) /\ at[w] = "queue_job"
    BY <1>1, <2>1, <2>3, WorkerWants, LocksDiffer
  <2>5. at[p] \in {"queue_item", "recover_item", "checkpoint_item", "failure_item"}
        /\ item[p] = item[w]
    BY <1>1, <2>3, <2>4, WorkerWants, LocksDiffer
  <2> QED
    BY <2>2, <2>4, <2>5
<1> QED
  BY <1>3, <1>4, <1>5, <1>6

(* However many workers wait for each other, the circle holds an intake that has locked
   its item and waits for the job, and a recovery, checkpoint or failure that has locked
   the job and waits for the item; the event rows that an intake locks before its
   advisory lock are in no circle. *)
THEOREM DeadlocksMixed == Spec => []DeadlocksAreMixed
<1>1. ASSUME IInv PROVE DeadlocksAreMixed
  <2> SUFFICES ASSUME NEW circle \in SUBSET Workers, Circle(circle)
               PROVE  /\ \E w \in circle : at[w] = "queue_job"
                      /\ \E w \in circle :
                            at[w] \in {"recover_item", "checkpoint_item", "failure_item"}
                      /\ \A w \in circle : at[w] # "batch"
    BY DEF DeadlocksAreMixed
  <2>1. circle # {} /\ \A w \in circle : \E p \in circle : w \in Blockers(p)
    BY DEF Circle
  <2>2. ASSUME NEW w \in circle PROVE at[w] \in {"advisory", "queue_job"} \union JobHolders
    BY <1>1, <2>1, WhoBlocksWhom
  <2>3. \A w \in circle : at[w] # "batch"
    BY <2>2 DEF JobHolders
  <2>4. ASSUME NEW w \in circle PROVE at[w] # "advisory"
    BY <1>1, <2>1, <2>3, WhoBlocksWhom DEF JobHolders
  <2>5. ASSUME NEW w \in circle, at[w] = "queue_job"
        PROVE  \E p \in circle : at[p] \in {"recover_item", "checkpoint_item", "failure_item"}
    BY <1>1, <2>1, <2>5, WhoBlocksWhom DEF JobHolders
  <2>6. ASSUME NEW w \in circle, at[w] \in JobHolders
        PROVE  \E p \in circle : at[p] = "queue_job"
    <3>1. PICK p \in circle : w \in Blockers(p)
      BY <2>1
    <3>2. at[p] \in {"queue_item", "queue_job", "checkpoint_job", "failure_job"}
      BY <1>1, <2>6, <3>1, WhoBlocksWhom DEF JobHolders
    <3> QED
      BY <2>2, <3>2 DEF JobHolders
  <2>7. {"recover_item", "checkpoint_item", "failure_item"} \subseteq JobHolders
    BY DEF JobHolders
  <2> QED
    BY <2>1, <2>2, <2>3, <2>4, <2>5, <2>6, <2>7
<1> QED
  BY <1>1, Inductive, PTL
=============================================================================
