-------------------------- MODULE WorkerLeaseProofs --------------------------
(***************************************************************************)
(* What WorkerLease states about safety holds for every set of workers and *)
(* every pair of lease timeout and heartbeat interval.                     *)
(*                                                                         *)
(* The inductive invariant says that the timestamp in the row is never     *)
(* older than processing_time of the run that holds it (LeaseIsYounger),   *)
(* although a checkpoint sets it back to checkpoint_time, because a run    *)
(* takes checkpoint_time after processing_time (StartsAfterItBegins).      *)
(***************************************************************************)
EXTENDS WorkerLease, TLAPS

StartsAfterItBegins ==
    \A w \in Workers : process[w].phase = "working" => process[w].started <= process[w].begun

LeaseIsYounger ==
    \A w \in Workers :
        Owns(w) /\ process[w].phase = "working" => row.heartbeat <= process[w].begun

IInv == TypeOK /\ StartsAfterItBegins /\ LeaseIsYounger

-----------------------------------------------------------------------------
LEMMA OlderInAges == ASSUME NEW age \in Ages PROVE Older(age) \in Ages
  BY LeaseTimes DEF Ages, Older

\* Ages keep their order while time passes, also where they are cut off.
LEMMA OlderKeepsOrder ==
    ASSUME NEW a \in Ages, NEW b \in Ages, a <= b
    PROVE  Older(a) <= Older(b)
  BY LeaseTimes DEF Ages, Older

LEMMA RowFacts ==
    ASSUME TypeOK
    PROVE  /\ row.heartbeat \in Ages
           /\ row.status = "running" => row.owner \in Workers
  BY LeaseTimes DEF TypeOK, Row, Ages

LEMMA UnleasedInRow == ASSUME NEW ending \in {"waiting", "ended"} PROVE Unleased(ending) \in Row
  BY DEF Unleased, Row

LEMMA StoppedInProcess == Stopped \in Process
  BY LeaseTimes DEF Stopped, Process, Ages

\* A step of one worker, whose row in memory becomes p.
LEMMA WorkerStep ==
    ASSUME IInv, NEW w \in Workers, NEW p \in Process,
           process' = [process EXCEPT ![w] = p],
           row' \in Row,
           row' = row \/ row'.status # "running" \/ row'.owner = w,
           p.phase = "working" => p.started <= p.begun,
           row'.status = "running" /\ row'.owner = w /\ p.phase = "working" =>
              row'.heartbeat <= p.begun
    PROVE  IInv'
<1>1. /\ process' \in [Workers -> Process] /\ process'[w] = p
      /\ \A v \in Workers \ {w} : process'[v] = process[v]
  BY DEF IInv, TypeOK
<1>2. TypeOK'
  BY <1>1 DEF TypeOK
<1>3. StartsAfterItBegins'
  BY <1>1 DEF IInv, StartsAfterItBegins
<1>4. LeaseIsYounger'
  BY <1>1 DEF IInv, LeaseIsYounger, Owns
<1> QED
  BY <1>2, <1>3, <1>4 DEF IInv

LEMMA NextIInv == IInv /\ [Next]_vars => IInv'
<1> SUFFICES ASSUME IInv, [Next]_vars PROVE IInv'
  OBVIOUS
<1>1. row \in Row /\ process \in [Workers -> Process] /\ row.heartbeat \in Ages
  BY RowFacts DEF IInv, TypeOK
<1>2. ASSUME NEW w \in Workers, Poll(w) PROVE IInv'
  <2>1. [Stopped EXCEPT !.phase = "polling"] \in Process
    BY StoppedInProcess DEF Process
  <2> QED
    BY <1>1, <1>2, <2>1, WorkerStep DEF Poll, IInv, LeaseIsYounger, Stopped, Owns
<1>3. ASSUME NEW w \in Workers, Claim(w) PROVE IInv'
  <2> DEFINE p == [process[w] EXCEPT !.phase = "working", !.thread = TRUE, !.started = 0]
  <2>1. /\ p \in Process /\ p.phase = "working" /\ p.started = 0
        /\ p.begun = process[w].begun /\ p.begun \in Ages /\ 0 <= p.begun
    <3>1. process[w] \in Process /\ 0 \in Ages
      BY <1>1, LeaseTimes DEF Ages
    <3>2. p \in Process
      BY <3>1 DEF Process
    <3>3. p.phase = "working" /\ p.started = 0 /\ p.begun = process[w].begun /\ p.begun \in Ages
      BY <3>1 DEF Process
    <3> QED
      BY <3>2, <3>3 DEF Ages
  <2>2. row' = [status |-> "running", owner |-> w, heartbeat |-> p.begun]
    BY <1>3, <2>1 DEF Claim
  <2>3. process' = [process EXCEPT ![w] = p]
    BY <1>3 DEF Claim
  <2>4. row' \in Row
    BY <2>1, <2>2 DEF Row
  <2>5. row'.heartbeat <= p.begun
    BY <2>1, <2>2 DEF Ages
  <2> HIDE DEF p
  <2> QED
    BY <2>1, <2>2, <2>3, <2>4, <2>5, WorkerStep
<1>4. ASSUME NEW w \in Workers, ClaimNothing(w) \/ EndRun(w) \/ Crash(w) PROVE IInv'
  <2>1. /\ process' = [process EXCEPT ![w] = Stopped]
        /\ row' \in Row /\ (row' = row \/ row'.status # "running")
    BY <1>1, <1>4, UnleasedInRow DEF ClaimNothing, EndRun, Crash, Unleased
  <2>2. Stopped.phase # "working"
    BY DEF Stopped
  <2> QED
    BY <2>1, <2>2, StoppedInProcess, WorkerStep
<1>5. ASSUME NEW w \in Workers, Beat(w) \/ MissBeat(w) PROVE IInv'
  <2>1. process[w] \in Process /\ 0 \in Ages /\ 0 \in 0 .. HeartbeatInterval
    BY <1>1, LeaseTimes DEF Ages
  <2>2. PICK p \in Process : /\ process' = [process EXCEPT ![w] = p]
                            /\ p.phase = process[w].phase /\ p.begun = process[w].begun
                            /\ p.started = process[w].started
    <3>1. ASSUME NEW p \in {[process[w] EXCEPT !.timer = 0],
                            [process[w] EXCEPT !.thread = FALSE, !.timer = 0],
                            [process[w] EXCEPT !.timer = 0, !.silence = 0]}
          PROVE  /\ p \in Process
                 /\ p.phase = process[w].phase /\ p.begun = process[w].begun
                 /\ p.started = process[w].started
      BY <2>1 DEF Process
    <3>2. \/ process' = [process EXCEPT ![w] = [process[w] EXCEPT !.timer = 0]]
          \/ process' = [process EXCEPT ![w] = [process[w] EXCEPT !.thread = FALSE, !.timer = 0]]
          \/ process' = [process EXCEPT ![w] = [process[w] EXCEPT !.timer = 0, !.silence = 0]]
      BY <1>5 DEF Beat, MissBeat
    <3> QED
      BY <3>1, <3>2
  <2>3. row' = row \/ (Owns(w) /\ row' = [row EXCEPT !.heartbeat = 0])
    BY <1>5 DEF Beat, MissBeat
  <2>4. row' \in Row /\ (row' = row \/ (row'.owner = w /\ row'.heartbeat = 0))
    BY <1>1, <2>1, <2>3 DEF Row, Owns
  <2>5. p.begun \in Ages /\ 0 <= p.begun
    BY <2>1, <2>2 DEF Process, Ages
  <2>6. p.phase = "working" => p.started <= p.begun
    BY <2>2 DEF IInv, StartsAfterItBegins
  <2>7. row'.status = "running" /\ row'.owner = w /\ p.phase = "working" =>
           row'.heartbeat <= p.begun
    BY <2>2, <2>4, <2>5 DEF IInv, LeaseIsYounger, Owns
  <2> QED
    BY <2>2, <2>4, <2>6, <2>7, WorkerStep
<1>6. ASSUME NEW w \in Workers, Checkpoint(w) PROVE IInv'
  <2>1. process' = [process EXCEPT ![w] = process[w]]
    BY <1>1, <1>6 DEF Checkpoint
  <2>2. /\ process[w] \in Process /\ process[w].started \in Ages
        /\ process[w].started <= process[w].begun
    BY <1>1, <1>6 DEF Checkpoint, IInv, StartsAfterItBegins, Process
  <2>3. row' \in Row /\ row'.owner = w /\ row'.heartbeat = process[w].started
    BY <1>1, <1>6, <2>2 DEF Checkpoint, Owns, Row
  <2> QED
    BY <2>1, <2>2, <2>3, WorkerStep
<1>7. CASE Recover
  <2>1. row' \in Row /\ row'.status # "running" /\ UNCHANGED process
    BY <1>7, UnleasedInRow DEF Recover, Unleased
  <2> QED
    BY <1>1, <2>1 DEF IInv, TypeOK, StartsAfterItBegins, LeaseIsYounger, Owns
<1>8. CASE Tick
  <2>1. ASSUME NEW w \in Workers
        PROVE  /\ process'[w] \in Process /\ process'[w].phase = process[w].phase
               /\ process[w].phase # "idle" =>
                     /\ process'[w].begun = Older(process[w].begun)
                     /\ process'[w].started = Older(process[w].started)
    <3>1. CASE process[w].phase = "idle"
      BY <1>1, <1>8, <3>1 DEF Tick
    <3>2. CASE process[w].phase # "idle"
      <4> DEFINE timer == IF process[w].thread THEN process[w].timer + 1 ELSE process[w].timer
                 p == [process[w] EXCEPT !.begun = Older(@), !.started = Older(@),
                                         !.silence = Older(@), !.timer = timer]
      <4>1. process[w].timer \in 0 .. HeartbeatInterval /\ process[w] \in Process
        BY <1>1 DEF Process
      <4>2. timer \in 0 .. HeartbeatInterval
        <5>1. process[w].thread => process[w].timer < HeartbeatInterval
          BY <1>8 DEF Tick
        <5> QED
          BY <4>1, <5>1, LeaseTimes
      <4>3. process'[w] = p
        BY <1>8, <3>2 DEF Tick
      <4> HIDE DEF timer
      <4> QED
        BY <4>1, <4>2, <4>3, OlderInAges DEF Process
    <3> QED
      BY <3>1, <3>2
  <2>2. process' \in [Workers -> Process]
    BY <1>8, <2>1 DEF Tick
  <2>3. /\ row' \in Row /\ row'.status = row.status /\ row'.owner = row.owner
        /\ row.status = "running" => row'.heartbeat = Older(row.heartbeat)
    BY <1>1, <1>8, OlderInAges DEF Tick, Row
  <2>4. \A w \in Workers : process[w].begun \in Ages /\ process[w].started \in Ages
    BY <1>1 DEF Process
  <2>5. StartsAfterItBegins'
    BY <2>1, <2>4, OlderKeepsOrder DEF IInv, StartsAfterItBegins
  <2>6. LeaseIsYounger'
    BY <1>1, <2>1, <2>3, <2>4, OlderKeepsOrder DEF IInv, LeaseIsYounger, Owns
  <2> QED
    BY <2>2, <2>3, <2>5, <2>6 DEF IInv, TypeOK
<1>9. CASE UNCHANGED vars
  BY <1>9 DEF vars, IInv, TypeOK, StartsAfterItBegins, LeaseIsYounger, Owns
<1> QED
  BY <1>2, <1>3, <1>4, <1>5, <1>6, <1>7, <1>8, <1>9 DEF Next

LEMMA Inductive == Spec => []IInv
<1>1. Init => IInv
  BY LeaseTimes, StoppedInProcess
     DEF Init, IInv, TypeOK, Row, StartsAfterItBegins, LeaseIsYounger, Owns, Stopped
<1> QED
  BY <1>1, NextIInv, PTL DEF Spec

-----------------------------------------------------------------------------
(* The theorems *)

(* A job row has an owner exactly while it runs, and no thread oversleeps, through
   claims, checkpoints, crashes, restarts and recoveries. *)
THEOREM LeaseTypes == Spec => []TypeOK
<1>1. IInv => TypeOK
  BY DEF IInv
<1> QED
  BY <1>1, Inductive, PTL

(* recover_stale_jobs takes no lease from a run that began at most a lease timeout ago,
   even if none of its heartbeats succeeds. *)
THEOREM YoungLeasesAreKept == Spec => YoungLeaseIsKept
<1>1. ASSUME IInv, Next, NEW w \in Workers, Robbed(w)
      PROVE  process[w].begun > LeaseTimeout
  <2>1. Owns(w) /\ process[w].phase = "working" /\ row'.status # "running"
        /\ process'[w] = process[w]
    BY <1>1 DEF Robbed
  <2>2. process[w].begun \in Ages /\ row.heartbeat \in Ages
    BY <1>1, RowFacts DEF IInv, TypeOK, Process
  <2>3. Recover
    <3>1. ASSUME NEW v \in Workers, EndRun(v) PROVE FALSE
      <4>1. process'[v] = Stopped
        BY <1>1, <3>1 DEF EndRun, IInv, TypeOK
      <4>2. v # w
        BY <2>1, <4>1 DEF Stopped
      <4> QED
        BY <2>1, <3>1, <4>2 DEF EndRun, Owns
    <3>2. ASSUME NEW v \in Workers, Poll(v) \/ ClaimNothing(v) \/ MissBeat(v) \/ Crash(v)
          PROVE  FALSE
      BY <2>1, <3>2 DEF Poll, ClaimNothing, MissBeat, Crash, Owns
    <3>3. ASSUME NEW v \in Workers, Claim(v) \/ Beat(v) \/ Checkpoint(v) PROVE FALSE
      BY <1>1, <2>1, <3>3 DEF Claim, Beat, Checkpoint, Owns, IInv, TypeOK, Row
    <3>4. ASSUME Tick PROVE FALSE
      BY <1>1, <2>1, <3>4 DEF Tick, Owns, IInv, TypeOK, Row
    <3> QED
      BY <1>1, <3>1, <3>2, <3>3, <3>4 DEF Next
  <2> QED
    BY <1>1, <2>1, <2>2, <2>3, LeaseTimes DEF Recover, IInv, LeaseIsYounger, Ages
<1>2. IInv /\ [Next]_vars =>
         [\A w \in Workers : Robbed(w) => process[w].begun > LeaseTimeout]_vars
  <2>1. ASSUME UNCHANGED vars, NEW w \in Workers PROVE ~Robbed(w)
    BY <2>1 DEF vars, Robbed, Owns
  <2> QED
    BY <1>1, <2>1
<1> QED
  BY <1>2, Inductive, PTL DEF Spec, YoungLeaseIsKept
=============================================================================
