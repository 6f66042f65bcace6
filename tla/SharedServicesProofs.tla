------------------------- MODULE SharedServicesProofs -------------------------
(***************************************************************************)
(* What SharedServices states about safety holds for every set of workers, *)
(* every number of pages, every lifetime of the cache and every wait that  *)
(* Monday may ask for.                                                     *)
(*                                                                         *)
(* The row lock carries the proof: while a worker fetches, nobody clears   *)
(* the cache (FetchesAfterLastClear), the pages it counts are consecutive  *)
(* (PagesInOrder) and its reason for fetching stays (FetchesForAReason).   *)
(* The shared row is therefore always a whole board, read after the last   *)
(* clear.  The cooldown that is shared is never shorter than what any      *)
(* worker was told (CooldownCoversAll).                                    *)
(***************************************************************************)
EXTENDS SharedServices, TLAPS

SnapshotIsWhole ==
    snapshot # Empty => snapshot.pages = Pages /\ snapshot.era = clears

FetchesAfterLastClear == \A w \in Workers : lock = w => loader[w].era = clears

FetchesForAReason == \A w \in Workers : lock = w => loader[w].forced \/ ~loader[w].fresh

PagesInOrder ==
    \A w \in Workers :
        /\ loader[w].phase \in {"idle", "lock"} => loader[w].pages = 0
        /\ loader[w].phase \in {"check", "post", "sent"} => loader[w].pages < Pages
        /\ loader[w].phase = "store" => loader[w].pages = Pages

CallsBeganInThePast == \A w \in Workers : loader[w].since <= clears

CooldownCoversAll == \A w \in Workers : loader[w].told <= cooldown

PostsAfterTheWait == \A w \in Workers : loader[w].phase = "post" => loader[w].told = 0

IInv ==
    /\ TypeOK
    /\ SnapshotIsWhole
    /\ FetchesAfterLastClear
    /\ FetchesForAReason
    /\ PagesInOrder
    /\ CallsBeganInThePast
    /\ CooldownCoversAll
    /\ PostsAfterTheWait
    /\ ServedIsComplete
    /\ ServedIsFresh
    /\ ServedIsNotCleared

-----------------------------------------------------------------------------
(* One worker at a time *)

\* What an index handed to a caller is.
ServedOK(p) ==
    p.result # Empty => /\ p.result.pages = Pages
                        /\ p.result.age < TTL \/ p.result.age = 0
                        /\ p.since <= p.result.era

\* A worker in this state holds the row lock.
Fetches(p) == p.phase \notin {"idle", "lock"}

\* What the state p of a worker's call may be.
LoaderOK(p) ==
    /\ p \in Loader
    /\ Fetches(p) => p.era = clears /\ (p.forced \/ ~p.fresh)
    /\ p.phase \in {"idle", "lock"} => p.pages = 0
    /\ p.phase \in {"check", "post", "sent"} => p.pages < Pages
    /\ p.phase = "store" => p.pages = Pages
    /\ p.since <= clears
    /\ p.phase = "post" => p.told = 0
    /\ ServedOK(p)

LEMMA LoadersAreOK ==
    ASSUME IInv, NEW w \in Workers
    PROVE  /\ LoaderOK(loader[w]) /\ (Fetches(loader[w]) <=> lock = w)
           /\ loader[w].told <= cooldown
  BY DEF IInv, TypeOK, LoaderOK, Fetches, ServedOK, Served, FetchesAfterLastClear, FetchesForAReason,
         PagesInOrder, CallsBeganInThePast, CooldownCoversAll, PostsAfterTheWait,
         ServedIsComplete, ServedIsFresh, ServedIsNotCleared

\* A step of one worker at which the cache is not cleared.
LEMMA LoaderStepInv ==
    ASSUME IInv, NEW w \in Workers, NEW p,
           loader' = [loader EXCEPT ![w] = p],
           UNCHANGED clears, faults' \in 0 .. MaxFaults,
           \/ UNCHANGED snapshot
           \/ snapshot' \in Snapshot /\ snapshot'.pages = Pages /\ snapshot'.era = clears,
           \/ UNCHANGED lock
           \/ lock \in {w, Nobody} /\ lock' \in {w, Nobody},
           LoaderOK(p),
           \/ Fetches(p) /\ lock' = w
           \/ ~Fetches(p) /\ lock' # w,
           \/ UNCHANGED cooldown /\ p.told = loader[w].told
           \/ cooldown' \in Nat /\ cooldown <= cooldown' /\ p.told <= cooldown'
    PROVE  IInv'
<1>1. /\ loader'[w] = p /\ \A v \in Workers \ {w} : loader'[v] = loader[v]
      /\ loader' \in [Workers -> Loader]
  BY DEF IInv, TypeOK, LoaderOK
<1>2. lock' \in Workers \union {Nobody} /\ \A v \in Workers \ {w} : lock' = v <=> lock = v
  BY NobodyIsNoWorker DEF IInv, TypeOK
<1>3. \A v \in Workers : LoaderOK(loader[v])' /\ (Fetches(loader[v])' <=> lock' = v)
  BY <1>1, <1>2, LoadersAreOK DEF LoaderOK, ServedOK, Fetches
<1>4. \A v \in Workers : loader'[v].told <= cooldown'
  <2>1. \A v \in Workers : loader[v].told \in Nat /\ loader[v].told <= cooldown
    BY DEF IInv, TypeOK, Loader, CooldownCoversAll
  <2>2. cooldown \in Nat /\ (UNCHANGED cooldown \/ (cooldown' \in Nat /\ cooldown <= cooldown'))
    BY DEF IInv, TypeOK
  <2> QED
    BY <1>1, <2>1, <2>2
<1>5. TypeOK'
  BY <1>1, <1>2, <1>3 DEF IInv, TypeOK, Fetches
<1>6. SnapshotIsWhole'
  BY DEF IInv, SnapshotIsWhole
<1>7. FetchesAfterLastClear' /\ FetchesForAReason' /\ PagesInOrder' /\ CallsBeganInThePast'
      /\ PostsAfterTheWait'
  BY <1>3 DEF LoaderOK, Fetches, FetchesAfterLastClear, FetchesForAReason, PagesInOrder,
              CallsBeganInThePast, PostsAfterTheWait
<1>8. ServedIsComplete' /\ ServedIsFresh' /\ ServedIsNotCleared'
  BY <1>3 DEF LoaderOK, ServedOK, Served, ServedIsComplete, ServedIsFresh, ServedIsNotCleared
<1> QED
  BY <1>4, <1>5, <1>6, <1>7, <1>8 DEF IInv, CooldownCoversAll

\* The ends of a call, with an index or without.
Returned(w, result) ==
    [loader[w] EXCEPT !.phase = "idle", !.forced = FALSE, !.pages = 0, !.deadline = 0,
                      !.fresh = FALSE, !.era = 0, !.result = result]

Handed(w, result) ==
    result = Empty \/ /\ result \in Snapshot /\ result.pages = Pages
                      /\ result.age < TTL \/ result.age = 0
                      /\ loader[w].since <= result.era

LEMMA ReturnedOK ==
    ASSUME IInv, NEW w \in Workers, NEW result, Handed(w, result)
    PROVE  /\ LoaderOK(Returned(w, result)) /\ ~Fetches(Returned(w, result))
           /\ Returned(w, result).told = loader[w].told
<1> DEFINE p == Returned(w, result)
<1>1. loader[w] \in Loader /\ loader[w].since <= clears
  BY LoadersAreOK DEF LoaderOK
<1>2. result \in {Empty} \union Snapshot
  BY DEF Handed
<1>3. 0 \in 0 .. Pages /\ 0 \in 0 .. MaxClears /\ 0 \in Nat /\ "idle" \in Phases
  BY SomePages, Bounds DEF Phases
<1> HIDE DEF Handed
<1>9. p \in Loader
  BY <1>1, <1>2, <1>3 DEF Returned, Loader
<1>4. /\ p.phase = "idle" /\ p.pages = 0 /\ p.result = result /\ p.told = loader[w].told
      /\ p.since = loader[w].since
  BY <1>1 DEF Returned, Loader
<1> QED
  BY <1>1, <1>9, <1>4 DEF LoaderOK, ServedOK, Fetches, Handed

\* Locking, or giving up: the transaction ends and leaves the snapshot alone.
LEMMA EndStep ==
    ASSUME IInv, NEW w \in Workers, RollBack(w) \/ Crash(w)
    PROVE  IInv'
<1>1. /\ loader' = [loader EXCEPT ![w] = Returned(w, Empty)] /\ lock' = Unlocked(w)
      /\ UNCHANGED <<snapshot, cooldown, clears>>
  BY DEF RollBack, Crash, Ended, Returned
<1>2. faults' \in 0 .. MaxFaults
  <2>1. faults \in 0 .. MaxFaults /\ (faults' = faults \/ (faults < MaxFaults /\ faults' = faults + 1))
    BY DEF RollBack, Crash, IInv, TypeOK
  <2> QED
    BY <2>1, Bounds
<1>3. /\ LoaderOK(Returned(w, Empty)) /\ ~Fetches(Returned(w, Empty))
      /\ Returned(w, Empty).told = loader[w].told
  BY ReturnedOK DEF Handed
<1>5. lock' # w /\ (lock' = lock \/ (lock = w /\ lock' = Nobody))
  BY <1>1, NobodyIsNoWorker DEF Unlocked
<1> QED
  BY <1>1, <1>2, <1>3, <1>5, LoaderStepInv

LEMMA StoreStep == ASSUME IInv, NEW w \in Workers, StoreIndex(w) PROVE IInv'
<1> DEFINE index == [pages |-> loader[w].pages, age |-> 0, era |-> loader[w].era]
<1>1. LoaderOK(loader[w]) /\ (Fetches(loader[w]) <=> lock = w) /\ loader[w].phase = "store" /\ loader[w].told <= cooldown
  BY LoadersAreOK DEF StoreIndex
<1>2. /\ lock = w /\ loader[w].pages = Pages /\ loader[w].era = clears
      /\ loader[w].since <= clears /\ loader[w] \in Loader
  BY <1>1 DEF LoaderOK, Fetches
<1>3. /\ index \in Snapshot /\ index.pages = Pages /\ index.age = 0 /\ index.era = clears
  BY <1>2, Durations DEF Loader, Snapshot, Ages
<1>4. /\ snapshot' = index /\ loader' = [loader EXCEPT ![w] = Returned(w, index)]
      /\ lock' = Nobody /\ UNCHANGED <<cooldown, clears, faults>>
  BY <1>2 DEF StoreIndex, Ended, Returned, Unlocked
<1> HIDE DEF index
<1>5. LoaderOK(Returned(w, index)) /\ ~Fetches(Returned(w, index)) /\ Returned(w, index).told = loader[w].told
  BY <1>2, <1>3, ReturnedOK DEF Handed
<1>6. cooldown \in Nat /\ faults \in 0 .. MaxFaults /\ Nobody # w
  BY NobodyIsNoWorker DEF IInv, TypeOK
<1> QED
  BY <1>1, <1>2, <1>3, <1>4, <1>5, <1>6, LoaderStepInv

\* A call that returns the snapshot, or waits for the lock.
LEMMA LoadStep ==
    ASSUME IInv, NEW w \in Workers, NEW forced \in BOOLEAN, LoadIndex(w, forced)
    PROVE  IInv'
<1>1. /\ LoaderOK(loader[w]) /\ (Fetches(loader[w]) <=> lock = w) /\ loader[w].phase = "idle" /\ lock # w
      /\ loader[w].told <= cooldown /\ loader[w] \in Loader
      /\ UNCHANGED <<snapshot, lock, cooldown, clears, faults>>
  BY LoadersAreOK DEF LoadIndex, LoaderOK, Fetches
<1>2. /\ cooldown \in Nat /\ faults \in 0 .. MaxFaults /\ clears \in 0 .. MaxClears
      /\ snapshot \in {Empty} \union Snapshot
      /\ snapshot # Empty => snapshot.pages = Pages /\ snapshot.era = clears
  BY DEF IInv, TypeOK, SnapshotIsWhole
<1>3. CASE ~forced /\ Fresh
  <2> DEFINE p == [Returned(w, snapshot) EXCEPT !.since = clears]
  <2>1. loader' = [loader EXCEPT ![w] = p]
    BY <1>3, <1>1 DEF LoadIndex, Ended, Returned, IInv, TypeOK
  <2>2. snapshot \in Snapshot /\ snapshot.age < TTL
    BY <1>2, <1>3 DEF Fresh
  <2>3. Handed(w, snapshot)
    BY <1>1, <1>2, <1>3, <2>2 DEF Handed, Fresh, LoaderOK
  <2>4. /\ Returned(w, snapshot) \in Loader /\ Returned(w, snapshot).phase = "idle"
        /\ Returned(w, snapshot).pages = 0 /\ Returned(w, snapshot).result = snapshot
        /\ Returned(w, snapshot).told = loader[w].told
    BY <1>1, <2>3, ReturnedOK DEF Returned, Loader, LoaderOK
  <2>6. /\ p \in Loader /\ p.phase = "idle" /\ p.pages = 0 /\ p.result = snapshot
        /\ p.told = loader[w].told /\ p.since = clears
    BY <1>2, <2>4 DEF Loader
  <2> HIDE DEF p
  <2>5. LoaderOK(p) /\ ~Fetches(p)
    BY <1>2, <1>3, <2>2, <2>6 DEF LoaderOK, ServedOK, Fetches, Fresh
  <2> QED
    BY <1>1, <1>2, <2>1, <2>5, <2>6, LoaderStepInv
<1>4. CASE forced \/ ~Fresh
  <2> DEFINE p == [loader[w] EXCEPT !.phase = "lock", !.forced = forced, !.result = Empty,
                                    !.since = clears]
  <2>1. loader' = [loader EXCEPT ![w] = p]
    BY <1>4, <1>1 DEF LoadIndex, IInv, TypeOK
  <2>2. p \in Loader
    BY <1>1, <1>2 DEF Loader, Phases
  <2>3. /\ p.phase = "lock" /\ p.pages = loader[w].pages /\ p.result = Empty
        /\ p.told = loader[w].told /\ p.since = clears
    BY <1>1 DEF Loader
  <2> HIDE DEF p
  <2>4. LoaderOK(p) /\ ~Fetches(p)
    BY <1>1, <1>2, <2>2, <2>3 DEF LoaderOK, ServedOK, Fetches
  <2> QED
    BY <1>1, <1>2, <2>1, <2>3, <2>4, LoaderStepInv
<1> QED
  BY <1>3, <1>4

LEMMA LockStep == ASSUME IInv, NEW w \in Workers, LockSnapshot(w) PROVE IInv'
<1>1. /\ LoaderOK(loader[w]) /\ (Fetches(loader[w]) <=> lock = w) /\ loader[w].phase = "lock" /\ lock = Nobody
      /\ loader[w].told <= cooldown /\ loader[w] \in Loader /\ lock # w
      /\ UNCHANGED <<snapshot, cooldown, clears, faults>>
  BY LoadersAreOK DEF LockSnapshot, LoaderOK, Fetches
<1>2. /\ cooldown \in Nat /\ faults \in 0 .. MaxFaults /\ clears \in 0 .. MaxClears
      /\ snapshot \in {Empty} \union Snapshot
      /\ snapshot # Empty => snapshot.pages = Pages /\ snapshot.era = clears
  BY DEF IInv, TypeOK, SnapshotIsWhole
<1>3. CASE ~loader[w].forced /\ Fresh
  <2>1. Handed(w, snapshot)
    BY <1>1, <1>2, <1>3 DEF Handed, Fresh, LoaderOK
  <2>2. LoaderOK(Returned(w, snapshot)) /\ ~Fetches(Returned(w, snapshot)) /\ Returned(w, snapshot).told = loader[w].told
    BY <2>1, ReturnedOK
  <2>3. loader' = [loader EXCEPT ![w] = Returned(w, snapshot)] /\ lock' = lock
    BY <1>3 DEF LockSnapshot, Ended, Returned
  <2> QED
    BY <1>1, <1>2, <2>2, <2>3, LoaderStepInv
<1>4. CASE loader[w].forced \/ ~Fresh
  <2> DEFINE p == [loader[w] EXCEPT !.phase = "check", !.era = clears, !.fresh = Fresh]
  <2>1. loader' = [loader EXCEPT ![w] = p] /\ lock' = w
    BY <1>4 DEF LockSnapshot, Fetching
  <2>2. Fresh \in BOOLEAN
    BY DEF Fresh
  <2>3. p \in Loader
    BY <1>1, <1>2, <2>2 DEF Loader, Phases
  <2>4. /\ p.phase = "check" /\ p.pages = loader[w].pages /\ p.result = loader[w].result
        /\ p.told = loader[w].told /\ p.since = loader[w].since /\ p.era = clears
    BY <1>1 DEF Loader
  <2>5. p.forced \/ ~p.fresh
    BY <1>1, <1>4 DEF Loader
  <2> HIDE DEF p
  <2>6. LoaderOK(p) /\ Fetches(p)
    BY <1>1, <1>2, <2>3, <2>4, <2>5, SomePages DEF LoaderOK, ServedOK, Fetches
  <2> QED
    BY <1>1, <1>2, <2>1, <2>4, <2>6, LoaderStepInv
<1> QED
  BY <1>3, <1>4

\* The steps of a refresh that only change its phase.
LEMMA PhaseStep ==
    ASSUME IInv, NEW w \in Workers,
           CheckCooldown(w) \/ Post(w) \/ ReceiveLimit(w) \/ ReceiveError(w)
    PROVE  IInv'
<1>1. /\ LoaderOK(loader[w]) /\ Fetches(loader[w]) /\ loader[w] \in Loader /\ lock = w
      /\ loader[w].told <= cooldown /\ UNCHANGED <<snapshot, lock, cooldown, clears>>
      /\ loader[w].told \in Nat
  <2>1. /\ Fetches(loader[w]) /\ UNCHANGED <<snapshot, lock, cooldown, clears>>
    BY DEF CheckCooldown, Post, ReceiveLimit, ReceiveError, Fetches
  <2> QED
    BY <2>1, LoadersAreOK DEF LoaderOK, Loader
<1>2. faults' \in 0 .. MaxFaults
  <2>1. faults \in 0 .. MaxFaults /\ (faults' = faults \/ (faults < MaxFaults /\ faults' = faults + 1))
    BY DEF CheckCooldown, Post, ReceiveLimit, ReceiveError, IInv, TypeOK
  <2> QED
    BY <2>1, Bounds
<1>3. PICK phase \in {"failed", "post", "sent", "limited"}, deadline \in Nat :
         /\ loader' = [loader EXCEPT ![w] = [loader[w] EXCEPT !.phase = phase,
                                                              !.deadline = deadline]]
         /\ phase = "post" => loader[w].phase = "check" /\ loader[w].told = 0
         /\ phase = "sent" => loader[w].phase = "post"
  <2>1. [loader[w] EXCEPT !.deadline = loader[w].deadline] = loader[w]
        /\ loader[w].deadline \in Nat
    BY <1>1 DEF Loader
  <2>2. ASSUME NEW phase, loader' = [loader EXCEPT ![w].phase = phase]
        PROVE  loader' = [loader EXCEPT ![w] = [loader[w] EXCEPT !.phase = phase,
                                                       !.deadline = loader[w].deadline]]
    BY <2>1, <2>2, <1>1 DEF Loader
  <2>3. CASE CheckCooldown(w)
    <3>1. cooldown \in Nat /\ (cooldown > 0 \/ loader[w].told = 0)
      BY <1>1 DEF IInv, TypeOK
    <3> QED
      BY <2>1, <2>2, <2>3, <3>1 DEF CheckCooldown
  <2>4. CASE Post(w) \/ ReceiveError(w)
    BY <2>1, <2>2, <2>4 DEF Post, ReceiveError
  <2>5. CASE ReceiveLimit(w)
    <3>1. PICK delay \in Delays :
             loader' = [loader EXCEPT ![w].phase = "limited", ![w].deadline = delay]
      BY <2>5 DEF ReceiveLimit
    <3> QED
      BY <1>1, <3>1, Durations DEF IInv, TypeOK
  <2> QED
    BY <2>3, <2>4, <2>5
<1> DEFINE p == [loader[w] EXCEPT !.phase = phase, !.deadline = deadline]
<1>4. /\ p \in Loader /\ p.phase = phase /\ p.forced = loader[w].forced
      /\ p.fresh = loader[w].fresh /\ p.era = loader[w].era /\ p.pages = loader[w].pages
      /\ p.since = loader[w].since /\ p.told = loader[w].told /\ p.result = loader[w].result
  BY <1>1 DEF Loader, Phases
<1> HIDE DEF p
<1>5. LoaderOK(p) /\ Fetches(p)
  BY <1>1, <1>3, <1>4 DEF LoaderOK, ServedOK, Fetches
<1>6. loader' = [loader EXCEPT ![w] = p]
  BY <1>3 DEF p
<1> QED
  BY <1>1, <1>2, <1>4, <1>5, <1>6, LoaderStepInv

LEMMA PageStep == ASSUME IInv, NEW w \in Workers, ReceivePage(w) PROVE IInv'
<1>1. /\ LoaderOK(loader[w]) /\ Fetches(loader[w]) /\ loader[w] \in Loader /\ lock = w
      /\ loader[w].pages \in 0 .. Pages /\ loader[w].pages < Pages
      /\ loader[w].told <= cooldown /\ UNCHANGED <<snapshot, lock, cooldown, clears, faults>>
  BY LoadersAreOK DEF ReceivePage, LoaderOK, Fetches, Loader
<1> DEFINE pages == loader[w].pages + 1
           phase == IF pages = Pages THEN "store" ELSE "check"
           p == [loader[w] EXCEPT !.pages = pages, !.phase = phase]
<1>2. /\ pages \in 0 .. Pages /\ phase \in {"store", "check"}
      /\ phase = "store" => pages = Pages
      /\ phase = "check" => pages < Pages
  BY <1>1, SomePages
<1>3. loader' = [loader EXCEPT ![w] = p]
  BY DEF ReceivePage
<1> HIDE DEF pages, phase
<1>4. /\ p \in Loader /\ p.phase = phase /\ p.forced = loader[w].forced
      /\ p.fresh = loader[w].fresh /\ p.era = loader[w].era /\ p.pages = pages
      /\ p.since = loader[w].since /\ p.told = loader[w].told /\ p.result = loader[w].result
  BY <1>1, <1>2 DEF Loader, Phases
<1> HIDE DEF p
<1>5. LoaderOK(p) /\ Fetches(p)
  BY <1>1, <1>2, <1>4 DEF LoaderOK, ServedOK, Fetches
<1>6. faults \in 0 .. MaxFaults
  BY DEF IInv, TypeOK
<1> QED
  BY <1>1, <1>3, <1>4, <1>5, <1>6, LoaderStepInv

\* The deadline a worker was told is in the shared row before it can go on.
LEMMA RecordStep == ASSUME IInv, NEW w \in Workers, RecordCooldown(w) PROVE IInv'
<1> DEFINE told == Longer(loader[w].told, loader[w].deadline)
           p == [loader[w] EXCEPT !.phase = "failed", !.told = told]
<1>1. /\ LoaderOK(loader[w]) /\ Fetches(loader[w]) /\ loader[w] \in Loader /\ lock = w
      /\ loader[w].told <= cooldown /\ UNCHANGED <<snapshot, lock, clears, faults>>
      /\ loader[w].told \in Nat /\ loader[w].deadline \in Nat
  BY LoadersAreOK DEF RecordCooldown, LoaderOK, Fetches, Loader
<1>2. cooldown \in Nat /\ faults \in 0 .. MaxFaults
  BY DEF IInv, TypeOK
<1>3. /\ told \in Nat /\ cooldown' \in Nat /\ cooldown <= cooldown' /\ told <= cooldown'
  BY <1>1, <1>2 DEF RecordCooldown, CooldownExtended, Longer
<1>4. loader' = [loader EXCEPT ![w] = p]
  BY DEF RecordCooldown
<1> HIDE DEF told
<1>5. /\ p \in Loader /\ p.phase = "failed" /\ p.forced = loader[w].forced
      /\ p.fresh = loader[w].fresh /\ p.era = loader[w].era /\ p.pages = loader[w].pages
      /\ p.since = loader[w].since /\ p.told = told /\ p.result = loader[w].result
  BY <1>1, <1>3 DEF Loader, Phases
<1> HIDE DEF p
<1>6. LoaderOK(p) /\ Fetches(p)
  BY <1>1, <1>5 DEF LoaderOK, ServedOK, Fetches
<1> QED
  BY <1>1, <1>2, <1>3, <1>4, <1>5, <1>6, LoaderStepInv

-----------------------------------------------------------------------------
(* Everybody else *)

LEMMA ClearStep == ASSUME IInv, Clear PROVE IInv'
<1>1. /\ clears \in 0 .. MaxClears /\ clears < MaxClears /\ clears' = clears + 1
      /\ snapshot' = Empty /\ lock = Nobody /\ UNCHANGED <<lock, cooldown, loader, faults>>
  BY DEF Clear, IInv, TypeOK
<1>2. clears' \in 0 .. MaxClears /\ clears <= clears'
  BY <1>1, Bounds
<1>3. \A w \in Workers : lock # w
  BY <1>1, NobodyIsNoWorker
<1>4. TypeOK' /\ SnapshotIsWhole'
  BY <1>1, <1>2 DEF IInv, TypeOK, SnapshotIsWhole
<1>5. FetchesAfterLastClear' /\ FetchesForAReason' /\ PagesInOrder'
  BY <1>1, <1>3 DEF IInv, FetchesAfterLastClear, FetchesForAReason, PagesInOrder
<1>6. CallsBeganInThePast'
  <2> SUFFICES ASSUME NEW w \in Workers PROVE loader[w].since <= clears + 1
    BY <1>1 DEF CallsBeganInThePast
  <2>1. loader[w] \in Loader /\ loader[w].since <= clears
    BY DEF IInv, TypeOK, CallsBeganInThePast
  <2>2. loader[w].since \in 0 .. MaxClears
    BY <2>1 DEF Loader
  <2> QED
    BY <1>1, <2>1, <2>2, Bounds
<1>7. /\ CooldownCoversAll' /\ PostsAfterTheWait'
      /\ ServedIsComplete' /\ ServedIsFresh' /\ ServedIsNotCleared'
  BY <1>1 DEF IInv, CooldownCoversAll, PostsAfterTheWait, ServedIsComplete, ServedIsFresh,
              ServedIsNotCleared, Served
<1> QED
  BY <1>4, <1>5, <1>6, <1>7 DEF IInv

LEMMA OtherStep == ASSUME IInv, OtherCooldown PROVE IInv'
<1>1. /\ faults \in 0 .. MaxFaults /\ faults < MaxFaults /\ faults' = faults + 1
      /\ cooldown \in Nat /\ UNCHANGED <<snapshot, lock, loader, clears>>
  BY DEF OtherCooldown, IInv, TypeOK
<1>2. PICK delay \in Nat : cooldown' = Longer(cooldown, delay)
  BY Durations DEF OtherCooldown, CooldownExtended
<1>3. faults' \in 0 .. MaxFaults /\ cooldown' \in Nat /\ cooldown <= cooldown'
  BY <1>1, <1>2, Bounds DEF Longer
<1>4. TypeOK'
  BY <1>1, <1>3 DEF IInv, TypeOK
<1>5. CooldownCoversAll'
  <2>1. \A w \in Workers : loader[w].told \in Nat /\ loader[w].told <= cooldown
    BY DEF IInv, TypeOK, Loader, CooldownCoversAll
  <2> QED
    BY <1>1, <1>3, <2>1 DEF CooldownCoversAll
<1>6. /\ SnapshotIsWhole' /\ FetchesAfterLastClear' /\ FetchesForAReason' /\ PagesInOrder'
      /\ CallsBeganInThePast' /\ PostsAfterTheWait'
      /\ ServedIsComplete' /\ ServedIsFresh' /\ ServedIsNotCleared'
  BY <1>1 DEF IInv, SnapshotIsWhole, FetchesAfterLastClear, FetchesForAReason, PagesInOrder,
              CallsBeganInThePast, PostsAfterTheWait, ServedIsComplete, ServedIsFresh,
              ServedIsNotCleared, Served
<1> QED
  BY <1>4, <1>5, <1>6 DEF IInv

\* Waits shrink together, so that their order stays.
LEMMA SoonerKeepsOrder ==
    ASSUME NEW a \in Nat, NEW b \in Nat, a <= b
    PROVE  Sooner(a) \in Nat /\ Sooner(a) <= Sooner(b) /\ (a = 0 => Sooner(a) = 0)
  BY DEF Sooner

LEMMA TickStep == ASSUME IInv, Tick PROVE IInv'
<1>1. /\ snapshot \in {Empty} \union Snapshot /\ cooldown \in Nat
      /\ \A w \in Workers : loader[w] \in Loader /\ loader[w].told <= cooldown
      /\ UNCHANGED <<lock, clears, faults>> /\ cooldown' = Sooner(cooldown)
      /\ snapshot' = Older(snapshot)
  BY DEF Tick, IInv, TypeOK, CooldownCoversAll
<1>2. /\ snapshot' \in {Empty} \union Snapshot
      /\ snapshot' # Empty => /\ snapshot # Empty /\ snapshot'.pages = snapshot.pages
                             /\ snapshot'.era = snapshot.era
  <2>1. CASE snapshot = Empty \/ snapshot.age = TTL
    BY <1>1, <2>1 DEF Older
  <2>2. CASE snapshot # Empty /\ snapshot.age # TTL
    <3>1. snapshot \in Snapshot /\ snapshot.age + 1 \in Ages
      BY <1>1, <2>2, Durations DEF Snapshot, Ages
    <3>2. snapshot' = [snapshot EXCEPT !.age = snapshot.age + 1]
      BY <1>1, <2>2 DEF Older
    <3> QED
      BY <2>2, <3>1, <3>2 DEF Snapshot
  <2> QED
    BY <2>1, <2>2
<1>3. ASSUME NEW w \in Workers
      PROVE  /\ loader'[w] \in Loader /\ loader'[w].phase = loader[w].phase
             /\ loader'[w].forced = loader[w].forced /\ loader'[w].fresh = loader[w].fresh
             /\ loader'[w].era = loader[w].era /\ loader'[w].pages = loader[w].pages
             /\ loader'[w].since = loader[w].since /\ loader'[w].result = loader[w].result
             /\ loader'[w].told = Sooner(loader[w].told)
  <2>1. /\ loader[w] \in Loader /\ Sooner(loader[w].deadline) \in Nat
        /\ Sooner(loader[w].told) \in Nat
    BY <1>1 DEF Loader, Sooner
  <2>2. loader'[w] = [loader[w] EXCEPT !.deadline = Sooner(loader[w].deadline),
                                       !.told = Sooner(loader[w].told)]
    BY DEF Tick
  <2> QED
    BY <2>1, <2>2 DEF Loader
<1>4. \A w \in Workers : loader[w].told \in Nat
  BY <1>1 DEF Loader
<1>5. TypeOK'
  <2>1. loader' \in [Workers -> Loader]
    BY <1>3 DEF Tick
  <2>2. cooldown' \in Nat
    BY <1>1, SoonerKeepsOrder
  <2> QED
    BY <1>1, <1>2, <1>3, <2>1, <2>2 DEF IInv, TypeOK
<1>6. SnapshotIsWhole'
  BY <1>1, <1>2 DEF IInv, SnapshotIsWhole
<1>7. FetchesAfterLastClear' /\ FetchesForAReason' /\ PagesInOrder' /\ CallsBeganInThePast'
  BY <1>1, <1>3 DEF IInv, FetchesAfterLastClear, FetchesForAReason, PagesInOrder,
                    CallsBeganInThePast
<1>8. CooldownCoversAll' /\ PostsAfterTheWait'
  BY <1>1, <1>3, <1>4, SoonerKeepsOrder DEF IInv, CooldownCoversAll, PostsAfterTheWait
<1>9. ServedIsComplete' /\ ServedIsFresh' /\ ServedIsNotCleared'
  BY <1>3 DEF IInv, ServedIsComplete, ServedIsFresh, ServedIsNotCleared, Served
<1> QED
  BY <1>5, <1>6, <1>7, <1>8, <1>9 DEF IInv

LEMMA NextIInv == IInv /\ [Next]_vars => IInv'
<1> SUFFICES ASSUME IInv, [Next]_vars PROVE IInv'
  OBVIOUS
<1>1. ASSUME NEW w \in Workers,
             \/ \E forced \in BOOLEAN : LoadIndex(w, forced)
             \/ LoaderStep(w)
             \/ ReceiveError(w) \/ Crash(w)
      PROVE  IInv'
  BY <1>1, LoadStep, LockStep, StoreStep, EndStep, PhaseStep, PageStep, RecordStep DEF LoaderStep
<1>2. CASE UNCHANGED vars
  BY <1>2 DEF vars, IInv, TypeOK, SnapshotIsWhole, FetchesAfterLastClear, FetchesForAReason,
              PagesInOrder, CallsBeganInThePast, CooldownCoversAll, PostsAfterTheWait,
              ServedIsComplete, ServedIsFresh, ServedIsNotCleared, Served
<1> QED
  BY <1>1, <1>2, ClearStep, OtherStep, TickStep DEF Next

LEMMA InitIInv == Init => IInv
<1> SUFFICES ASSUME Init PROVE IInv
  OBVIOUS
<1>1. TypeOK
  BY SomePages, Bounds, NobodyIsNoWorker DEF Init, TypeOK, Loader, Phases
<1> QED
  BY <1>1, SomePages, Bounds, NobodyIsNoWorker
     DEF Init, IInv, SnapshotIsWhole, FetchesAfterLastClear, FetchesForAReason, PagesInOrder,
         CallsBeganInThePast, CooldownCoversAll, PostsAfterTheWait, ServedIsComplete,
         ServedIsFresh, ServedIsNotCleared, Served

LEMMA Inductive == Spec => []IInv
  BY InitIInv, NextIInv, PTL DEF Spec

-----------------------------------------------------------------------------
(* The theorems *)

(* reference_index_snapshots is locked by exactly the worker that fetches, whatever
   calls fail, crash or are answered from the snapshot. *)
THEOREM SharedTypes == Spec => []TypeOK
<1>1. IInv => TypeOK
  BY DEF IInv
<1> QED
  BY <1>1, Inductive, PTL

(* load_index never returns parts of a board. *)
THEOREM OnlyWholeBoardsServed == Spec => []ServedIsComplete
<1>1. IInv => ServedIsComplete
  BY DEF IInv
<1> QED
  BY <1>1, Inductive, PTL

(* load_index never returns an expired snapshot, also not after a wait for the lock. *)
THEOREM OnlyFreshServed == Spec => []ServedIsFresh
<1>1. IInv => ServedIsFresh
  BY DEF IInv
<1> QED
  BY <1>1, Inductive, PTL

(* A refresh that was under way cannot bring back, for later calls, what clear removed. *)
THEOREM ClearedIsNotServed == Spec => []ServedIsNotCleared
<1>1. IInv => ServedIsNotCleared
  BY DEF IInv
<1> QED
  BY <1>1, Inductive, PTL

(* The second look under the row lock: an unforced refresh replaces no snapshot that
   was fresh when it began to fetch. *)
THEOREM OneRefreshForAll == Spec => RefreshIsShared
<1>1. IInv => (\A w \in Workers : lock = w /\ snapshot' # snapshot /\ snapshot'.pages # 0
                  => loader[w].forced \/ ~loader[w].fresh)
  BY DEF IInv, FetchesForAReason
<1>2. IInv => [\A w \in Workers : lock = w /\ snapshot' # snapshot /\ snapshot'.pages # 0
                  => loader[w].forced \/ ~loader[w].fresh]_vars
  BY <1>1
<1> QED
  BY <1>2, Inductive, PTL DEF Spec, RefreshIsShared

(* CooldownExtended keeps the longest deadline and _post_measured looks at it before
   every page: no worker posts before the time it was told to wait is over. *)
THEOREM DeadlinesAreKept == Spec => DeadlineIsKept
<1>1. IInv => (\A w \in Workers : loader[w].phase = "post" /\ loader'[w].phase = "sent"
                  => loader[w].told = 0)
  BY DEF IInv, PostsAfterTheWait
<1>2. IInv => [\A w \in Workers : loader[w].phase = "post" /\ loader'[w].phase = "sent"
                  => loader[w].told = 0]_vars
  BY <1>1
<1> QED
  BY <1>2, Inductive, PTL DEF Spec, DeadlineIsKept
=============================================================================
