---------------------------- MODULE SharedServices ----------------------------
(***************************************************************************)
(* What all worker processes share besides the queue: the index of one     *)
(* reference board (Accounts or Contacts) in reference_index_snapshots,    *)
(* refreshed page by page under a row lock, and the cooldown of Monday in  *)
(* monday_cooldowns, which every request for a page respects and which is  *)
(* committed apart from the refresh that ran into it.                      *)
(***************************************************************************)
EXTENDS Naturals

CONSTANTS
    Workers,
    Pages,       \* the pages of the board, always read in cursor order
    TTL,         \* cache_ttl_seconds, in ticks
    Delays,      \* in ticks, for which Monday may ask
    Nobody,      \* the snapshot's row is not locked
    MaxClears,   \* bound: cache clears
    MaxFaults    \* bound: crashes, errors without a deadline, cooldowns of other clients

ASSUME SomePages == Pages \in Nat \ {0}
ASSUME Durations == TTL \in Nat /\ Delays \subseteq Nat
ASSUME NobodyIsNoWorker == Nobody \notin Workers
ASSUME Bounds == MaxClears \in Nat /\ MaxFaults \in Nat

\* payload_json and refreshed_at of the row, which is kept as an age, cut off where
\* the snapshot has expired.  era is history: how many times the cache had been
\* cleared when the refresh began.
Ages == 0 .. TTL
Empty == [pages |-> 0]
Snapshot == [pages : 0 .. Pages, age : Ages, era : 0 .. MaxClears]

\* A call of load_index.  deadline: the wait Monday's last answer asks for.  History:
\* since, how often the cache had been cleared when the call began; fresh, whether the
\* snapshot was fresh when the call began to fetch; era, as in Snapshot; result, what
\* the last call returned; told, how long this worker still has to wait.
Phases == {"idle", "lock", "check", "post", "sent", "limited", "failed", "store"}
Loader == [phase : Phases, forced : BOOLEAN, pages : 0 .. Pages, deadline : Nat,
           since : 0 .. MaxClears, fresh : BOOLEAN, era : 0 .. MaxClears,
           result : {Empty} \union Snapshot, told : Nat]

VARIABLES
    snapshot, lock,
    cooldown,        \* retry_at as the time until then; 0 also stands for no row
    loader, clears, faults

vars == <<snapshot, lock, cooldown, loader, clears, faults>>

\* Type invariant; the row is locked exactly while one worker fetches.
TypeOK ==
    /\ snapshot \in {Empty} \union Snapshot
    /\ lock \in Workers \union {Nobody}
    /\ cooldown \in Nat
    /\ loader \in [Workers -> Loader]
    /\ clears \in 0 .. MaxClears /\ faults \in 0 .. MaxFaults
    /\ \A w \in Workers : loader[w].phase \notin {"idle", "lock"} <=> lock = w

Init ==
    /\ snapshot = Empty /\ lock = Nobody
    /\ cooldown = 0
    /\ loader = [w \in Workers |->
          [phase |-> "idle", forced |-> FALSE, pages |-> 0, deadline |-> 0, since |-> 0,
           fresh |-> FALSE, era |-> 0, result |-> Empty, told |-> 0]]
    /\ clears = 0 /\ faults = 0

-----------------------------------------------------------------------------
(* load_index *)

FreshAtExpiry == snapshot # Empty /\ snapshot.age <= TTL

\* _fresh, with the database clock of the moment
Fresh == snapshot # Empty /\ snapshot.age < TTL

\* The transaction ends with an index for the caller, or without one.
Ended(w, result) ==
    [loader EXCEPT ![w] = [@ EXCEPT !.phase = "idle", !.forced = FALSE, !.pages = 0,
                                    !.deadline = 0, !.fresh = FALSE, !.era = 0,
                                    !.result = result]]

LockKept(w) == lock

Unlocked(w) == IF lock = w THEN Nobody ELSE lock

\* A fresh snapshot is returned without a lock.
LoadIndex(w, forced) ==
    /\ loader[w].phase = "idle"
    /\ loader' = [IF ~forced /\ Fresh THEN Ended(w, snapshot)
                  ELSE [loader EXCEPT ![w].phase = "lock", ![w].forced = forced,
                                      ![w].result = Empty]
                  EXCEPT ![w].since = clears]
    /\ UNCHANGED <<snapshot, lock, cooldown, clears, faults>>

\* fetch_index begins.
Fetching(w) == [loader EXCEPT ![w].phase = "check", ![w].era = clears, ![w].fresh = Fresh]

LockWithoutLooking(w) ==
    /\ loader[w].phase = "lock"
    /\ lock = Nobody
    /\ lock' = w
    /\ loader' = Fetching(w)
    /\ UNCHANGED <<snapshot, cooldown, clears, faults>>

\* _lock_snapshot, then the second look: another worker may have refreshed.
LockSnapshot(w) ==
    /\ loader[w].phase = "lock"
    /\ lock = Nobody
    /\ IF ~loader[w].forced /\ Fresh
       THEN loader' = Ended(w, snapshot) /\ UNCHANGED lock
       ELSE lock' = w /\ loader' = Fetching(w)
    /\ UNCHANGED <<snapshot, cooldown, clears, faults>>

\* The refresh is committed with the time at its end.
StoreIndex(w) ==
    /\ loader[w].phase = "store"
    /\ snapshot' = [pages |-> loader[w].pages, age |-> 0, era |-> loader[w].era]
    /\ loader' = Ended(w, snapshot')
    /\ lock' = Unlocked(w)
    /\ UNCHANGED <<cooldown, clears, faults>>

RollBackButKeepPages(w) ==
    /\ loader[w].phase = "failed"
    /\ snapshot' = [pages |-> loader[w].pages, age |-> 0, era |-> loader[w].era]
    /\ loader' = Ended(w, Empty)
    /\ lock' = Unlocked(w)
    /\ UNCHANGED <<cooldown, clears, faults>>

\* An error on any page ends the transaction; the old snapshot stays.
RollBack(w) ==
    /\ loader[w].phase = "failed"
    /\ loader' = Ended(w, Empty)
    /\ lock' = Unlocked(w)
    /\ UNCHANGED <<snapshot, cooldown, clears, faults>>

\* PostgreSQL releases the row lock of a connection that is gone.
Crash(w) ==
    /\ loader[w].phase # "idle"
    /\ faults < MaxFaults /\ faults' = faults + 1
    /\ loader' = Ended(w, Empty)
    /\ lock' = Unlocked(w)
    /\ UNCHANGED <<snapshot, cooldown, clears>>

ClearUnlocked ==
    /\ clears < MaxClears /\ clears' = clears + 1
    /\ snapshot' = Empty
    /\ UNCHANGED <<lock, cooldown, loader, faults>>

\* clear waits for the row lock and commits.
Clear ==
    /\ lock = Nobody
    /\ clears < MaxClears /\ clears' = clears + 1
    /\ snapshot' = Empty
    /\ UNCHANGED <<lock, cooldown, loader, faults>>

-----------------------------------------------------------------------------
(* _post_measured, once for every page *)

CheckCooldown(w) ==
    /\ loader[w].phase = "check"
    /\ loader' = [loader EXCEPT ![w].phase = IF cooldown > 0 THEN "failed" ELSE "post"]
    /\ UNCHANGED <<snapshot, lock, cooldown, clears, faults>>

Post(w) ==
    /\ loader[w].phase = "post"
    /\ loader' = [loader EXCEPT ![w].phase = "sent"]
    /\ UNCHANGED <<snapshot, lock, cooldown, clears, faults>>

\* A page arrives; its cursor leads to the next, or is null.
ReceivePage(w) ==
    /\ loader[w].phase = "sent"
    /\ loader' = [loader EXCEPT
                    ![w].pages = @ + 1,
                    ![w].phase = IF loader[w].pages + 1 = Pages THEN "store" ELSE "check"]
    /\ UNCHANGED <<snapshot, lock, cooldown, clears, faults>>

\* A limit or a temporary failure, with the deadline of response_error.
ReceiveLimit(w) ==
    /\ loader[w].phase = "sent"
    /\ \E delay \in Delays :
          loader' = [loader EXCEPT ![w].phase = "limited", ![w].deadline = delay]
    /\ UNCHANGED <<snapshot, lock, cooldown, clears, faults>>

\* Any other error of the request or of its contents.
ReceiveError(w) ==
    /\ loader[w].phase = "sent"
    /\ faults < MaxFaults /\ faults' = faults + 1
    /\ loader' = [loader EXCEPT ![w].phase = "failed"]
    /\ UNCHANGED <<snapshot, lock, cooldown, clears>>

Longer(d1, d2) == IF d1 < d2 THEN d2 ELSE d1

CooldownReplaced(deadline) == cooldown' = deadline

\* record: an upsert in a transaction of its own, of a deadline that is still ahead.
CooldownExtended(deadline) == cooldown' = Longer(cooldown, deadline)

RecordCooldown(w) ==
    /\ loader[w].phase = "limited"
    /\ CooldownExtended(loader[w].deadline)
    /\ loader' = [loader EXCEPT ![w].phase = "failed",
                                ![w].told = Longer(@, loader[w].deadline)]
    /\ UNCHANGED <<snapshot, lock, clears, faults>>

\* Another client of Monday, not for this index, is told to wait.
OtherCooldown ==
    /\ faults < MaxFaults /\ faults' = faults + 1
    /\ \E delay \in Delays : CooldownExtended(delay)
    /\ UNCHANGED <<snapshot, lock, loader, clears>>

Sooner(time) == IF time = 0 THEN 0 ELSE time - 1

Older(row) == IF row = Empty \/ row.age = TTL THEN row ELSE [row EXCEPT !.age = @ + 1]

Tick ==
    /\ snapshot' = Older(snapshot)
    /\ cooldown' = Sooner(cooldown)
    /\ loader' = [w \in Workers |-> [loader[w] EXCEPT !.deadline = Sooner(@),
                                                     !.told = Sooner(@)]]
    /\ UNCHANGED <<lock, clears, faults>>

-----------------------------------------------------------------------------
LoaderStep(w) ==
    \/ LockSnapshot(w) \/ StoreIndex(w) \/ RollBack(w)
    \/ CheckCooldown(w) \/ Post(w)
    \/ ReceivePage(w) \/ ReceiveLimit(w) \/ RecordCooldown(w)

Next ==
    \/ \E w \in Workers :
          \/ \E forced \in BOOLEAN : LoadIndex(w, forced)
          \/ LoaderStep(w)
          \/ ReceiveError(w) \/ Crash(w)
    \/ Clear
    \/ OtherCooldown
    \/ Tick

\* Processes run and Monday or the request timeout answers.  PostgreSQL queues the
\* waiters of a row lock, so that nobody waits for ever: strong fairness.
Fairness == \A w \in Workers : WF_vars(LoaderStep(w)) /\ SF_vars(LockSnapshot(w))

Spec == Init /\ [][Next]_vars /\ Fairness

-----------------------------------------------------------------------------
(* Properties *)

Served(w) == loader[w].result # Empty

\* Nobody is served parts of a board, even if a refresh failed, was cut off by a
\* cooldown or died between two pages: "A failed refresh rolls back without
\* publishing partial data" (README.md:196-197).
ServedIsComplete == \A w \in Workers : Served(w) => loader[w].result.pages = Pages

\* Nobody is served an expired snapshot, however long he waited for the lock; reads,
\* restarts and the work of others do not extend the window (README.md:195-197).
\* An index of age 0 may be the call's own.
ServedIsFresh ==
    \A w \in Workers : Served(w) => loader[w].result.age < TTL \/ loader[w].result.age = 0

\* A call that began after a clear is not served anything a refresh read before it:
\* no refresh that was under way brings the cleared index back.
ServedIsNotCleared == \A w \in Workers : Served(w) => loader[w].since <= loader[w].result.era

\* "One worker refreshes all pages under a database row lock; other workers reuse
\* its complete snapshot" (README.md:193-194): an unforced refresh never replaces a
\* snapshot that was fresh when the refresh began, though many miss at once.
RefreshIsShared ==
    [][\A w \in Workers : lock = w /\ snapshot' # snapshot /\ snapshot'.pages # 0
          => loader[w].forced \/ ~loader[w].fresh]_vars

\* A worker that was told to wait sends no further request before that deadline,
\* whatever shorter deadlines the other processes are told and record later, and
\* although the refresh that met the limit is rolled back (README.md:294-301).
DeadlineIsKept ==
    [][\A w \in Workers : loader[w].phase = "post" /\ loader'[w].phase = "sent"
          => loader[w].told = 0]_vars

\* Every call returns or fails: crashes leave no lock behind, and waiting for a
\* cooldown is never done under the lock.
EveryLoadEnds == \A w \in Workers : loader[w].phase # "idle" ~> loader[w].phase = "idle"
=============================================================================
