----------------------------- MODULE Publication -----------------------------
(***************************************************************************)
(* publish_sales_item: the attempts of one job at its publishing           *)
(* checkpoint, against Monday and the people who edit the same two         *)
(* columns.  Reads, the mutation, its reply and the final commit are       *)
(* separate steps; a request can be lost, answered late or applied after   *)
(* its sender gave up; an attempt whose lease was recovered goes on as a   *)
(* zombie until it tries to commit.                                        *)
(***************************************************************************)
EXTENDS Naturals

CONSTANTS
    Attempts,    \* runs of the publication stage, in no order
    Candidates,  \* the columns for which the job has an id to publish
    Own,         \* that id: the label or Account the job found
    Others,      \* ids people may choose instead
    Nobody,      \* no attempt holds the lease
    MaxEdits     \* bound: edits people make

Columns == {"postcode", "accounts"}   \* postcode_label, the Accounts relation
Ids == Others \union {Own}

ASSUME CandidateColumns == Candidates \subseteq Columns
ASSUME OwnIsNoOther == Own \notin Others
ASSUME NobodyIsNoAttempt == Nobody \notin Attempts
ASSUME EditBound == MaxEdits \in Nat

Decisions == {"no_candidate", "already_set", "preserved_existing", "account_ineligible",
              "write"}    \* "write" is None in the code: the column will be written
Outcomes == Decisions \union {"published"}
Undecided == [c \in Columns |-> "write"]

Attempt == [phase : {"unused", "read", "reread", "send", "sent", "confirm", "stale",
                     "commit", "ended"},
            outcome : [Columns -> Outcomes],
            request : {"none", "flying", "applied", "lost"},
            written : SUBSET Columns,
            late : SUBSET Columns,     \* history: edited since the deciding read
            since : SUBSET Columns]    \* history: edited since the confirming read

VARIABLES
    column,   \* Monday: the ids each column holds
    current,  \* Monday: the item is eligible and still has the job's input
    attempt,
    job,      \* "publishing", "completed" or "superseded", and who holds the lease
    edits

vars == <<column, current, attempt, job, edits>>

\* Type invariant; a completed job has decided every column.
TypeOK ==
    /\ column \in [Columns -> SUBSET Ids]
    /\ current \in BOOLEAN
    /\ attempt \in [Attempts -> Attempt]
    /\ job \in [status : {"publishing", "superseded"}, owner : Attempts \union {Nobody}]
               \union [status : {"completed"}, owner : Attempts]
    /\ edits \in 0 .. MaxEdits
    /\ job.status = "completed" => \A c \in Columns : attempt[job.owner].outcome[c] # "write"

Init ==
    /\ column \in [Columns -> SUBSET Ids]
    /\ current = TRUE
    /\ attempt = [a \in Attempts |-> [phase |-> "unused", outcome |-> Undecided,
                                      request |-> "none", written |-> {},
                                      late |-> {}, since |-> {}]]
    /\ job = [status |-> "publishing", owner |-> Nobody]
    /\ edits = 0

-----------------------------------------------------------------------------
(* The attempts *)

\* The job is claimed, for the first time or after a retry or a lease recovery.
Begin(a) ==
    /\ attempt[a].phase = "unused"
    /\ job.status = "publishing"
    /\ attempt' = [attempt EXCEPT ![a].phase = "read"]
    /\ job' = [job EXCEPT !.owner = a]
    /\ UNCHANGED <<column, current, edits>>

DecisionIgnoringOthers(c, existing, eligible) ==
    IF c \notin Candidates THEN "no_candidate"
    ELSE IF Own \in existing THEN "already_set"
    ELSE IF c = "accounts" /\ ~eligible THEN "account_ineligible"
    ELSE "write"

\* _decide_column
Decision(c, existing, eligible) ==
    IF c \notin Candidates THEN "no_candidate"
    ELSE IF Own \in existing THEN "already_set"
    ELSE IF existing # {} THEN "preserved_existing"
    ELSE IF c = "accounts" /\ ~eligible THEN "account_ineligible"
    ELSE "write"

\* From the columns just read, and whether the Account read with them is eligible.
Decide(a, eligible) ==
    LET outcome == [c \in Columns |-> Decision(c, column[c], eligible)]
        writes  == {c \in Columns : outcome[c] = "write"}
    IN  attempt' = [attempt EXCEPT ![a] = [@ EXCEPT
            !.phase = IF writes = {} THEN "commit" ELSE "send",
            !.outcome = outcome, !.written = writes, !.late = {}, !.since = {}]]

TurnsStale(a) == attempt' = [attempt EXCEPT ![a].phase = "stale"]

\* The Account candidate still has to be read, together with the item once more.
NeedsAccount == "accounts" \in Candidates /\ column["accounts"] = {}

\* The first read; it includes the Account if the matching stage saw the relation
\* empty (account_relation_populated is False).
Read(a) ==
    /\ attempt[a].phase = "read"
    /\ \E withAccount, eligible \in BOOLEAN :
          IF ~current THEN TurnsStale(a)
          ELSE IF NeedsAccount /\ ~withAccount
               THEN attempt' = [attempt EXCEPT ![a].phase = "reread"]
               ELSE Decide(a, eligible)
    /\ UNCHANGED <<column, current, job, edits>>

Reread(a) ==
    /\ attempt[a].phase = "reread"
    /\ \E eligible \in BOOLEAN : IF current THEN Decide(a, eligible) ELSE TurnsStale(a)
    /\ UNCHANGED <<column, current, job, edits>>

\* The publication gate is open and the mutation is posted.
Send(a) ==
    /\ attempt[a].phase = "send"
    /\ attempt' = [attempt EXCEPT ![a].phase = "sent", ![a].request = "flying"]
    /\ UNCHANGED <<column, current, job, edits>>

\* The reply says the item was changed.
Reply(a) ==
    /\ attempt[a].phase = "sent" /\ attempt[a].request = "applied"
    /\ attempt' = [attempt EXCEPT ![a].phase = "confirm"]
    /\ UNCHANGED <<column, current, job, edits>>

\* ConnectionError, Timeout or a transient error without retry_at: whether the
\* mutation was or will be applied is unknown, and the post-read decides.
AmbiguousReply(a) ==
    /\ attempt[a].phase = "sent"
    /\ attempt' = [attempt EXCEPT ![a].phase = "confirm"]
    /\ UNCHANGED <<column, current, job, edits>>

ReconciledByReply(a, c) ==
    IF attempt[a].outcome[c] # "write" THEN attempt[a].outcome[c]
    ELSE IF Own \in column[c] \/ attempt[a].request = "applied" THEN "published"
    ELSE IF column[c] # {} THEN "preserved_existing"
    ELSE "write"

\* _reconcile_column; "write" is an unconfirmed column
Reconciled(a, c) ==
    IF attempt[a].outcome[c] # "write" THEN attempt[a].outcome[c]
    ELSE IF Own \in column[c] THEN "published"
    ELSE IF column[c] # {} THEN "preserved_existing"
    ELSE "write"

\* The post-read.  An unconfirmed column raises the mutation's error or
\* PublicationNotConfirmedError, which ends the attempt.
Confirm(a) ==
    /\ attempt[a].phase = "confirm"
    /\ LET outcome == [c \in Columns |-> Reconciled(a, c)]
       IN  IF ~current THEN TurnsStale(a)
           ELSE IF \E c \in Columns : outcome[c] = "write"
                THEN attempt' = [attempt EXCEPT ![a].phase = "ended"]
                ELSE attempt' = [attempt EXCEPT ![a] = [@ EXCEPT
                        !.phase = "commit", !.outcome = outcome, !.since = {}]]
    /\ UNCHANGED <<column, current, job, edits>>

CommitByAnyone(a) ==
    /\ attempt[a].phase = "commit"
    /\ attempt' = [attempt EXCEPT ![a].phase = "ended"]
    /\ job' = [status |-> "completed", owner |-> job.owner]
    /\ UNCHANGED <<column, current, edits>>

\* The final transaction of _run_publication_stage: it completes the job, unless
\* another attempt owns the job by now (JobLeaseError).
Commit(a) ==
    /\ attempt[a].phase = "commit"
    /\ attempt' = [attempt EXCEPT ![a].phase = "ended"]
    /\ job' = IF job = [status |-> "publishing", owner |-> a]
              THEN [status |-> "completed", owner |-> a] ELSE job
    /\ UNCHANGED <<column, current, edits>>

\* The same transaction finds that a newer input was taken in meanwhile.
CommitSuperseded(a) ==
    /\ attempt[a].phase = "commit"
    /\ job = [status |-> "publishing", owner |-> a]
    /\ TurnsStale(a)
    /\ UNCHANGED <<column, current, job, edits>>

\* StalePublicationError: the owner replaces the job by one for the present input.
Replace(a) ==
    /\ attempt[a].phase = "stale"
    /\ attempt' = [attempt EXCEPT ![a].phase = "ended"]
    /\ job' = IF job = [status |-> "publishing", owner |-> a]
              THEN [status |-> "superseded", owner |-> Nobody] ELSE job
    /\ UNCHANGED <<column, current, edits>>

\* Every other error: a closed gate, a refusal or a cooldown of Monday, a crash.  The
\* job stays at its checkpoint, and the next attempt starts from a read.
Fail(a) ==
    /\ attempt[a].phase \notin {"unused", "ended"}
    /\ attempt' = [attempt EXCEPT ![a].phase = "ended"]
    /\ UNCHANGED <<column, current, job, edits>>

-----------------------------------------------------------------------------
(* Monday and its users *)

Apply(a) ==
    /\ attempt[a].request = "flying"
    /\ column' = [c \in Columns |-> IF c \in attempt[a].written THEN {Own} ELSE column[c]]
    /\ attempt' = [attempt EXCEPT ![a].request = "applied"]
    /\ UNCHANGED <<current, job, edits>>

Lose(a) ==
    /\ attempt[a].request = "flying"
    /\ attempt' = [attempt EXCEPT ![a].request = "lost"]
    /\ UNCHANGED <<column, current, job, edits>>

Edit(c, ids) ==
    /\ edits < MaxEdits /\ edits' = edits + 1
    /\ column[c] # ids
    /\ column' = [column EXCEPT ![c] = ids]
    /\ attempt' = [a \in Attempts |-> [attempt[a] EXCEPT !.late = @ \union {c},
                                                         !.since = @ \union {c}]]
    /\ UNCHANGED <<current, job>>

\* The email, the board, the group or the state of the item changes, or changes back.
ChangeInput ==
    /\ current' = ~current
    /\ UNCHANGED <<column, attempt, job, edits>>

Next ==
    \/ \E a \in Attempts :
          \/ Begin(a) \/ Read(a) \/ Reread(a) \/ Send(a)
          \/ Reply(a) \/ AmbiguousReply(a) \/ Confirm(a)
          \/ Commit(a) \/ CommitSuperseded(a) \/ Replace(a) \/ Fail(a)
          \/ Apply(a) \/ Lose(a)
    \/ \E c \in Columns, ids \in SUBSET Ids : Edit(c, ids)
    \/ ChangeInput

Spec == Init /\ [][Next]_vars

-----------------------------------------------------------------------------
(* Properties *)

Overwrites(a, c) == /\ attempt[a].request = "flying" /\ attempt'[a].request = "applied"
                    /\ column[c] \ {Own} # {} /\ column'[c] # column[c]

\* A mutation replaces other ids only if people put them there after the read on which
\* the attempt decided it: retries, resumed checkpoints, zombies and requests that
\* arrive late never destroy what the deciding read has shown.  (A request that is
\* applied only after the confirming read is counted from the deciding one too.)
OverwritesOnlyLateEdits ==
    [][\A a \in Attempts, c \in Columns : Overwrites(a, c) => c \in attempt[a].late]_vars

\* What a completed job reports as published is on the Sales item, unless somebody
\* has edited the column since the post-read, even with requests of abandoned
\* attempts still under way and after lost or unclear replies.
PublishedIsThere ==
    job.status = "completed" =>
        \A c \in Columns \ attempt[job.owner].since :
            attempt[job.owner].outcome[c] = "published" => Own \in column[c]

\* A job that was completed or superseded stays so, whatever zombies still do.
OutcomeIsFinal == [][job.status # "publishing" => UNCHANGED job]_vars
=============================================================================
