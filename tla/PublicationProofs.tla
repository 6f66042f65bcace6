-------------------------- MODULE PublicationProofs --------------------------
(***************************************************************************)
(* What Publication states holds for every set of attempts and every       *)
(* candidate, however many edits people make.                              *)
(*                                                                         *)
(* No property is inductive by itself.  IInv adds what an attempt may rely *)
(* on at each phase: a mutation that is still to be applied can only meet  *)
(* an empty column, the job's own id or a late edit (WritesWereEmpty), and *)
(* what is about to be committed is decided (CommitsAreDecided) and was    *)
(* seen on Monday (PublishedWasSeen).                                      *)
(***************************************************************************)
EXTENDS Publication, TLAPS

\* The phases before an attempt has posted its mutation, and before it has an outcome.
Reading == {"unused", "read", "reread"}
Unposted == Reading \union {"send"}
Undetermined == Unposted \union {"sent", "confirm"}

UnpostedHasNoRequest ==
    \A a \in Attempts : attempt[a].phase \in Unposted => attempt[a].request = "none"

UndeterminedPublishesNothing ==
    \A a \in Attempts, c \in Columns :
        attempt[a].phase \in Undetermined => attempt[a].outcome[c] # "published"

CommitsAreDecided ==
    \A a \in Attempts, c \in Columns :
        attempt[a].phase = "commit" => attempt[a].outcome[c] # "write"

\* The mutation of a is, or may yet be, on its way.
WillWrite(a) == attempt[a].phase = "send" \/ attempt[a].request = "flying"

WritesWereEmpty ==
    \A a \in Attempts : WillWrite(a) =>
        \A c \in attempt[a].written : column[c] \subseteq {Own} \/ c \in attempt[a].late

\* a is about to commit, or it has completed the job.
Commits(a) == attempt[a].phase = "commit" \/ job = [status |-> "completed", owner |-> a]

PublishedWasSeen ==
    \A a \in Attempts, c \in Columns :
        Commits(a) /\ attempt[a].outcome[c] = "published" =>
            Own \in column[c] \/ c \in attempt[a].since

\* Who has completed the job does nothing more.
CompletedHasEnded ==
    job.status = "completed" => attempt[job.owner].phase = "ended"

IInv ==
    /\ TypeOK
    /\ UnpostedHasNoRequest
    /\ UndeterminedPublishesNothing
    /\ CommitsAreDecided
    /\ WritesWereEmpty
    /\ PublishedWasSeen
    /\ CompletedHasEnded

-----------------------------------------------------------------------------
(* One attempt at a time *)

LEMMA InitIInv == Init => IInv
<1> SUFFICES ASSUME Init PROVE IInv
  OBVIOUS
<1>1. Undecided \in [Columns -> Outcomes]
  BY DEF Undecided, Outcomes, Decisions
<1>2. TypeOK
  BY <1>1, EditBound DEF Init, TypeOK, Attempt
<1> QED
  BY <1>2 DEF Init, IInv, UnpostedHasNoRequest, UndeterminedPublishesNothing, CommitsAreDecided,
              WritesWereEmpty, WillWrite, PublishedWasSeen, Commits, CompletedHasEnded,
              Unposted, Reading, Undetermined, Undecided

\* What the row r of an attempt may be, given what Monday shows.
RowOK(r) ==
    /\ r \in Attempt
    /\ r.phase \in Unposted => r.request = "none"
    /\ r.phase \in Undetermined => \A c \in Columns : r.outcome[c] # "published"
    /\ r.phase = "commit" => \A c \in Columns : r.outcome[c] # "write"
    /\ r.phase = "send" \/ r.request = "flying" =>
          \A c \in r.written : column[c] \subseteq {Own} \/ c \in r.late
    /\ r.phase = "commit" =>
          \A c \in Columns : r.outcome[c] = "published" => Own \in column[c] \/ c \in r.since

LEMMA RowsAreOK == ASSUME IInv, NEW a \in Attempts PROVE RowOK(attempt[a])
  BY DEF IInv, TypeOK, RowOK, UnpostedHasNoRequest, UndeterminedPublishesNothing,
         CommitsAreDecided, WritesWereEmpty, WillWrite, PublishedWasSeen, Commits

\* A step of one attempt at which neither Monday nor the job changes.
LEMMA AttemptStep ==
    ASSUME IInv, NEW a \in Attempts, NEW r, RowOK(r),
           attempt[a].phase # "ended" \/ [r EXCEPT !.request = attempt[a].request] = attempt[a],
           attempt' = [attempt EXCEPT ![a] = r],
           UNCHANGED <<column, current, job, edits>>
    PROVE  IInv'
<1>1. /\ attempt'[a] = r /\ \A b \in Attempts \ {a} : attempt'[b] = attempt[b]
      /\ attempt' \in [Attempts -> Attempt]
  BY DEF IInv, TypeOK, RowOK
<1>2. job.status = "completed" /\ job.owner = a =>
         /\ r.phase = attempt[a].phase /\ r.outcome = attempt[a].outcome
         /\ r.since = attempt[a].since
  BY DEF IInv, CompletedHasEnded, TypeOK, Attempt, RowOK
<1>3. TypeOK'
  BY <1>1, <1>2 DEF IInv, TypeOK
<1>4. UnpostedHasNoRequest'
  BY <1>1 DEF IInv, UnpostedHasNoRequest, RowOK
<1>5. UndeterminedPublishesNothing'
  BY <1>1 DEF IInv, UndeterminedPublishesNothing, RowOK
<1>6. CommitsAreDecided'
  BY <1>1 DEF IInv, CommitsAreDecided, RowOK
<1>7. WritesWereEmpty'
  BY <1>1 DEF IInv, WritesWereEmpty, WillWrite, RowOK
<1>8. PublishedWasSeen'
  BY <1>1, <1>2 DEF IInv, PublishedWasSeen, Commits, RowOK
<1>9. CompletedHasEnded'
  BY <1>1, <1>2 DEF IInv, CompletedHasEnded, TypeOK
<1> QED
  BY <1>3, <1>4, <1>5, <1>6, <1>7, <1>8, <1>9 DEF IInv

\* What a decision leaves to be written is empty, and nothing is published yet.
LEMMA DecideStep ==
    ASSUME IInv, NEW a \in Attempts, NEW eligible, Decide(a, eligible),
           attempt[a].phase \in {"read", "reread"},
           UNCHANGED <<column, current, job, edits>>
    PROVE  IInv'
<1> DEFINE outcome == [c \in Columns |-> Decision(c, column[c], eligible)]
           writes == {c \in Columns : outcome[c] = "write"}
           phase == IF writes = {} THEN "commit" ELSE "send"
           r == [attempt[a] EXCEPT !.phase = phase, !.outcome = outcome, !.written = writes,
                                   !.late = {}, !.since = {}]
<1>1. attempt[a] \in Attempt /\ attempt[a].request = "none"
  BY DEF IInv, TypeOK, UnpostedHasNoRequest, Unposted, Reading
<1>2. \A c \in Columns : /\ outcome[c] \in Outcomes /\ outcome[c] # "published"
                         /\ outcome[c] = "write" => column[c] = {}
  BY DEF Decision, Outcomes, Decisions
<1>3. outcome \in [Columns -> Outcomes] /\ phase \in {"commit", "send"}
  BY <1>2
<1> HIDE DEF outcome
<1>4. r \in Attempt
  BY <1>1, <1>3 DEF Attempt
<1>5. /\ r.phase = phase /\ r.outcome = outcome /\ r.written = writes
      /\ r.late = {} /\ r.request = "none"
  BY <1>1 DEF Attempt
<1>6. phase = "commit" => \A c \in Columns : outcome[c] # "write"
  OBVIOUS
<1>7. \A c \in writes : column[c] = {}
  BY <1>2
<1> HIDE DEF phase, writes, r
<1>8. RowOK(r)
  BY <1>2, <1>3, <1>4, <1>5, <1>6, <1>7 DEF RowOK
<1>9. attempt' = [attempt EXCEPT ![a] = r]
  BY DEF Decide, r, outcome, writes, phase
<1> QED
  BY <1>8, <1>9, AttemptStep

LEMMA ReadsStep ==
    ASSUME IInv, NEW a \in Attempts, Read(a) \/ Reread(a)
    PROVE  IInv'
<1>1. attempt[a].phase \in {"read", "reread"} /\ UNCHANGED <<column, current, job, edits>>
  BY DEF Read, Reread
<1>2. ASSUME NEW phase \in {"reread", "stale"}, attempt' = [attempt EXCEPT ![a].phase = phase]
      PROVE  IInv'
  <2> DEFINE r == [attempt[a] EXCEPT !.phase = phase]
  <2>1. RowOK(r)
    BY <1>1, RowsAreOK DEF RowOK, Attempt, Unposted, Reading, Undetermined
  <2> QED
    BY <1>1, <1>2, <2>1, AttemptStep
<1>3. \/ attempt' = [attempt EXCEPT ![a].phase = "stale"]
      \/ attempt' = [attempt EXCEPT ![a].phase = "reread"]
      \/ \E eligible : Decide(a, eligible)
  BY DEF Read, Reread, TurnsStale
<1> QED
  BY <1>1, <1>2, <1>3, DecideStep

LEMMA SendStep == ASSUME IInv, NEW a \in Attempts, Send(a) PROVE IInv'
<1> DEFINE r == [attempt[a] EXCEPT !.phase = "sent", !.request = "flying"]
<1>1. RowOK(r)
  BY RowsAreOK DEF Send, RowOK, Attempt, Unposted, Reading, Undetermined
<1>2. attempt' = [attempt EXCEPT ![a] = r]
  BY DEF Send
<1> QED
  BY <1>1, <1>2, AttemptStep DEF Send

LEMMA RepliesStep ==
    ASSUME IInv, NEW a \in Attempts, Reply(a) \/ AmbiguousReply(a)
    PROVE  IInv'
<1> DEFINE r == [attempt[a] EXCEPT !.phase = "confirm"]
<1>1. RowOK(r)
  BY RowsAreOK DEF Reply, AmbiguousReply, RowOK, Attempt, Unposted, Reading, Undetermined
<1>2. attempt' = [attempt EXCEPT ![a] = r]
  BY DEF Reply, AmbiguousReply
<1> QED
  BY <1>1, <1>2, AttemptStep DEF Reply, AmbiguousReply

\* What the post-read reports as published is there.
LEMMA ConfirmStep == ASSUME IInv, NEW a \in Attempts, Confirm(a) PROVE IInv'
<1> DEFINE outcome == [c \in Columns |-> Reconciled(a, c)]
           r == [attempt[a] EXCEPT !.phase = "commit", !.outcome = outcome, !.since = {}]
<1>1. /\ attempt[a].phase = "confirm" /\ UNCHANGED <<column, current, job, edits>>
      /\ attempt[a] \in Attempt /\ RowOK(attempt[a])
  BY RowsAreOK DEF Confirm, RowOK
<1>2. ASSUME NEW phase \in {"ended", "stale"}, attempt' = [attempt EXCEPT ![a].phase = phase]
      PROVE  IInv'
  <2> DEFINE s == [attempt[a] EXCEPT !.phase = phase]
  <2>1. RowOK(s)
    BY <1>1 DEF RowOK, Attempt, Unposted, Reading, Undetermined
  <2> QED
    BY <1>1, <1>2, <2>1, AttemptStep
<1>3. ASSUME \A c \in Columns : outcome[c] # "write", attempt' = [attempt EXCEPT ![a] = r]
      PROVE  IInv'
  <2>1. ASSUME NEW c \in Columns
        PROVE  outcome[c] \in Outcomes /\ (outcome[c] = "published" => Own \in column[c])
    <3>1. attempt[a].outcome[c] \in Outcomes /\ attempt[a].outcome[c] # "published"
      BY <1>1 DEF Attempt, RowOK, Undetermined
    <3> QED
      BY <3>1 DEF Reconciled, Outcomes, Decisions
  <2>2. outcome \in [Columns -> Outcomes]
    BY <2>1
  <2> HIDE DEF outcome
  <2>3. RowOK(r)
    BY <1>1, <1>3, <2>1, <2>2 DEF RowOK, Attempt, Unposted, Reading, Undetermined
  <2> QED
    BY <1>1, <1>3, <2>3, AttemptStep
<1>4. \/ attempt' = [attempt EXCEPT ![a].phase = "stale"]
      \/ attempt' = [attempt EXCEPT ![a].phase = "ended"]
      \/ (\A c \in Columns : outcome[c] # "write") /\ attempt' = [attempt EXCEPT ![a] = r]
  BY DEF Confirm, TurnsStale
<1> QED
  BY <1>2, <1>3, <1>4

LEMMA FailStep ==
    ASSUME IInv, NEW a \in Attempts, Fail(a) \/ CommitSuperseded(a)
    PROVE  IInv'
<1>1. PICK phase \in {"ended", "stale"} : attempt' = [attempt EXCEPT ![a].phase = phase]
  BY DEF Fail, CommitSuperseded, TurnsStale
<1> DEFINE r == [attempt[a] EXCEPT !.phase = phase]
<1>2. RowOK(r)
  BY RowsAreOK DEF RowOK, Attempt, Unposted, Reading, Undetermined
<1> QED
  BY <1>1, <1>2, AttemptStep DEF Fail, CommitSuperseded

\* A request can be lost after its attempt has ended, even after it completed the job.
LEMMA LoseStep == ASSUME IInv, NEW a \in Attempts, Lose(a) PROVE IInv'
<1> DEFINE r == [attempt[a] EXCEPT !.request = "lost"]
<1>1. attempt[a] \in Attempt
  BY DEF IInv, TypeOK
<1>2. RowOK(r)
  BY <1>1, RowsAreOK DEF Lose, RowOK, Attempt, Unposted, Reading, Undetermined
<1>3. [r EXCEPT !.request = attempt[a].request] = attempt[a]
  BY <1>1 DEF Attempt
<1>4. attempt' = [attempt EXCEPT ![a] = r]
  BY DEF Lose
<1> QED
  BY <1>2, <1>3, <1>4, AttemptStep DEF Lose

-----------------------------------------------------------------------------
(* The steps that change the job *)

\* The job moves as the attempt a does, which enters a phase without obligations.
LEMMA JobStep ==
    ASSUME IInv, NEW a \in Attempts, NEW phase \in {"read", "ended"},
           attempt' = [attempt EXCEPT ![a].phase = phase],
           phase = "read" => attempt[a].phase = "unused",
           \/ UNCHANGED job /\ (job.status = "completed" /\ job.owner = a => phase = "ended")
           \/ job.status = "publishing" /\ job' = [job EXCEPT !.owner = a]
           \/ job' = [status |-> "superseded", owner |-> Nobody]
           \/ /\ attempt[a].phase = "commit" /\ phase = "ended"
              /\ job' = [status |-> "completed", owner |-> a],
           UNCHANGED <<column, current, edits>>
    PROVE  IInv'
<1> DEFINE r == [attempt[a] EXCEPT !.phase = phase]
<1>1. RowOK(r) /\ attempt[a] \in Attempt
  BY RowsAreOK DEF RowOK, Attempt, Unposted, Reading, Undetermined
<1>2. /\ attempt'[a] = r /\ \A b \in Attempts \ {a} : attempt'[b] = attempt[b]
      /\ attempt' \in [Attempts -> Attempt]
      /\ r.outcome = attempt[a].outcome /\ r.since = attempt[a].since
      /\ r.written = attempt[a].written /\ r.request = attempt[a].request
      /\ r.late = attempt[a].late /\ r.phase = phase
  BY <1>1 DEF IInv, TypeOK, RowOK, Attempt
<1> HIDE DEF r
<1>3. /\ job' \in [status : {"publishing", "superseded"}, owner : Attempts \union {Nobody}]
                 \union [status : {"completed"}, owner : Attempts]
      /\ job'.status = "completed" =>
            \/ job' = job /\ (job.owner = a => phase = "ended")
            \/ job'.owner = a /\ attempt[a].phase = "commit" /\ phase = "ended"
  BY DEF IInv, TypeOK
<1>4. \A b \in Attempts : job' = [status |-> "completed", owner |-> b] => Commits(b)
  BY <1>3 DEF Commits
<1>5. TypeOK'
  BY <1>2, <1>3 DEF IInv, TypeOK, CommitsAreDecided
<1>6. UnpostedHasNoRequest'
  BY <1>1, <1>2 DEF IInv, UnpostedHasNoRequest, RowOK
<1>7. UndeterminedPublishesNothing'
  BY <1>1, <1>2 DEF IInv, UndeterminedPublishesNothing, RowOK
<1>8. CommitsAreDecided'
  BY <1>1, <1>2 DEF IInv, CommitsAreDecided, RowOK
<1>9. WritesWereEmpty'
  BY <1>1, <1>2 DEF IInv, WritesWereEmpty, WillWrite, RowOK
<1>10. PublishedWasSeen'
  BY <1>1, <1>2, <1>4 DEF IInv, PublishedWasSeen, Commits, RowOK
<1>11. CompletedHasEnded'
  BY <1>2, <1>3 DEF IInv, CompletedHasEnded, TypeOK
<1> QED
  BY <1>5, <1>6, <1>7, <1>8, <1>9, <1>10, <1>11 DEF IInv

LEMMA BeginStep == ASSUME IInv, NEW a \in Attempts, Begin(a) PROVE IInv'
  BY JobStep DEF Begin

LEMMA EndsStep ==
    ASSUME IInv, NEW a \in Attempts, Commit(a) \/ Replace(a)
    PROVE  IInv'
  BY JobStep DEF Commit, Replace

-----------------------------------------------------------------------------
(* Monday and its users *)

\* A mutation writes nothing but the job's own id.
LEMMA ApplyStep == ASSUME IInv, NEW a \in Attempts, Apply(a) PROVE IInv'
<1> DEFINE r == [attempt[a] EXCEPT !.request = "applied"]
<1>1. /\ attempt[a] \in Attempt /\ attempt[a].request = "flying"
      /\ attempt' = [attempt EXCEPT ![a] = r] /\ UNCHANGED <<current, job, edits>>
  BY DEF Apply, IInv, TypeOK
<1>2. /\ r \in Attempt /\ r.phase = attempt[a].phase /\ r.outcome = attempt[a].outcome
      /\ r.since = attempt[a].since /\ r.late = attempt[a].late /\ r.request = "applied"
      /\ r.written = attempt[a].written
  BY <1>1 DEF Attempt
<1>3. /\ attempt' \in [Attempts -> Attempt] /\ attempt'[a] = r
      /\ \A b \in Attempts \ {a} : attempt'[b] = attempt[b]
  BY <1>1, <1>2 DEF IInv, TypeOK
<1> HIDE DEF r
<1>4. \A c \in Columns : column'[c] = column[c] \/ column'[c] = {Own}
  BY DEF Apply
<1>5. column' \in [Columns -> SUBSET Ids]
  BY DEF Apply, IInv, TypeOK, Ids
<1>6. attempt[a].phase \notin Unposted
  BY <1>1 DEF IInv, UnpostedHasNoRequest
<1>7. TypeOK'
  BY <1>1, <1>2, <1>3, <1>5 DEF IInv, TypeOK
<1>8. UnpostedHasNoRequest'
  BY <1>2, <1>3, <1>6 DEF IInv, UnpostedHasNoRequest
<1>9. UndeterminedPublishesNothing'
  BY <1>2, <1>3 DEF IInv, UndeterminedPublishesNothing
<1>10. CommitsAreDecided'
  BY <1>2, <1>3 DEF IInv, CommitsAreDecided
<1>11. WritesWereEmpty'
  <2> SUFFICES ASSUME NEW b \in Attempts, WillWrite(b)', NEW c \in attempt'[b].written
               PROVE  column'[c] \subseteq {Own} \/ c \in attempt'[b].late
    BY DEF WritesWereEmpty
  <2>1. b # a
    BY <1>2, <1>3, <1>6 DEF WillWrite, Unposted
  <2>2. WillWrite(b) /\ attempt'[b] = attempt[b] /\ c \in Columns
    BY <1>3, <2>1 DEF WillWrite, Attempt
  <2> QED
    BY <1>4, <2>2 DEF IInv, WritesWereEmpty
<1>12. PublishedWasSeen'
  BY <1>1, <1>2, <1>3, <1>4 DEF IInv, PublishedWasSeen, Commits
<1>13. CompletedHasEnded'
  BY <1>1, <1>2, <1>3 DEF IInv, CompletedHasEnded, TypeOK
<1> QED
  BY <1>7, <1>8, <1>9, <1>10, <1>11, <1>12, <1>13 DEF IInv

\* Every attempt's history remembers an edit.
LEMMA EditStep == ASSUME IInv, NEW c \in Columns, NEW ids \in SUBSET Ids, Edit(c, ids) PROVE IInv'
<1>1. ASSUME NEW a \in Attempts
      PROVE  /\ attempt'[a] \in Attempt
             /\ attempt'[a].phase = attempt[a].phase /\ attempt'[a].outcome = attempt[a].outcome
             /\ attempt'[a].request = attempt[a].request
             /\ attempt'[a].written = attempt[a].written
             /\ attempt'[a].late = attempt[a].late \union {c}
             /\ attempt'[a].since = attempt[a].since \union {c}
  BY <1>1 DEF Edit, IInv, TypeOK, Attempt
<1>2. attempt' \in [Attempts -> Attempt]
  BY <1>1 DEF Edit
<1>3. /\ column' \in [Columns -> SUBSET Ids] /\ edits' \in 0 .. MaxEdits
      /\ \A d \in Columns \ {c} : column'[d] = column[d]
      /\ UNCHANGED <<current, job>>
  <2>1. edits' \in 0 .. MaxEdits
    <3>1. edits \in 0 .. MaxEdits /\ edits < MaxEdits /\ edits' = edits + 1
      BY DEF Edit, IInv, TypeOK
    <3> QED
      BY <3>1, EditBound
  <2>2. column' = [column EXCEPT ![c] = ids] /\ column \in [Columns -> SUBSET Ids]
    BY DEF Edit, IInv, TypeOK
  <2> QED
    BY <2>1, <2>2 DEF Edit
<1>4. TypeOK'
  BY <1>1, <1>2, <1>3 DEF IInv, TypeOK
<1>5. UnpostedHasNoRequest' /\ UndeterminedPublishesNothing' /\ CommitsAreDecided'
  BY <1>1 DEF IInv, UnpostedHasNoRequest, UndeterminedPublishesNothing, CommitsAreDecided
<1>6. WritesWereEmpty'
  <2> SUFFICES ASSUME NEW a \in Attempts, WillWrite(a)', NEW d \in attempt'[a].written
               PROVE  column'[d] \subseteq {Own} \/ d \in attempt'[a].late
    BY DEF WritesWereEmpty
  <2>1. WillWrite(a) /\ d \in attempt[a].written /\ d \in Columns
    BY <1>1 DEF WillWrite, Attempt
  <2> QED
    BY <1>1, <1>3, <2>1 DEF IInv, WritesWereEmpty
<1>7. PublishedWasSeen'
  BY <1>1, <1>3 DEF IInv, PublishedWasSeen, Commits
<1>8. CompletedHasEnded'
  BY <1>1, <1>3 DEF IInv, CompletedHasEnded, TypeOK
<1> QED
  BY <1>4, <1>5, <1>6, <1>7, <1>8 DEF IInv

LEMMA InputStep == ASSUME IInv, ChangeInput \/ UNCHANGED vars PROVE IInv'
<1>1. current' \in BOOLEAN /\ UNCHANGED <<column, attempt, job, edits>>
  BY DEF ChangeInput, vars, IInv, TypeOK
<1> QED
  BY <1>1 DEF IInv, TypeOK, UnpostedHasNoRequest, UndeterminedPublishesNothing, CommitsAreDecided,
              WritesWereEmpty, WillWrite, PublishedWasSeen, Commits, CompletedHasEnded

\* The invariant is inductive.
LEMMA NextIInv == IInv /\ [Next]_vars => IInv'
<1> SUFFICES ASSUME IInv, [Next]_vars PROVE IInv'
  OBVIOUS
<1>1. ASSUME NEW a \in Attempts,
             \/ Begin(a) \/ Read(a) \/ Reread(a) \/ Send(a)
             \/ Reply(a) \/ AmbiguousReply(a) \/ Confirm(a)
             \/ Commit(a) \/ CommitSuperseded(a) \/ Replace(a) \/ Fail(a)
             \/ Apply(a) \/ Lose(a)
      PROVE  IInv'
  BY <1>1, BeginStep, ReadsStep, SendStep, RepliesStep, ConfirmStep, EndsStep, FailStep,
     ApplyStep, LoseStep
<1> QED
  BY <1>1, EditStep, InputStep DEF Next

LEMMA Inductive == Spec => []IInv
  BY InitIInv, NextIInv, PTL DEF Spec

-----------------------------------------------------------------------------
(* The theorems *)

(* publish_sales_item and the stage around it keep their rows as declared, and a job is
   completed only with a decision for both columns: an unconfirmed one never counts. *)
THEOREM PublicationTypes == Spec => []TypeOK
<1>1. IInv => TypeOK
  BY DEF IInv
<1> QED
  BY <1>1, Inductive, PTL

(* What _reconcile_column reported as published for a completed job is in the column
   unless people edited it later, whatever requests of abandoned attempts do. *)
THEOREM PublishedStays == Spec => []PublishedIsThere
<1>1. IInv => PublishedIsThere
  <2> SUFFICES ASSUME IInv, job.status = "completed", NEW c \in Columns \ attempt[job.owner].since,
                      attempt[job.owner].outcome[c] = "published"
               PROVE  Own \in column[c]
    BY DEF PublishedIsThere
  <2>1. job.owner \in Attempts /\ job = [status |-> "completed", owner |-> job.owner]
    BY DEF IInv, TypeOK
  <2> QED
    BY <2>1 DEF IInv, PublishedWasSeen, Commits
<1> QED
  BY <1>1, Inductive, PTL

\* A request becomes applied by being applied.
LEMMA AppliesItself ==
    ASSUME IInv, Next, NEW a \in Attempts, attempt[a].request = "flying",
           attempt'[a].request = "applied"
    PROVE  Apply(a)
<1>1. \A b \in Attempts : attempt[b] \in Attempt
  BY DEF IInv, TypeOK
<1>2. ASSUME NEW b \in Attempts,
             \/ Begin(b) \/ Read(b) \/ Reread(b) \/ Reply(b) \/ AmbiguousReply(b)
             \/ Confirm(b) \/ Commit(b) \/ CommitSuperseded(b) \/ Replace(b) \/ Fail(b)
      PROVE  attempt'[a].request = attempt[a].request
  <2>1. ASSUME NEW phase, attempt' = [attempt EXCEPT ![b].phase = phase]
        PROVE  attempt'[a].request = attempt[a].request
    BY <1>1, <2>1 DEF IInv, TypeOK, Attempt
  <2>2. ASSUME NEW eligible, Decide(b, eligible)
        PROVE  attempt'[a].request = attempt[a].request
    BY <1>1, <2>2 DEF Decide, IInv, TypeOK, Attempt
  <2>3. CASE Read(b) \/ Reread(b)
    BY <2>1, <2>2, <2>3 DEF Read, Reread, TurnsStale
  <2>4. CASE Confirm(b)
    <3> DEFINE r == [attempt[b] EXCEPT !.phase = "commit", !.since = {},
                                       !.outcome = [c \in Columns |-> Reconciled(b, c)]]
    <3>1. \/ attempt' = [attempt EXCEPT ![b].phase = "stale"]
          \/ attempt' = [attempt EXCEPT ![b].phase = "ended"]
          \/ attempt' = [attempt EXCEPT ![b] = r]
      BY <2>4 DEF Confirm, TurnsStale
    <3>2. r.request = attempt[b].request
      BY <1>1 DEF Attempt
    <3> QED
      BY <1>1, <2>1, <3>1, <3>2 DEF IInv, TypeOK
  <2>5. CASE \/ Begin(b) \/ Reply(b) \/ AmbiguousReply(b) \/ Commit(b)
             \/ CommitSuperseded(b) \/ Replace(b) \/ Fail(b)
    <3>1. PICK phase \in {"read", "confirm", "stale", "ended"} :
             attempt' = [attempt EXCEPT ![b].phase = phase]
      BY <2>5 DEF Begin, Reply, AmbiguousReply, Commit, CommitSuperseded, Replace, Fail, TurnsStale
    <3> QED
      BY <2>1, <3>1
  <2> QED
    BY <1>2, <2>3, <2>4, <2>5
<1>3. ASSUME NEW b \in Attempts, Send(b) \/ Lose(b)
      PROVE  attempt'[a].request # "applied"
  BY <1>1, <1>3 DEF Send, Lose, IInv, TypeOK, Attempt
<1>4. ASSUME NEW b \in Attempts \ {a}, Apply(b)
      PROVE  attempt'[a].request = attempt[a].request
  BY <1>1, <1>4 DEF Apply, IInv, TypeOK, Attempt
<1>5. ASSUME NEW c \in Columns, NEW ids, Edit(c, ids)
      PROVE  attempt'[a].request = attempt[a].request
  BY <1>1, <1>5 DEF Edit, IInv, TypeOK, Attempt
<1>6. ChangeInput => attempt'[a].request = attempt[a].request
  BY DEF ChangeInput
<1> QED
  BY <1>2, <1>3, <1>4, <1>5, <1>6 DEF Next

(* change_multiple_column_values replaces other ids only if they were put there after the
   read on which it was decided, however late the request is applied. *)
THEOREM OnlyLateEditsAreOverwritten == Spec => OverwritesOnlyLateEdits
<1>1. ASSUME IInv, Next, NEW a \in Attempts, NEW c \in Columns, Overwrites(a, c)
      PROVE  c \in attempt[a].late
  <2>1. attempt[a].request = "flying" /\ attempt'[a].request = "applied" /\ attempt[a] \in Attempt
    BY <1>1 DEF Overwrites, IInv, TypeOK
  <2>2. Apply(a)
    BY <1>1, <2>1, AppliesItself
  <2>3. c \in attempt[a].written
    BY <1>1, <2>2 DEF Apply, Overwrites
  <2> QED
    BY <1>1, <2>1, <2>3 DEF IInv, WritesWereEmpty, WillWrite, Overwrites
<1>2. IInv /\ [Next]_vars =>
         [\A a \in Attempts, c \in Columns : Overwrites(a, c) => c \in attempt[a].late]_vars
  BY <1>1
<1> QED
  BY <1>2, Inductive, PTL DEF Spec, OverwritesOnlyLateEdits

(* A job that is completed or superseded stays so: the lease check of the final
   transactions stops every zombie. *)
THEOREM OutcomesAreFinal == Spec => OutcomeIsFinal
<1>1. ASSUME Next, job.status # "publishing" PROVE UNCHANGED job
  <2>1. ~ \E a \in Attempts : Begin(a) \/ CommitSuperseded(a)
    BY <1>1 DEF Begin, CommitSuperseded
  <2>2. ASSUME NEW a \in Attempts, Commit(a) \/ Replace(a) PROVE UNCHANGED job
    <3>1. job # [status |-> "publishing", owner |-> a]
      BY <1>1
    <3> QED
      BY <2>2, <3>1 DEF Commit, Replace
  <2>3. ASSUME NEW a \in Attempts,
               \/ Read(a) \/ Reread(a) \/ Send(a) \/ Reply(a) \/ AmbiguousReply(a)
               \/ Confirm(a) \/ Fail(a) \/ Apply(a) \/ Lose(a)
        PROVE  UNCHANGED job
    BY <2>3 DEF Read, Reread, Send, Reply, AmbiguousReply, Confirm, Fail, Apply, Lose
  <2>4. ASSUME ChangeInput \/ \E c \in Columns, ids \in SUBSET Ids : Edit(c, ids)
        PROVE  UNCHANGED job
    BY <2>4 DEF ChangeInput, Edit
  <2> QED
    BY <1>1, <2>1, <2>2, <2>3, <2>4 DEF Next
<1>2. [Next]_vars => [job.status # "publishing" => UNCHANGED job]_vars
  BY <1>1
<1> QED
  BY <1>2, PTL DEF Spec, OutcomeIsFinal
=============================================================================
