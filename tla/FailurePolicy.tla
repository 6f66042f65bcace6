---------------------------- MODULE FailurePolicy ----------------------------
(***************************************************************************)
(* What becomes of a job or a webhook event after an exception: how an     *)
(* answer of Monday that lists several errors is classified                *)
(* (response_error), and how the two budgets, of jobs (retry_or_fail_job)  *)
(* and of events (process_next_webhook_intake), treat it.  Times count     *)
(* from the failure.                                                       *)
(***************************************************************************)
EXTENDS Integers

CONSTANTS
    Delays,          \* seconds a server may name
    LimitDelay,      \* 60: without any, after a limit
    TransientDelay,  \* 30: after another temporary error
    Midnight,        \* seconds left of the day, in UTC
    BaseBackoff,     \* worker_retry_base_seconds
    MaxBackoff,      \* worker_retry_max_seconds
    MaxAttempts,     \* of a job and, as MAX_INTAKE_ATTEMPTS, of an event
    Unset            \* no code, status, delay or attribute

ASSUME DelaysAssumption ==
    /\ Delays \subseteq Nat /\ {LimitDelay, TransientDelay, Midnight, MaxBackoff} \subseteq Nat
    /\ MaxAttempts \in Nat /\ \A n \in 1 .. MaxAttempts : BaseBackoff * 2 ^ (n - 1) \in Nat
    /\ \A some \in SUBSET Delays : some # {} => \E n \in some : \A m \in some : m <= n

\* Classes of codes, and of status codes: 4xx that reject, 429, 408 and 423, 5xx, 200.
Codes == {"permanent", "limit", "daily_limit", "transient", "unknown", Unset}
Statuses == {"rejected", "limited", "busy", "broken", "ok"}

Error == [code : Codes, status : Statuses \union {Unset}]

\* An answer with errors; one without a list of errors is itself the only one.
Response == [http : Statuses, errors : (SUBSET Error) \ {{}}, delays : SUBSET Delays]

Largest(numbers) == CHOOSE n \in numbers : \A m \in numbers : m <= n

-----------------------------------------------------------------------------
(* response_error *)

\* An error without a status has the one of the answer.
StatusOf(error, http) == IF error.status = Unset THEN http ELSE error.status

IsPermanentByStatus(error, http) == "rejected" \in {http, StatusOf(error, http)}

IsLimit(error, http) ==
    error.code \in {"limit", "daily_limit"} \/ "limited" \in {http, StatusOf(error, http)}

IsTransient(error, http) ==
    \/ error.code = "transient"
    \/ StatusOf(error, http) \in {"busy", "broken"}
    \/ http = "broken"

\* What is not known is permanent.
KindOf(error, http) ==
    IF error.code = "permanent" \/ IsPermanentByStatus(error, http) THEN "permanent"
    ELSE IF IsLimit(error, http) THEN "limit"
    ELSE IF IsTransient(error, http) THEN "transient"
    ELSE "permanent"

\* A limit among the errors hides the others.
LimitFirst(response) ==
    LET kinds == {KindOf(e, response.http) : e \in response.errors} IN
    IF "limit" \in kinds THEN "limit"
    ELSE IF "permanent" \in kinds THEN "permanent" ELSE "transient"

\* "Every error must be retryable. A limit cannot mask a bad query/permission."
ClassOf(response) ==
    LET kinds == {KindOf(e, response.http) : e \in response.errors} IN
    IF "permanent" \in kinds THEN "permanent"
    ELSE IF "limit" \in kinds THEN "limit" ELSE "transient"

\* retry_at of what can be tried again: Retry-After and every retry_in_seconds, or the
\* default; after the daily limit no earlier than midnight.
RetryAt(response) ==
    LET named == IF response.delays # {} THEN response.delays
                 ELSE {IF ClassOf(response) = "limit" THEN LimitDelay ELSE TransientDelay}
        day == {Midnight : e \in {e \in response.errors : e.code = "daily_limit"}}
    IN  Largest(named \union day)

-----------------------------------------------------------------------------
(* Retries *)

\* An exception: of Monday, if an answer of Monday is in its chain of causes; otherwise
\* with its attribute retryable, if it has one (PipelineExecutionDisabled counts as
\* FALSE), and whether it is a ValueError.
Failure == [upstream : Response, explicit : {Unset}, value : {FALSE}]
           \union [upstream : {Unset}, explicit : BOOLEAN \union {Unset}, value : BOOLEAN]

OfMonday(failure) == failure.upstream # Unset

\* _error_is_retryable
IsRetryable(failure) ==
    IF OfMonday(failure) THEN ClassOf(failure.upstream) # "permanent"
    ELSE IF failure.explicit # Unset THEN failure.explicit
    ELSE ~failure.value

\* Capacity exhaustion defers the work without spending an attempt.
IsDeferred(failure) == OfMonday(failure) /\ ClassOf(failure.upstream) = "limit"

\* retry_delay_seconds
Backoff(attempt) ==
    LET delay == BaseBackoff * 2 ^ (attempt - 1) IN
    IF delay < MaxBackoff THEN delay ELSE MaxBackoff

DelayCapped(failure, attempt) ==
    IF ~OfMonday(failure) \/ ~IsRetryable(failure) THEN Backoff(attempt)
    ELSE LET delay == Largest({Backoff(attempt), RetryAt(failure.upstream)}) IN
         IF delay < MaxBackoff THEN delay ELSE MaxBackoff

\* "Server deadlines are a lower bound, never capped by worker backoff."
Delay(failure, attempt) ==
    IF OfMonday(failure) /\ IsRetryable(failure)
    THEN Largest({Backoff(attempt), RetryAt(failure.upstream)})
    ELSE Backoff(attempt)

\* Of a job in its given attempt, which claiming it has counted already.
JobAfter(failure, attempt) ==
    [retried |-> IsRetryable(failure) /\ (IsDeferred(failure) \/ attempt < MaxAttempts),
     attempts |-> IF IsDeferred(failure) THEN attempt - 1 ELSE attempt,
     delay |-> Delay(failure, attempt)]

\* Of an event that has failed the given number of times before.
EventAfter(failure, failed) ==
    LET attempts == IF IsDeferred(failure) THEN failed ELSE failed + 1 IN
    [retried |-> IsRetryable(failure) /\ (IsDeferred(failure) \/ attempts < MaxAttempts),
     attempts |-> attempts,
     delay |-> Delay(failure, IF attempts < 1 THEN 1 ELSE attempts)]
=============================================================================
