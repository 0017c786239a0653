---------------------------- MODULE OperationRow ----------------------------
(***************************************************************************)
(* One row of the table public_operations and the transitions of           *)
(* domain/public-operation.ts on it, for the operation type                *)
(* artifact-render.  Everything here is a pure operator: a transition      *)
(* X has a guard CanX, false exactly when the source throws, and a result  *)
(* X, the row it would write.                                              *)
(*                                                                         *)
(* Instants are natural numbers and NoTime is the source's "undefined".    *)
(* The running phase is not a column of its own here: the source insists   *)
(* that a running row's progress is the index of its phase, so progress p  *)
(* of a running row says it is in the p-th phase, counted from 0.          *)
(***************************************************************************)
EXTENDS Integers

CONSTANTS
    Workers,      \* worker processes; a restarted process has a new identity
    NoWorker,     \* leaseOwner is null
    PhaseCount    \* how many phases a running operation goes through

ASSUME NoWorkerAssumption == NoWorker \notin Workers
ASSUME PhaseAssumption == PhaseCount \in Nat \ {0}

NoTime == -1
Instant == Nat
OptionalInstant == Nat \cup {NoTime}

Terminal == {"succeeded", "failed", "canceled"}
Live == {"queued", "running", "waiting", "retrying"}

\* Failures a worker records.  The last two are retryable.
FatalErrors == {"fatal", "output_conflict"}
RetryableErrors == {"transient", "worker_shutdown"}
Failures == FatalErrors \cup RetryableErrors
ErrorCodes == Failures \cup {"none", "worker_lease_expired"}

LastPhase == PhaseCount - 1

Row == [status : Terminal \cup Live,
        progress : 0..PhaseCount,
        attempt : Nat,
        maxAttempts : Nat,
        updatedAt : Instant,
        startedAt : OptionalInstant,
        completedAt : OptionalInstant,
        nextAttemptAt : OptionalInstant,
        deadLetteredAt : OptionalInstant,
        error : ErrorCodes,
        leaseOwner : Workers \cup {NoWorker},
        leaseExpiresAt : OptionalInstant,
        heartbeatAt : OptionalInstant]

IsTerminal(r) == r.status \in Terminal

-----------------------------------------------------------------------------
(* assertPublicOperation: what every read of a row (hydration) and every   *)
(* row a transition returns (freezeOperation) must satisfy, or it throws.  *)

CanonicalProgress(r) ==
    \/ r.status = "queued" /\ r.progress = 0
    \/ r.status = "succeeded" /\ r.progress = PhaseCount
    \/ r.status \notin {"queued", "succeeded"} /\ r.progress < PhaseCount

OrderedInstants(r) ==
    /\ r.completedAt # NoTime /\ r.startedAt # NoTime
         => r.completedAt >= r.startedAt
    /\ r.nextAttemptAt # NoTime => r.nextAttemptAt > r.updatedAt
    /\ r.deadLetteredAt # NoTime => r.deadLetteredAt = r.completedAt

StatusFields(r) ==
    /\ r.status = "queued" => r.attempt = 0 /\ r.startedAt = NoTime
    /\ r.status \in {"running", "waiting", "retrying"}
         => r.attempt > 0 /\ r.startedAt # NoTime
    /\ r.status \in {"succeeded", "failed"} => r.startedAt # NoTime
    /\ r.status \in Terminal <=> r.completedAt # NoTime
    /\ r.status = "retrying" <=> r.nextAttemptAt # NoTime
    /\ r.status = "failed" <=> r.error # "none"
    /\ r.deadLetteredAt # NoTime => r.status = "failed"

Hydratable(r) ==
    /\ r.maxAttempts > 0
    /\ r.attempt <= r.maxAttempts
    /\ CanonicalProgress(r)
    /\ OrderedInstants(r)
    /\ StatusFields(r)

-----------------------------------------------------------------------------
\* No transition but cancel accepts an instant before the row's.
ClockOK(r, now) == now >= r.updatedAt

NewOperation(max, createdAt) ==
    [status |-> "queued", progress |-> 0, attempt |-> 0, maxAttempts |-> max,
     updatedAt |-> createdAt, startedAt |-> NoTime, completedAt |-> NoTime,
     nextAttemptAt |-> NoTime, deadLetteredAt |-> NoTime, error |-> "none",
     leaseOwner |-> NoWorker, leaseExpiresAt |-> NoTime,
     heartbeatAt |-> NoTime]

CanStart(r, now) ==
    /\ r.status \in {"queued", "retrying", "running"}
    /\ r.attempt < r.maxAttempts
    /\ ClockOK(r, now)
    /\ r.status = "retrying" => now >= r.nextAttemptAt

Start(r, now) ==
    [r EXCEPT !.status = "running", !.progress = 0, !.attempt = @ + 1,
              !.updatedAt = now,
              !.startedAt = IF @ = NoTime THEN now ELSE @,
              !.completedAt = NoTime, !.nextAttemptAt = NoTime,
              !.deadLetteredAt = NoTime, !.error = "none"]

CanAdvance(r, phase, now) ==
    /\ r.status = "running"
    /\ phase >= r.progress
    /\ ClockOK(r, now)

Advance(r, phase, now) == [r EXCEPT !.progress = phase, !.updatedAt = now]

CanSucceed(r, now) ==
    /\ r.status = "running"
    /\ r.progress = LastPhase
    /\ ClockOK(r, now)

Succeed(r, now) ==
    [r EXCEPT !.status = "succeeded", !.progress = PhaseCount,
              !.updatedAt = now, !.completedAt = now]

CanFailOrRetry(r, failure, now, next) ==
    /\ r.status = "running"
    /\ ClockOK(r, now)
    /\ IF failure \in RetryableErrors /\ r.attempt < r.maxAttempts
         THEN next # NoTime /\ next > now
         ELSE next = NoTime

FailOrRetry(r, failure, now, next) ==
    IF failure \in RetryableErrors /\ r.attempt < r.maxAttempts
      THEN [r EXCEPT !.status = "retrying", !.updatedAt = now,
                     !.nextAttemptAt = next]
      ELSE [r EXCEPT !.status = "failed", !.updatedAt = now,
                     !.completedAt = now, !.error = failure,
                     !.deadLetteredAt =
                         IF failure \in RetryableErrors THEN now ELSE NoTime]

\* A cancel is recorded no earlier than the row it was computed from.
CancellationInstant(r, requestedAt) ==
    IF requestedAt >= r.updatedAt THEN requestedAt ELSE r.updatedAt

Cancel(r, canceledAt) ==
    [r EXCEPT !.status = "canceled", !.updatedAt = canceledAt,
              !.completedAt = canceledAt, !.nextAttemptAt = NoTime,
              !.deadLetteredAt = NoTime, !.error = "none"]

CanRetry(r, requestedAt) ==
    /\ r.status \in {"failed", "canceled"}
    /\ ClockOK(r, requestedAt)

\* Mutant: every retry adds an attempt, needed or not.
Retry_AlwaysAdds(r, requestedAt) ==
    LET clean == [r EXCEPT !.maxAttempts = @ + 1, !.updatedAt = requestedAt,
                           !.completedAt = NoTime, !.deadLetteredAt = NoTime,
                           !.error = "none"]
    IN  IF r.attempt = 0
          THEN [clean EXCEPT !.status = "queued", !.startedAt = NoTime]
          ELSE [clean EXCEPT !.status = "retrying",
                             !.nextAttemptAt = requestedAt + 1]

Retry(r, requestedAt) ==
    LET budget == IF r.attempt >= r.maxAttempts THEN r.attempt + 1
                                                ELSE r.maxAttempts
        clean == [r EXCEPT !.maxAttempts = budget, !.updatedAt = requestedAt,
                           !.completedAt = NoTime, !.deadLetteredAt = NoTime,
                           !.error = "none"]
    IN  IF r.attempt = 0
          THEN [clean EXCEPT !.status = "queued", !.startedAt = NoTime,
                             !.nextAttemptAt = NoTime]
          ELSE [clean EXCEPT !.status = "retrying",
                             !.nextAttemptAt = requestedAt + 1]
=============================================================================
