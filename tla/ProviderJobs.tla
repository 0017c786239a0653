---------------------------- MODULE ProviderJobs ----------------------------
(***************************************************************************)
(* One provider job: its row, its transport state, the evidence of its     *)
(* external effect, the workers that drive it and the callers that cancel, *)
(* resume or wake it (application/provider-jobs.ts,                        *)
(* application/transformation-jobs.ts, domain/provider-job*.ts and the     *)
(* Prisma repositories of the job and of its provenance).                  *)
(*                                                                         *)
(* A worker claims the row under a lease, does one thing according to its  *)
(* status, and commits the next row with a compare-and-swap on the row it  *)
(* read, its lease and, when it moves the schedule, its revision.  The     *)
(* paid effect, its evidence, the ingested result and the receipt are      *)
(* separate commits: a worker may stop between any two of them.            *)
(*                                                                         *)
(* Instants are kept as what is left of them and Tick takes one unit from  *)
(* each: no clock value appears, so time has no horizon.                   *)
(***************************************************************************)
EXTENDS Naturals, Integers, FiniteSets

CONSTANTS
  Workers,       \* worker processes; each has at most one iteration under way
  Callers,       \* one API request or one callback delivery each
  Events,        \* event ids the provider announces its end with
  Adapters,      \* the adapters a job may be created for
  Lease,         \* leaseMs, in units of time
  Window,        \* from creation, or resume, to the deadline
  MaxAttempts,   \* retryPolicy.maxAttempts
  MaxFaults      \* bound: crashes, and leases that run out under their worker

ASSUME ProviderAssumption ==
  /\ Adapters \subseteq [completion : {"synchronous", "asynchronous"},
                         transport : {"none", "polling", "webhook"},
                         cancellable : BOOLEAN]
  /\ \A a \in Adapters : a.completion = "synchronous" => a.transport # "webhook"
  /\ Lease \in Nat \ {0} /\ Window \in Nat \ {0} /\ MaxAttempts \in Nat \ {0}
  /\ MaxFaults \in Nat

VARIABLES
  adapter,    \* the adapter of the job's provider, which it keeps
  job,        \* the row's own document: status, attempt, provider reference...
  lease,      \* leaseOwner (with its token) and what is left of leaseExpiresAt
  schedule,   \* V2ProviderJobTransportState, or NoSchedule
  proof,      \* committed evidence: submit, retrieve, result ledger, receipt
  consumed,   \* accepted callback event ids
  authority,  \* what assertAuthority reads is still what the job was given
  provider,   \* the external effect
  worker,     \* each worker's iteration, from its claim to its commit
  caller,     \* each caller between its read and its write
  faults

vars == <<adapter, job, lease, schedule, proof, consumed, authority, provider, worker,
          caller, faults>>

\* "synchronous": submit returns the result; "asynchronous": it is retrieved.
Completion == adapter.completion
\* "polling", "webhook", or "none": a job without a schedule.
Transport == adapter.transport
\* The adapter implements cancel and declares it.
Cancellable == adapter.cancellable

Terminal == {"approved", "rejected", "failed", "canceled", "expired"}
Waiting  == {"submitted", "queued", "processing", "suspected-stalled"}
Statuses == {"planned", "estimated", "submitting", "retrieving", "evaluating"}
              \cup Waiting \cup Terminal

\* ALLOWED_TRANSITIONS between the statuses a provider may report
ReportAllowed(from, to) ==
  \/ to \notin {"queued"}
  \/ from \in {"submitted", "queued", "suspected-stalled"}

NoSchedule == [wait |-> "absent"]
Nobody     == [owner |-> "nobody", left |-> -1]
HasSchedule == Transport # "none"

Idle == [pc |-> "idle"]

Init ==
  /\ adapter \in Adapters
  /\ job = [status |-> "planned", attempt |-> 0, ref |-> FALSE,
            completed |-> FALSE, result |-> FALSE]
  /\ lease = Nobody
  /\ schedule = IF HasSchedule
                THEN [wait |-> "none", due |-> 0, deadline |-> Window,
                      attempts |-> 0, cancellation |-> "none",
                      resume |-> FALSE, revision |-> 1]
                ELSE NoSchedule
  /\ proof = {}
  /\ consumed = {}
  /\ authority = TRUE
  /\ provider = [state |-> "none", submissions |-> 0]
  /\ worker = [w \in Workers |-> Idle]
  /\ caller = [c \in Callers |-> [kind |-> "none"]]
  /\ faults = 0

-----------------------------------------------------------------------------
(* Claiming.  The branch of the iteration is decided by the row, the        *)
(* schedule and the clock as the claim read them.                           *)

DeadlineExceeded == HasSchedule /\ schedule.deadline < 0

Branch ==
  CASE DeadlineExceeded -> "expire"
    [] ~DeadlineExceeded /\ HasSchedule /\ schedule.cancellation = "requested"
         -> "cancel"
    [] OTHER ->
       CASE job.status = "planned"    -> "estimate"
         [] job.status = "estimated"  -> "intend"
         [] job.status = "submitting" -> "reconcile"
         [] job.status = "evaluating" -> "evaluate"
         [] job.status = "retrieving" ->
              IF job.result THEN "receipt" ELSE "retrieve"
         [] job.status \in Waiting ->
              IF job.completed THEN "collect"
              ELSE IF Transport = "webhook" /\ schedule.wait # "callback"
                   THEN "park" ELSE "poll"

\* Mutant: a job parked for its callback is claimed only once it is woken
Due_Woken == HasSchedule => schedule.due = 0 /\ schedule.wait # "callback"

Due == HasSchedule => schedule.due = 0

Claimable == job.status \notin Terminal /\ lease.left < 0 /\ Due

\* What a reader of the schedule keeps of it until it writes it back whole.
Seen == IF HasSchedule
        THEN [revision |-> schedule.revision, attempts |-> schedule.attempts,
              cancellation |-> schedule.cancellation]
        ELSE NoSchedule

\* Mutant: the last write of the schedule wins
Current_LastWrite(seen) == TRUE

\* The schedule is written by compare-and-swap on the revision that was read.
Current(seen) == schedule.revision = seen.revision

\* claimNext, and the branch it leads to
ClaimNext(w) ==
  /\ worker[w] = Idle
  /\ Claimable
  /\ lease' = [owner |-> w, left |-> Lease]
  /\ worker' = [worker EXCEPT ![w] = [pc |-> Branch, job |-> job, seen |-> Seen]]
  /\ UNCHANGED <<job, schedule, proof, consumed, authority, provider, caller, faults>>

\* The row is still the one the worker read, under the worker's lease.
HoldsRow(w) == job = worker[w].job /\ lease.owner = w

\* The lease is still good by the repository's own clock.
LeaseValid(w) == HoldsRow(w) /\ lease.left > 0

At(w, pc) == worker[w].pc = pc

-----------------------------------------------------------------------------
(* Settling: the row, and the change of schedule, the iteration will commit. *)

\* fresh: occurredAt is read from the clock after the work, not at the claim.
Settle(w, next, plan, fresh) ==
  worker' = [worker EXCEPT ![w] =
    [pc |-> "settle", job |-> @.job, seen |-> @.seen,
     next |-> next, plan |-> plan, fresh |-> fresh]]

SettleStatus(w, status, plan, fresh) ==
  Settle(w, [worker[w].job EXCEPT !.status = status], plan, fresh)

Goto(w, pc) == worker' = [worker EXCEPT ![w].pc = pc]

\* The iteration throws: nothing more is written and the lease is left to expire.
Drop(w) == worker' = [worker EXCEPT ![w] = Idle]

\* Mutant: a submission whose answer was an error is submitted again
RetrySources_Submitting == Waiting \cup {"submitting", "retrieving"}

RetrySources == Waiting \cup {"retrieving"}

\* The catch of the worker's iteration.
Failure(w, retryable) ==
  LET row   == worker[w].job
      fresh == row.status = "evaluating"
  IN IF /\ retryable /\ HasSchedule
        /\ worker[w].seen.attempts < MaxAttempts
        /\ row.status \in RetrySources
     THEN SettleStatus(w, IF row.ref THEN row.status ELSE "estimated", "retry", fresh)
     ELSE SettleStatus(w, "failed", "none", fresh)

Untouched == <<job, lease, schedule, consumed, authority, caller, faults>>

-----------------------------------------------------------------------------
(* The branches. *)

Expire(w) ==
  /\ At(w, "expire")
  /\ SettleStatus(w, "expired", "none", FALSE)
  /\ UNCHANGED <<Untouched, proof, provider>>

\* Mutant: the cancellation is acknowledged whatever the adapter answers
CancelAtProvider_AlwaysAcknowledged(w) ==
  /\ At(w, "cancel")
  /\ \/ SettleStatus(w, "canceled", "acknowledge", FALSE)
     \/ SettleStatus(w, "failed", "acknowledge", FALSE)
  /\ UNCHANGED <<Untouched, proof, provider>>

\* Only the worker talks to the provider, and only about a reference it knows.
CancelAtProvider(w) ==
  /\ At(w, "cancel")
  /\ \/ /\ SettleStatus(w, "canceled", "acknowledge", FALSE)
        /\ provider' = IF Cancellable /\ worker[w].job.ref /\ provider.state = "running"
                       THEN [provider EXCEPT !.state = "canceled"] ELSE provider
     \/ \E retryable \in BOOLEAN :
          /\ Cancellable /\ worker[w].job.ref
          /\ Failure(w, retryable)
          /\ UNCHANGED provider
  /\ UNCHANGED <<Untouched, proof>>

Estimate(w) ==
  /\ At(w, "estimate")
  /\ SettleStatus(w, "estimated", "none", FALSE) \/ Failure(w, FALSE)
  /\ UNCHANGED <<Untouched, proof, provider>>

\* beginSubmission: the intent is durable before the provider hears of the job.
BeginSubmission(w) ==
  LET intent == [worker[w].job EXCEPT !.status = "submitting", !.attempt = @ + 1]
  IN /\ At(w, "intend")
     /\ IF HoldsRow(w) /\ authority
        THEN /\ job' = intent
             /\ worker' = [worker EXCEPT ![w].pc = "submit", ![w].job = intent]
        ELSE Failure(w, FALSE) /\ UNCHANGED job
     /\ UNCHANGED <<lease, schedule, proof, consumed, authority, provider, caller, faults>>

\* materialize throws before the intent is written
MaterializeFails(w) ==
  /\ At(w, "intend")
  /\ Failure(w, FALSE)
  /\ UNCHANGED <<Untouched, proof, provider>>

\* adapter.submit reaches the provider; the answer may still be an error.
Submit(w) ==
  /\ At(w, "submit")
  /\ provider' = [state |-> IF Completion = "synchronous" THEN "completed" ELSE "running",
                  submissions |-> provider.submissions + 1]
  /\ Goto(w, "record") \/ Failure(w, TRUE)
  /\ UNCHANGED <<Untouched, proof>>

\* adapter.submit fails without the provider having accepted anything
SubmitRefused(w) ==
  /\ At(w, "submit")
  /\ Failure(w, TRUE)
  /\ UNCHANGED <<Untouched, proof, provider>>

Submitted(w) == [worker[w].job EXCEPT !.status = "submitted", !.ref = TRUE]

\* observeTransport: an effect whose evidence does not persist is left for
\* reconciliation, never turned into a retry or a failure.
RecordSubmission(w) ==
  /\ At(w, "record")
  /\ IF LeaseValid(w)
     THEN /\ proof' = proof \cup {"submit"}
          /\ IF Completion = "synchronous" THEN Goto(w, "ingest")
             ELSE Settle(w, Submitted(w), "none", TRUE)
     ELSE Drop(w) /\ UNCHANGED proof
  /\ UNCHANGED <<Untouched, provider>>

\* A synchronous result is ingested before the submission is settled.
IngestSubmission(w) ==
  /\ At(w, "ingest")
  /\ \/ /\ proof' = proof \cup {"ledger"}
        /\ Settle(w, [Submitted(w) EXCEPT !.completed = TRUE, !.result = TRUE], "none", TRUE)
     \/ Failure(w, FALSE) /\ UNCHANGED proof
  /\ UNCHANGED <<Untouched, provider>>

\* Mutant: a row found at `submitting` is taken as submitted
Reconcile_Trusting(w) ==
  /\ At(w, "reconcile")
  /\ Settle(w, Submitted(w), "none", FALSE)
  /\ UNCHANGED <<Untouched, proof, provider>>

\* A row found at `submitting`: only committed evidence may say it was accepted.
\* An adapter that does not answer for its capabilities ends it too.
Reconcile(w) ==
  /\ At(w, "reconcile")
  /\ \/ /\ "submit" \in proof /\ Completion = "asynchronous"
        /\ Settle(w, Submitted(w), "none", FALSE)
     \/ /\ {"submit", "ledger"} \subseteq proof /\ Completion = "synchronous"
        /\ Settle(w, [Submitted(w) EXCEPT !.completed = TRUE, !.result = TRUE], "none", FALSE)
     \/ SettleStatus(w, "failed", "none", FALSE)
  /\ UNCHANGED <<Untouched, proof, provider>>

\* A completed synchronous job skips polling.
Collect(w) ==
  /\ At(w, "collect")
  /\ SettleStatus(w, "retrieving", "none", FALSE)
  /\ UNCHANGED <<Untouched, proof, provider>>

\* A webhook job waits for its callback, or for the deadline.
Park(w) ==
  /\ At(w, "park")
  /\ SettleStatus(w, IF worker[w].job.status = "submitted" THEN "queued"
                     ELSE worker[w].job.status, "park", FALSE)
  /\ UNCHANGED <<Untouched, proof, provider>>

\* getStatus, and the transition its normalized answer asks for
Poll(w) ==
  LET row == worker[w].job
  IN /\ At(w, "poll")
     /\ \/ /\ provider.state = "running"
           /\ \E status \in {"queued", "processing", "suspected-stalled"} :
                IF ReportAllowed(row.status, status)
                THEN SettleStatus(w, status, "none", FALSE)
                ELSE Failure(w, FALSE)
        \/ /\ provider.state = "completed"
           /\ Settle(w, [row EXCEPT !.status = "retrieving", !.completed = TRUE], "none", FALSE)
        \/ /\ provider.state \in {"failed", "canceled"}
           /\ SettleStatus(w, provider.state, "none", FALSE)
        \/ \E retryable \in BOOLEAN : Failure(w, retryable)
     /\ UNCHANGED <<Untouched, proof, provider>>

\* retrieve and its evidence; the bytes are ingested next
Retrieve(w) ==
  /\ At(w, "retrieve")
  /\ \/ /\ provider.state = "completed"
        /\ IF LeaseValid(w)
           THEN proof' = proof \cup {"retrieve"} /\ Goto(w, "store")
           ELSE Drop(w) /\ UNCHANGED proof
     \/ /\ \E retryable \in BOOLEAN : Failure(w, retryable)
        /\ UNCHANGED proof
  /\ UNCHANGED <<Untouched, provider>>

\* The result is recorded on the job first; the receipt is a later iteration's.
StoreResult(w) ==
  /\ At(w, "store")
  /\ \/ /\ proof' = proof \cup {"ledger"}
        /\ Settle(w, [worker[w].job EXCEPT !.result = TRUE], "none", TRUE)
     \/ /\ \E retryable \in BOOLEAN : Failure(w, retryable)
        /\ UNCHANGED proof
  /\ UNCHANGED <<Untouched, provider>>

EvidenceComplete ==
  /\ {"submit", "ledger"} \subseteq proof
  /\ Completion = "asynchronous" <=> "retrieve" \in proof

\* createReceipt: a receipt already there is the same receipt, whoever's lease.
CreateReceipt(w) ==
  /\ At(w, "receipt")
  /\ \/ /\ EvidenceComplete
        /\ "receipt" \in proof \/ LeaseValid(w)
        /\ proof' = proof \cup {"receipt"}
        /\ SettleStatus(w, "evaluating", "none", TRUE)
     \/ /\ \E retryable \in BOOLEAN : Failure(w, retryable)
        /\ UNCHANGED proof
  /\ UNCHANGED <<Untouched, provider>>

\* The critic's verdict; losing the lease during it throws.
Evaluate(w) ==
  /\ At(w, "evaluate")
  /\ \/ \E verdict \in {"approved", "rejected", "failed"} :
          SettleStatus(w, verdict, "none", TRUE)
     \/ ~LeaseValid(w) /\ Drop(w)
  /\ UNCHANGED <<Untouched, proof, provider>>

Leased == {"submit", "record", "ingest", "retrieve", "store", "evaluate"}

\* runWithProviderJobLease: the claim is renewed while the work runs...
RenewLease(w) ==
  /\ worker[w].pc \in Leased
  /\ LeaseValid(w)
  /\ lease' = [lease EXCEPT !.left = Lease]
  /\ UNCHANGED <<job, schedule, proof, consumed, authority, provider, worker, caller, faults>>

\* ...and a renewal that fails, for whatever reason, is the end of the work.
RenewalFails(w) ==
  /\ worker[w].pc \in Leased \ {"evaluate"}
  /\ Failure(w, FALSE)
  /\ UNCHANGED <<Untouched, proof, provider>>

-----------------------------------------------------------------------------
(* advance: the row, its transition, the release of the lease and the        *)
(* schedule in one transaction.                                              *)

\* Mutant: the commit compares neither the row nor the lease
CanAdvance_Unfenced(w) ==
  LET k == worker[w]
  IN /\ k.next.status \in {"approved", "submitted"} => authority
     /\ k.plan # "none" => Current(k.seen)

CanAdvance(w) ==
  LET k == worker[w]
  IN /\ HoldsRow(w)
     /\ k.fresh => lease.left >= 0
     /\ k.next.status \in {"approved", "submitted"} => authority
     /\ k.next.result => "ledger" \in proof
     /\ k.plan # "none" => Current(k.seen)

\* Mutant: a delay is not cut at the deadline
UntilDeadline_Window == Window

\* What is left until the deadline; a schedule never runs past it.
UntilDeadline == IF schedule.deadline < 0 THEN 0 ELSE schedule.deadline

Advance(w) ==
  LET k    == worker[w]
      kept == [schedule EXCEPT !.cancellation = k.seen.cancellation,
                               !.revision = k.seen.revision + 1]
  IN /\ At(w, "settle")
     /\ CanAdvance(w)
     /\ job' = k.next
     /\ lease' = Nobody
     /\ \/ k.plan = "none" /\ UNCHANGED schedule
        \/ /\ k.plan = "park"
           /\ schedule' = [kept EXCEPT !.wait = "callback", !.due = UntilDeadline]
        \/ /\ k.plan = "acknowledge"
           /\ schedule' = [kept EXCEPT !.wait = "none", !.due = 0,
                                       !.cancellation = "acknowledged"]
        \/ \* the delay counts from the claim: any part of it may be over
           /\ k.plan = "retry"
           /\ \E delay \in 0..UntilDeadline :
                schedule' = [kept EXCEPT !.wait = "retry", !.due = delay,
                                         !.attempts = k.seen.attempts + 1]
     /\ Drop(w)
     /\ UNCHANGED <<proof, consumed, authority, provider, caller, faults>>

\* A refused commit rolls back and leaves the lease to expire.
AdvanceRefused(w) ==
  /\ At(w, "settle")
  /\ ~CanAdvance(w)
  /\ Drop(w)
  /\ UNCHANGED <<Untouched, proof, provider>>

\* The process stops; its lease stays on the row.
Crash(w) ==
  /\ worker[w] # Idle
  /\ faults < MaxFaults
  /\ faults' = faults + 1
  /\ Drop(w)
  /\ UNCHANGED <<job, lease, schedule, proof, consumed, authority, provider, caller>>

-----------------------------------------------------------------------------
(* The callers: each reads, then writes against the revision it read.        *)

Live == job.status \notin Terminal

Read(c, kind) ==
  caller' = [caller EXCEPT ![c] = [kind |-> kind, seen |-> Seen]]

Return(c) == caller' = [caller EXCEPT ![c] = [kind |-> "done"]]

\* Both commands refuse a terminal job; a repeated one changes nothing.
ReadForCommand(c) ==
  /\ HasSchedule /\ Live
  /\ caller[c].kind = "none"
  /\ schedule.cancellation = "none"
  /\ \/ Read(c, "cancel")
     \/ /\ ~(schedule.resume /\ schedule.wait = "none" /\ schedule.attempts = 0)
        /\ Read(c, "resume")
  /\ UNCHANGED <<job, lease, schedule, proof, consumed, authority, provider, worker, faults>>

\* The job is due at once, on the schedule as the caller read it.
Woken(c) == [schedule EXCEPT !.wait = "none", !.due = 0,
                             !.cancellation = caller[c].seen.cancellation,
                             !.revision = caller[c].seen.revision + 1]

\* requestProviderJobCancellation
SaveCancellation(c) ==
  /\ caller[c].kind = "cancel"
  /\ schedule' = IF ~Current(caller[c].seen) THEN schedule
                 ELSE IF Cancellable
                 THEN [Woken(c) EXCEPT !.cancellation = "requested"]
                 ELSE [schedule EXCEPT !.cancellation = "unsupported", !.revision = @ + 1]
  /\ Return(c)
  /\ UNCHANGED <<job, lease, proof, consumed, authority, provider, worker, faults>>

\* requestProviderJobResume: a new deadline and a new attempt budget
SaveResume(c) ==
  /\ caller[c].kind = "resume"
  /\ schedule' = IF Current(caller[c].seen)
                 THEN [Woken(c) EXCEPT !.resume = TRUE, !.attempts = 0, !.deadline = Window]
                 ELSE schedule
  /\ Return(c)
  /\ UNCHANGED <<job, lease, proof, consumed, authority, provider, worker, faults>>

\* A callback is routed by the reference on the row: before it is stored, and
\* after the job ended, the delivery is rejected.
ReadForCallback(c, e) ==
  /\ HasSchedule
  /\ caller[c].kind = "none"
  /\ provider.state \in {"completed", "failed"}
  /\ IF job.ref /\ Live /\ e \notin consumed
     THEN caller' = [caller EXCEPT ![c] = [kind |-> "callback", event |-> e,
                                           seen |-> Seen]]
     ELSE Return(c)
  /\ UNCHANGED <<job, lease, schedule, proof, consumed, authority, provider, worker, faults>>

\* recordCallbackEvent: the event is consumed and the job woken, or neither.
RecordCallback(c) ==
  /\ caller[c].kind = "callback"
  /\ IF Current(caller[c].seen) /\ caller[c].event \notin consumed
     THEN /\ consumed' = consumed \cup {caller[c].event}
          /\ schedule' = Woken(c)
     ELSE UNCHANGED <<consumed, schedule>>
  /\ Return(c)
  /\ UNCHANGED <<job, lease, proof, authority, provider, worker, faults>>

-----------------------------------------------------------------------------
(* The environment. *)

ProviderEnds ==
  /\ provider.state = "running"
  /\ \E state \in {"completed", "failed"} : provider' = [provider EXCEPT !.state = state]
  /\ UNCHANGED <<job, lease, schedule, proof, consumed, authority, worker, caller, faults>>

\* The project moves to another version, rights change, consent is revoked.
RevokeAuthority ==
  /\ authority
  /\ authority' = FALSE
  /\ UNCHANGED <<job, lease, schedule, proof, consumed, provider, worker, caller, faults>>

Less(n) == IF n < 0 THEN n ELSE n - 1

\* The lease runs out under a worker that is still at work.
RunsOut == lease.left = 0 /\ \E w \in Workers : worker[w] # Idle /\ HoldsRow(w)

Tick ==
  /\ RunsOut => faults < MaxFaults
  /\ faults' = IF RunsOut THEN faults + 1 ELSE faults
  /\ lease' = IF lease = Nobody THEN lease ELSE [lease EXCEPT !.left = Less(@)]
  /\ schedule' = IF HasSchedule
                 THEN [schedule EXCEPT !.deadline = Less(@),
                                       !.due = IF @ = 0 THEN 0 ELSE @ - 1]
                 ELSE schedule
  /\ UNCHANGED <<job, proof, consumed, authority, provider, worker, caller>>

Work(w) ==
  \/ ClaimNext(w) \/ Expire(w) \/ CancelAtProvider(w) \/ Estimate(w)
  \/ BeginSubmission(w) \/ MaterializeFails(w) \/ Submit(w) \/ SubmitRefused(w)
  \/ RecordSubmission(w) \/ IngestSubmission(w) \/ Reconcile(w) \/ Collect(w)
  \/ Park(w) \/ Poll(w) \/ Retrieve(w) \/ StoreResult(w) \/ CreateReceipt(w)
  \/ Evaluate(w) \/ RenewalFails(w) \/ Advance(w) \/ AdvanceRefused(w)

Call(c) ==
  \/ ReadForCommand(c) \/ SaveCancellation(c) \/ SaveResume(c)
  \/ RecordCallback(c) \/ \E e \in Events : ReadForCallback(c, e)

Next ==
  /\ \/ \E w \in Workers : Work(w) \/ RenewLease(w) \/ Crash(w)
     \/ \E c \in Callers : Call(c)
     \/ ProviderEnds \/ RevokeAuthority \/ Tick
  /\ UNCHANGED adapter

Spec == Init /\ [][Next]_vars

\* The worker loop never stops claiming and an iteration under way goes on;
\* time passes.  Nothing is assumed of the provider, of callbacks or callers.
LiveSpec == Spec /\ WF_vars(Tick /\ UNCHANGED adapter)
              /\ \A w \in Workers : WF_vars(Work(w) /\ UNCHANGED adapter)
-----------------------------------------------------------------------------
(* Properties. *)

Rows == [status : Statuses, attempt : 0..1, ref : BOOLEAN,
         completed : BOOLEAN, result : BOOLEAN]
Schedules == [wait : {"none", "retry", "callback"}, due : 0..Window,
              deadline : -1..Window, attempts : 0..MaxAttempts,
              cancellation : {"none", "requested", "unsupported", "acknowledged"},
              resume : BOOLEAN, revision : Nat \ {0}]

\* Every variable stays in its type; a job without a schedule never gets one,
\* and the attempt budget is never overrun.
TypeOK ==
  /\ adapter \in Adapters
  /\ job \in Rows
  /\ lease.owner \in Workers \cup {"nobody"} /\ lease.left \in -1..Lease
  /\ IF HasSchedule THEN schedule \in Schedules ELSE schedule = NoSchedule
  /\ proof \subseteq {"submit", "retrieve", "ledger", "receipt"}
  /\ consumed \subseteq Events
  /\ authority \in BOOLEAN
  /\ provider.submissions \in Nat
  /\ faults \in 0..MaxFaults

\* The provider is asked at most once, and only for an intent that is already
\* durable: no crash, lost lease, retry, resume or reconciliation pays twice.
OnePaidSubmission == provider.submissions <= job.attempt /\ job.attempt <= 1

\* What the row says happened is backed by committed proof and by the provider:
\* a reference by submit evidence, a result by the ledger, a verdict by a
\* receipt and an effect that really completed.
OutcomeProven ==
  /\ job.ref => "submit" \in proof /\ provider.submissions = 1
  /\ job.result => "ledger" \in proof
  /\ job.status \in {"evaluating", "approved", "rejected"} =>
       /\ EvidenceComplete /\ "receipt" \in proof
       /\ job.ref /\ job.result
       /\ provider.state = "completed"

\* A job that ended is never written again, whichever worker wakes up late.
TerminalIsFinal == [][job.status \in Terminal => job' = job]_vars

\* A recorded cancellation is not lost to a worker, a resume or a callback that
\* read the schedule before it: it stays until a worker acknowledges it.
CancelIntentKept ==
  [][HasSchedule /\ schedule.cancellation = "requested"
       => schedule'.cancellation \in {"requested", "acknowledged"}]_vars

\* Acknowledged and canceled are one commit: neither is seen without the other
\* unless the provider itself reported the cancellation.
AcknowledgedMeansCanceled ==
  HasSchedule /\ schedule.cancellation = "acknowledged" => job.status = "canceled"

\* No schedule runs past the deadline: a job parked on a callback or a backoff,
\* resumed or not, is claimed again in time to be expired.
WakesByDeadline == HasSchedule => schedule.due = 0 \/ schedule.due <= schedule.deadline

\* With a schedule, every job ends: the deadline reaps what no callback,
\* no provider and no authority ever lets through.
EveryJobEnds == HasSchedule => <>(job.status \in Terminal)

\* What is on the row is proven, an acknowledged cancellation has happened, and
\* the job is due in time for its deadline.
JobSound == TypeOK /\ OutcomeProven /\ AcknowledgedMeansCanceled /\ WakesByDeadline
=============================================================================
