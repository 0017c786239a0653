------------------------- MODULE ProviderJobs_proofs -------------------------
(***************************************************************************)
(* What holds of ProviderJobs for every set of workers, callers, events    *)
(* and adapters, every lease, window and retry budget.                     *)
(*                                                                         *)
(* The rows that matter are three: the one in the table, the one a worker  *)
(* read at its claim and the one it means to commit.  RowOK is what is     *)
(* true of each of them, IterationOK of a worker between its claim and its *)
(* commit, and SeenOK of a schedule somebody read and will write back.     *)
(***************************************************************************)
EXTENDS ProviderJobs, TLAPS

Branches ==
  {"expire", "cancel", "estimate", "intend", "submit", "record", "ingest", "reconcile",
   "collect", "park", "poll", "retrieve", "store", "receipt", "evaluate"}

Seens ==
  IF HasSchedule
  THEN [revision : Nat \ {0}, attempts : 0..MaxAttempts,
        cancellation : {"none", "requested", "unsupported", "acknowledged"}]
  ELSE {NoSchedule}

Busy == [pc : Branches, job : Rows, seen : Seens]
Settling == [pc : {"settle"}, job : Rows, seen : Seens, next : Rows,
             plan : {"none", "retry", "park", "acknowledge"}, fresh : BOOLEAN]
Pending == [kind : {"cancel", "resume"}, seen : Seens]
           \cup [kind : {"callback"}, event : Events, seen : Seens]

Types ==
  /\ TypeOK
  /\ provider \in [state : {"none", "running", "completed", "failed", "canceled"},
                   submissions : Nat]
  /\ worker \in [Workers -> {Idle} \cup Busy \cup Settling]
  /\ caller \in [Callers -> [kind : {"none", "done"}] \cup Pending]
  /\ \A c \in Callers : caller[c] \in Pending => HasSchedule

\* What the row says happened has its evidence, and no row from before the
\* submission has an attempt behind it.
RowOK(row) ==
  /\ row.status \in {"planned", "estimated"} => row.attempt = 0
  /\ row.status \in Waiting \cup {"retrieving"} => row.ref
  /\ row.ref => "submit" \in proof
  /\ row.ref /\ Completion = "synchronous" => row.result /\ row.completed
  /\ row.status \in {"evaluating", "approved", "rejected"} =>
       /\ {"submit", "ledger", "receipt"} \subseteq proof
       /\ Completion = "asynchronous" => "retrieve" \in proof
       /\ row.ref /\ row.result

\* The branch a worker is on fits the row it read.
BranchOK(k) ==
  /\ k.job.status \notin Terminal
  /\ k.pc \in {"cancel", "park"} => HasSchedule
  /\ k.pc = "estimate" => k.job.status = "planned"
  /\ k.pc = "intend" => k.job.status = "estimated"
  /\ k.pc \in {"submit", "record", "ingest", "reconcile"} =>
       k.job.status = "submitting"
  /\ k.pc \in {"submit", "record", "ingest"} => k.job.attempt = 1
  /\ k.pc \in {"collect", "park", "poll"} => k.job.status \in Waiting
  /\ k.pc \in {"retrieve", "store", "receipt"} => k.job.status = "retrieving"
  /\ k.pc = "evaluate" => k.job.status = "evaluating"
  /\ k.pc = "receipt" => k.job.result
  /\ k.pc \in {"retrieve", "store", "poll"} => Completion = "asynchronous"
  /\ k.pc = "ingest" => Completion = "synchronous" /\ "submit" \in proof
  /\ k.pc = "record" => provider.submissions = 1

\* What a worker will commit is again a row that is in order.
PlanOK(k) ==
  /\ RowOK(k.next)
  /\ k.next.attempt = k.job.attempt
  /\ k.plan # "none" => HasSchedule
  /\ k.plan = "retry" => k.seen.attempts < MaxAttempts
  /\ k.plan = "acknowledge" => k.next.status = "canceled"

IterationOK(k) ==
  \/ k = Idle
  \/ k \in Busy /\ RowOK(k.job) /\ BranchOK(k)
  \/ k \in Settling /\ RowOK(k.job) /\ k.job.status \notin Terminal /\ PlanOK(k)

\* The effect at the provider, and the evidence there is of it.
EffectOK ==
  /\ provider.submissions <= job.attempt
  /\ provider.submissions = 0 => provider.state = "none"
  /\ provider.submissions = 1 /\ Completion = "synchronous" => provider.state = "completed"
  /\ "submit" \in proof => provider.submissions = 1
  /\ "retrieve" \in proof => provider.state = "completed" /\ Completion = "asynchronous"
  /\ job.result => "ledger" \in proof

\* Whoever is about to submit is the only one, and the first.
SubmitterOK ==
  \A w \in Workers : worker[w].pc = "submit" =>
    /\ job.attempt = 1 /\ provider.submissions = 0
    /\ \A v \in Workers : worker[v].pc = "submit" => v = w

JobOK ==
  /\ RowOK(job)
  /\ \A w \in Workers : IterationOK(worker[w])
  /\ EffectOK
  /\ SubmitterOK

\* A schedule that was read is the present one, or its revision is behind.
SeenOK(seen) ==
  /\ seen.revision <= schedule.revision
  /\ seen.revision = schedule.revision =>
       seen.attempts = schedule.attempts /\ seen.cancellation = schedule.cancellation

ScheduleOK ==
  HasSchedule =>
    /\ \A w \in Workers : worker[w] # Idle => SeenOK(worker[w].seen)
    /\ \A c \in Callers : caller[c] \in Pending =>
         /\ SeenOK(caller[c].seen)
         /\ caller[c].kind \in {"cancel", "resume"} => caller[c].seen.cancellation = "none"

IInv == Types /\ JobOK /\ ScheduleOK /\ AcknowledgedMeansCanceled /\ WakesByDeadline

-----------------------------------------------------------------------------
(* What a worker does on its branch: it alone moves, by its own hand; the   *)
(* table's row, the lease and the schedule stay as they are.                *)

LEMMA Initially == Init => IInv
<1> SUFFICES ASSUME Init PROVE IInv
  OBVIOUS
<1> USE ProviderAssumption
<1>1. Types
  BY DEF Init, Types, TypeOK, Rows, Statuses, Schedules, NoSchedule, Nobody, Pending,
         HasSchedule, Transport
<1>2. JobOK
  BY DEF Init, JobOK, RowOK, IterationOK, EffectOK, SubmitterOK, Waiting, Idle
<1>3. ScheduleOK /\ AcknowledgedMeansCanceled /\ WakesByDeadline
  BY DEF Init, ScheduleOK, AcknowledgedMeansCanceled, WakesByDeadline, Pending, HasSchedule,
         Idle
<1> QED
  BY <1>1, <1>2, <1>3 DEF IInv

\* Evidence is only added, and the adapter stays.
Grows ==
  /\ adapter' = adapter
  /\ proof \subseteq proof'
  /\ provider.submissions = 1 => provider'.submissions = 1

\* A row that is in order stays so while evidence is only added.
LEMMA RowStays ==
  ASSUME Grows, NEW row, RowOK(row) PROVE RowOK(row)'
BY DEF Grows, RowOK, Completion

\* So does the iteration of a worker that does nothing.
LEMMA IterationStays ==
  ASSUME Grows, NEW k, IterationOK(k) PROVE IterationOK(k)'
<1>1. (Busy = Busy') /\ (Settling = Settling') /\ (HasSchedule = HasSchedule')
  BY DEF Grows, Busy, Settling, Seens, HasSchedule, Transport
<1>2. CASE k = Idle
  BY <1>2 DEF IterationOK
<1>3. CASE k \in Busy /\ RowOK(k.job) /\ BranchOK(k)
  <2>1. RowOK(k.job)'
    BY <1>3, RowStays
  <2>2. BranchOK(k)'
    BY <1>1, <1>3 DEF Grows, BranchOK, Completion
  <2> QED
    BY <1>1, <1>3, <2>1, <2>2 DEF IterationOK
<1>4. CASE k \in Settling /\ RowOK(k.job) /\ k.job.status \notin Terminal /\ PlanOK(k)
  <2>1. RowOK(k.job)' /\ RowOK(k.next)'
    BY <1>4, RowStays DEF PlanOK
  <2>2. PlanOK(k)'
    BY <1>1, <1>4, <2>1 DEF PlanOK
  <2> QED
    BY <1>1, <1>4, <2>1, <2>2 DEF IterationOK
<1> QED
  BY <1>2, <1>3, <1>4 DEF IterationOK

\* The other workers stay, and this one is in order after its step.
Own(w) ==
  /\ worker' \in [Workers -> {Idle} \cup Busy' \cup Settling']
  /\ \A v \in Workers : v # w => worker'[v] = worker[v]
  /\ IterationOK(worker[w])'
  /\ worker'[w] # Idle => worker[w] # Idle /\ worker'[w].seen = worker[w].seen
  /\ worker'[w].pc # "submit"

\* A worker on a branch, and on which row.
OnBranch(w) ==
  /\ Types /\ w \in Workers
  /\ worker[w] \in Busy /\ RowOK(worker[w].job) /\ BranchOK(worker[w])

LEMMA TypesKept ==
  ASSUME Grows PROVE Busy' = Busy /\ Settling' = Settling /\ HasSchedule' = HasSchedule
BY DEF Grows, Busy, Settling, Seens, HasSchedule, Transport

\* Settling on a row that is in order keeps the worker in order.
LEMMA SettleOwn ==
  ASSUME NEW w, OnBranch(w), Grows,
         NEW next \in Rows, NEW plan \in {"none", "retry", "park", "acknowledge"},
         NEW fresh \in BOOLEAN, Settle(w, next, plan, fresh),
         RowOK(next)', next.attempt = worker[w].job.attempt,
         plan # "none" => HasSchedule,
         plan = "retry" => worker[w].seen.attempts < MaxAttempts,
         plan = "acknowledge" => next.status = "canceled"
  PROVE  Own(w)
<1> PICK k : k = [pc |-> "settle", job |-> worker[w].job, seen |-> worker[w].seen,
                  next |-> next, plan |-> plan, fresh |-> fresh]
  OBVIOUS
<1>1. worker' = [worker EXCEPT ![w] = k] /\ w \in Workers
      /\ worker \in [Workers -> {Idle} \cup Busy \cup Settling]
  BY DEF Settle, OnBranch, Types
<1>2. k \in Settling /\ worker[w] # Idle
  BY DEF OnBranch, Settling, Busy, Idle, Branches
<1>3. RowOK(k.job)' /\ k.job.status \notin Terminal
  BY RowStays DEF OnBranch, BranchOK
<1>4. PlanOK(k)'
  BY TypesKept DEF PlanOK
<1>5. worker'[w] = k
  BY <1>1
<1>6. IterationOK(worker[w])'
  BY <1>2, <1>3, <1>4, <1>5, TypesKept DEF IterationOK
<1> QED
  BY <1>1, <1>2, <1>5, <1>6, TypesKept DEF Own

\* To settle on another status of the row is in order if that status asks
\* for nothing the row does not have.
LEMMA SettleStatusOwn ==
  ASSUME NEW w, OnBranch(w), Grows, NEW row, row = worker[w].job,
         NEW status \in Statuses, NEW plan \in {"none", "retry", "park", "acknowledge"},
         NEW fresh \in BOOLEAN, SettleStatus(w, status, plan, fresh),
         RowOK([row EXCEPT !.status = status])',
         plan # "none" => HasSchedule,
         plan = "retry" => worker[w].seen.attempts < MaxAttempts,
         plan = "acknowledge" => status = "canceled"
  PROVE  Own(w)
<1> DEFINE next == [row EXCEPT !.status = status]
<1>1. row \in Rows
  BY DEF OnBranch, Busy
<1>2. next \in Rows /\ next.attempt = row.attempt /\ next.status = status
  BY <1>1 DEF Rows
<1>3. Settle(w, next, plan, fresh)
  BY DEF SettleStatus
<1> HIDE DEF next
<1> QED
  BY <1>2, <1>3, SettleOwn DEF next

\* An ended job asks for no evidence but that of the reference it has.
LEMMA EndOwn ==
  ASSUME NEW w, OnBranch(w), Grows,
         NEW status \in {"failed", "canceled", "expired"},
         NEW plan \in {"none", "acknowledge"}, NEW fresh \in BOOLEAN,
         SettleStatus(w, status, plan, fresh),
         plan = "acknowledge" => status = "canceled" /\ HasSchedule
  PROVE  Own(w)
<1> PICK row : row = worker[w].job
  OBVIOUS
<1>1. row \in Rows /\ RowOK(row)'
  BY RowStays DEF OnBranch, Busy
<1>2. RowOK([row EXCEPT !.status = status])'
  BY <1>1 DEF RowOK, Rows, Waiting
<1> QED
  BY <1>2, SettleStatusOwn DEF Statuses, Terminal

\* However a branch fails, the job is retried where it was or ends.
LEMMA FailureOwn ==
  ASSUME NEW w, OnBranch(w), Grows, NEW retryable \in BOOLEAN, Failure(w, retryable)
  PROVE  Own(w)
<1> PICK row : row = worker[w].job
  OBVIOUS
<1>1. row \in Rows /\ RowOK(row) /\ RowOK(row)'
  BY RowStays DEF OnBranch, Busy
<1> DEFINE fresh == row.status = "evaluating"
<1>2. fresh \in BOOLEAN
  OBVIOUS
<1>3. CASE SettleStatus(w, "failed", "none", fresh)
  BY <1>2, <1>3, EndOwn
<1>4. CASE /\ HasSchedule /\ worker[w].seen.attempts < MaxAttempts
           /\ row.status \in RetrySources
           /\ SettleStatus(w, IF row.ref THEN row.status ELSE "estimated", "retry", fresh)
  <2>1. row.ref /\ row.status \in Statuses
    BY <1>1, <1>4 DEF RowOK, RetrySources, Statuses, Waiting
  <2>2. row = [row EXCEPT !.status = row.status]
    BY <1>1 DEF Rows
  <2>3. RowOK([row EXCEPT !.status = row.status])'
    BY <1>1, <2>2
  <2> QED
    BY <1>2, <1>4, <2>1, <2>3, SettleStatusOwn
<1> QED
  BY <1>3, <1>4 DEF Failure

\* Giving the iteration up leaves a worker with nothing.
LEMMA DropOwn ==
  ASSUME NEW w \in Workers, Types, Grows, Drop(w) PROVE Own(w)
BY TypesKept DEF Types, Drop, Own, IterationOK, Idle

\* The work goes on to the next step of its branch.
LEMMA GotoOwn ==
  ASSUME NEW w, OnBranch(w), Grows, NEW pc \in {"record", "ingest", "store"}, Goto(w, pc),
         NEW k, k = [worker[w] EXCEPT !.pc = pc], BranchOK(k)'
  PROVE  Own(w)
<1>1. worker' = [worker EXCEPT ![w] = k] /\ w \in Workers
      /\ worker \in [Workers -> {Idle} \cup Busy \cup Settling]
  BY DEF Goto, OnBranch, Types
<1>2. k \in Busy /\ k.job = worker[w].job /\ k.seen = worker[w].seen /\ k.pc = pc
  BY DEF OnBranch, Busy, Branches
<1>3. RowOK(k.job)'
  BY <1>2, RowStays DEF OnBranch
<1>4. worker'[w] = k /\ worker[w] # Idle
  BY <1>1 DEF OnBranch, Busy, Branches, Idle
<1>5. IterationOK(worker[w])'
  BY <1>2, <1>3, <1>4, TypesKept DEF IterationOK
<1> QED
  BY <1>1, <1>2, <1>4, <1>5, TypesKept DEF Own

LEMMA BranchIsOn ==
  ASSUME IInv, NEW w \in Workers, worker[w].pc \in Branches PROVE OnBranch(w)
<1>1. IterationOK(worker[w]) /\ Types
  BY DEF IInv, JobOK
<1>2. worker[w] # Idle
  BY DEF Idle, Branches
<1>3. worker[w] \notin Settling
  BY DEF Settling, Branches
<1> QED
  BY <1>1, <1>2, <1>3 DEF IterationOK, OnBranch

\* A step of one worker on its branch, with what it may add to the effect
\* and its evidence.
BranchStep(w) ==
  /\ Grows /\ Own(w) /\ EffectOK'
  /\ provider'.submissions = provider.submissions \/ worker[w].pc = "submit"
  /\ provider' \in [state : {"none", "running", "completed", "failed", "canceled"},
                    submissions : Nat]
  /\ proof' \subseteq {"submit", "retrieve", "ledger", "receipt"}
  /\ UNCHANGED <<job, schedule, consumed, authority, caller>>
  /\ lease'.owner \in Workers \cup {"nobody"} /\ lease'.left \in -1..Lease
  /\ faults' \in 0..MaxFaults

\* A branch that touches neither the provider nor the evidence.
LEMMA QuietStep ==
  ASSUME IInv, NEW w \in Workers, Own(w),
         UNCHANGED <<adapter, job, lease, schedule, proof, consumed, authority, provider, caller, faults>>
  PROVE  BranchStep(w)
<1>1. Grows
  BY DEF Grows
<1>2. EffectOK'
  BY DEF IInv, JobOK, EffectOK, Completion
<1> QED
  BY <1>1, <1>2 DEF BranchStep, IInv, Types, TypeOK

LEMMA QuietBranches ==
  ASSUME IInv, NEW w \in Workers, adapter' = adapter,
         \/ Expire(w) \/ Estimate(w) \/ MaterializeFails(w) \/ SubmitRefused(w)
         \/ Reconcile(w) \/ Collect(w) \/ Park(w) \/ Poll(w) \/ Evaluate(w)
         \/ RenewalFails(w) \/ AdvanceRefused(w)
  PROVE  BranchStep(w)
<1>1. UNCHANGED <<adapter, job, lease, schedule, proof, consumed, authority, provider, caller, faults>>
  BY DEF Expire, Estimate, MaterializeFails, SubmitRefused, Reconcile, Collect, Park,
         Poll, Evaluate, RenewalFails, AdvanceRefused, Untouched
<1>2. Grows
  BY <1>1 DEF Grows
<1> PICK row : row = worker[w].job
  OBVIOUS
<1>3. ASSUME worker[w].pc \in Branches
      PROVE  OnBranch(w) /\ row \in Rows /\ RowOK(row)' /\ RowOK(row) /\ BranchOK(worker[w])
  BY <1>2, <1>3, BranchIsOn, RowStays DEF OnBranch, Busy
<1>4. CASE Expire(w)
  BY <1>2, <1>3, <1>4, EndOwn, QuietStep, <1>1 DEF Expire, At, Branches
<1>5. CASE Estimate(w)
  <2>1. OnBranch(w) /\ row \in Rows /\ RowOK(row)' /\ row.status = "planned"
    BY <1>3, <1>5 DEF Estimate, At, Branches, BranchOK
  <2>2. RowOK([row EXCEPT !.status = "estimated"])'
    BY <2>1 DEF RowOK, Rows, Waiting
  <2> QED
    BY <1>1, <1>2, <1>5, <2>1, <2>2, SettleStatusOwn, FailureOwn, QuietStep
       DEF Estimate, Statuses
<1>6. CASE MaterializeFails(w) \/ SubmitRefused(w) \/ RenewalFails(w)
  BY <1>1, <1>2, <1>3, <1>6, FailureOwn, QuietStep
     DEF MaterializeFails, SubmitRefused, RenewalFails, At, Branches, Leased
<1>7. CASE Reconcile(w)
  <2>1. OnBranch(w) /\ row \in Rows /\ RowOK(row)' /\ row.status = "submitting"
    BY <1>3, <1>7 DEF Reconcile, At, Branches, BranchOK
  <2>2. CASE /\ "submit" \in proof /\ Completion = "asynchronous"
             /\ Settle(w, Submitted(w), "none", FALSE)
    <3> DEFINE next == [row EXCEPT !.status = "submitted", !.ref = TRUE]
    <3>1. next \in Rows /\ next.attempt = row.attempt
      BY <2>1 DEF Rows, Statuses, Waiting
    <3>2. RowOK(next)'
      BY <1>1, <2>1, <2>2 DEF RowOK, Rows, Waiting, Completion
    <3>3. Settle(w, next, "none", FALSE)
      BY <2>2 DEF Submitted
    <3> HIDE DEF next
    <3> QED
      BY <1>1, <1>2, <2>1, <3>1, <3>2, <3>3, SettleOwn, QuietStep
  <2>3. CASE /\ {"submit", "ledger"} \subseteq proof /\ Completion = "synchronous"
             /\ Settle(w, [Submitted(w) EXCEPT !.completed = TRUE, !.result = TRUE],
                       "none", FALSE)
    <3> DEFINE next == [[row EXCEPT !.status = "submitted", !.ref = TRUE]
                          EXCEPT !.completed = TRUE, !.result = TRUE]
    <3>1. next \in Rows /\ next.attempt = row.attempt
      BY <2>1 DEF Rows, Statuses, Waiting
    <3>2. RowOK(next)'
      BY <1>1, <2>1, <2>3 DEF RowOK, Rows, Waiting, Completion
    <3>3. Settle(w, next, "none", FALSE)
      BY <2>3 DEF Submitted
    <3> HIDE DEF next
    <3> QED
      BY <1>1, <1>2, <2>1, <3>1, <3>2, <3>3, SettleOwn, QuietStep
  <2>4. CASE SettleStatus(w, "failed", "none", FALSE)
    BY <1>1, <1>2, <2>1, <2>4, EndOwn, QuietStep
  <2> QED
    BY <1>7, <2>2, <2>3, <2>4 DEF Reconcile
<1>8. CASE Collect(w) \/ Park(w)
  <2>1. OnBranch(w) /\ row \in Rows /\ RowOK(row)' /\ row.status \in Waiting /\ row.ref
    BY <1>3, <1>8 DEF Collect, Park, At, Branches, BranchOK, RowOK
  <2>2. ASSUME NEW s \in Waiting \cup {"retrieving"} PROVE RowOK([row EXCEPT !.status = s])'
    BY <2>1 DEF RowOK, Rows, Waiting
  <2>3. CASE Collect(w)
    BY <1>1, <1>2, <2>1, <2>2, <2>3, SettleStatusOwn, QuietStep DEF Collect, Statuses
  <2>4. CASE Park(w)
    <3> DEFINE s == IF row.status = "submitted" THEN "queued" ELSE row.status
    <3>1. s \in Waiting /\ HasSchedule /\ SettleStatus(w, s, "park", FALSE)
      BY <1>3, <2>1, <2>4 DEF Park, Waiting, At, Branches, BranchOK
    <3> HIDE DEF s
    <3> QED
      BY <1>1, <1>2, <2>1, <2>2, <3>1, SettleStatusOwn, QuietStep DEF Statuses
  <2> QED
    BY <1>8, <2>3, <2>4
<1>9. CASE Poll(w)
  <2>1. /\ OnBranch(w) /\ row \in Rows /\ RowOK(row)' /\ row.status \in Waiting /\ row.ref
        /\ Completion = "asynchronous"
    BY <1>3, <1>9 DEF Poll, At, Branches, BranchOK, RowOK
  <2>2. ASSUME NEW s \in Waiting \cup {"retrieving"} PROVE RowOK([row EXCEPT !.status = s])'
    BY <2>1 DEF RowOK, Rows, Waiting
  <2>3. ASSUME NEW s \in {"queued", "processing", "suspected-stalled"},
               SettleStatus(w, s, "none", FALSE)
        PROVE  BranchStep(w)
    BY <1>1, <1>2, <2>1, <2>2, <2>3, SettleStatusOwn, QuietStep DEF Statuses, Waiting
  <2>4. ASSUME Settle(w, [row EXCEPT !.status = "retrieving", !.completed = TRUE],
                      "none", FALSE)
        PROVE  BranchStep(w)
    <3> DEFINE next == [row EXCEPT !.status = "retrieving", !.completed = TRUE]
    <3>1. next \in Rows /\ next.attempt = row.attempt
      BY <2>1 DEF Rows, Statuses
    <3>2. RowOK(next)'
      BY <1>1, <2>1 DEF RowOK, Rows, Waiting, Completion
    <3>3. Settle(w, next, "none", FALSE)
      BY <2>4
    <3> HIDE DEF next
    <3> QED
      BY <1>1, <1>2, <2>1, <3>1, <3>2, <3>3, SettleOwn, QuietStep
  <2>5. ASSUME NEW s \in {"failed", "canceled"}, SettleStatus(w, s, "none", FALSE)
        PROVE  BranchStep(w)
    BY <1>1, <1>2, <2>1, <2>5, EndOwn, QuietStep
  <2>6. ASSUME NEW retryable \in BOOLEAN, Failure(w, retryable) PROVE BranchStep(w)
    BY <1>1, <1>2, <2>1, <2>6, FailureOwn, QuietStep
  <2> QED
    BY <1>9, <2>3, <2>4, <2>5, <2>6 DEF Poll
<1>10. CASE Evaluate(w)
  <2>1. OnBranch(w) /\ row \in Rows /\ RowOK(row)' /\ row.status = "evaluating"
    BY <1>3, <1>10 DEF Evaluate, At, Branches, BranchOK
  <2>2. ASSUME NEW s \in {"approved", "rejected", "failed"}, SettleStatus(w, s, "none", TRUE)
        PROVE  BranchStep(w)
    <3>1. RowOK([row EXCEPT !.status = s])'
      BY <2>1 DEF RowOK, Rows, Waiting
    <3> QED
      BY <1>1, <1>2, <2>1, <2>2, <3>1, SettleStatusOwn, QuietStep DEF Statuses, Terminal
  <2> QED
    BY <1>1, <1>2, <1>10, <2>2, DropOwn, QuietStep DEF Evaluate, IInv
<1>11. CASE AdvanceRefused(w)
  BY <1>1, <1>2, <1>11, DropOwn, QuietStep DEF AdvanceRefused, IInv
<1> QED
  BY <1>4, <1>5, <1>6, <1>7, <1>8, <1>9, <1>10, <1>11

\* The branches that reach the provider or add evidence.
LEMMA CancelBranch ==
  ASSUME IInv, NEW w \in Workers, adapter' = adapter, CancelAtProvider(w)
  PROVE  BranchStep(w)
<1>1. /\ UNCHANGED <<job, lease, schedule, proof, consumed, authority, caller, faults>>
      /\ provider'.submissions = provider.submissions
      /\ \/ provider' = provider
         \/ provider.state = "running" /\ provider' = [provider EXCEPT !.state = "canceled"]
  BY DEF CancelAtProvider, Untouched, IInv, Types
<1>2. Grows
  BY <1>1 DEF Grows
<1>3. OnBranch(w) /\ HasSchedule
  BY BranchIsOn DEF CancelAtProvider, At, Branches, OnBranch, BranchOK
<1>4. Own(w)
  BY <1>2, <1>3, EndOwn, FailureOwn DEF CancelAtProvider
<1>5. EffectOK'
  BY <1>1 DEF IInv, Types, JobOK, EffectOK, Completion
<1> QED
  BY <1>1, <1>2, <1>4, <1>5 DEF BranchStep, IInv, Types, TypeOK

LEMMA SubmitBranch ==
  ASSUME IInv, NEW w \in Workers, adapter' = adapter, Submit(w)
  PROVE  BranchStep(w)
<1>1. /\ UNCHANGED <<job, lease, schedule, proof, consumed, authority, caller, faults>>
      /\ worker[w].pc = "submit"
      /\ provider' = [state |-> IF Completion = "synchronous" THEN "completed" ELSE "running",
                      submissions |-> provider.submissions + 1]
  BY DEF Submit, Untouched, At
<1>2. job.attempt = 1 /\ provider.submissions = 0
  BY <1>1 DEF IInv, JobOK, SubmitterOK
<1>3. Grows
  BY <1>1, <1>2 DEF Grows
<1>4. OnBranch(w) /\ worker[w].job.status = "submitting" /\ worker[w].job.attempt = 1
  BY <1>1, BranchIsOn DEF Branches, OnBranch, BranchOK
<1>5. EffectOK'
  BY <1>1, <1>2 DEF IInv, JobOK, EffectOK, Completion
<1>6. Own(w)
  <2>1. CASE Goto(w, "record")
    <3> PICK k : k = [worker[w] EXCEPT !.pc = "record"]
      OBVIOUS
    <3>1. k.pc = "record" /\ k.job = worker[w].job
      BY <1>4 DEF OnBranch, Busy
    <3>2. BranchOK(k)'
      BY <1>1, <1>2, <1>4, <3>1 DEF BranchOK, Terminal, Waiting
    <3> QED
      BY <1>3, <1>4, <2>1, <3>2, GotoOwn
  <2>2. CASE Failure(w, TRUE)
    BY <1>3, <1>4, <2>2, FailureOwn
  <2> QED
    BY <2>1, <2>2 DEF Submit
<1> QED
  BY <1>1, <1>2, <1>3, <1>5, <1>6 DEF BranchStep, IInv, Types, TypeOK

LEMMA EvidenceStep ==
  ASSUME IInv, NEW w \in Workers, Own(w), EffectOK',
         proof \subseteq proof', proof' \subseteq {"submit", "retrieve", "ledger", "receipt"},
         UNCHANGED <<adapter, job, lease, schedule, consumed, authority, provider, caller,
                     faults>>
  PROVE  BranchStep(w)
<1>1. Grows
  BY DEF Grows
<1> QED
  BY <1>1 DEF BranchStep, IInv, Types, TypeOK

LEMMA RecordBranch ==
  ASSUME IInv, NEW w \in Workers, adapter' = adapter, RecordSubmission(w)
  PROVE  BranchStep(w)
<1>1. UNCHANGED <<job, lease, schedule, consumed, authority, provider, caller, faults>>
      /\ (proof' = proof \/ proof' = proof \cup {"submit"})
  BY DEF RecordSubmission, Untouched
<1>2. Grows
  BY <1>1 DEF Grows
<1>3. /\ OnBranch(w) /\ worker[w].job.status = "submitting" /\ worker[w].job.attempt = 1
      /\ provider.submissions = 1
  BY BranchIsOn DEF RecordSubmission, At, Branches, OnBranch, BranchOK
<1>4. EffectOK'
  BY <1>1, <1>3 DEF IInv, JobOK, EffectOK, Completion
<1>5. CASE LeaseValid(w) /\ Completion = "synchronous"
  <2>1. proof' = proof \cup {"submit"} /\ Goto(w, "ingest")
    BY <1>5 DEF RecordSubmission
  <2> PICK k : k = [worker[w] EXCEPT !.pc = "ingest"]
    OBVIOUS
  <2>2. k.pc = "ingest" /\ k.job = worker[w].job
    BY <1>3 DEF OnBranch, Busy
  <2>3. BranchOK(k)'
    BY <1>3, <1>5, <2>1, <2>2 DEF BranchOK, Terminal, Waiting, Completion
  <2> QED
    BY <1>1, <1>2, <1>3, <1>4, <2>1, <2>3, GotoOwn, EvidenceStep DEF IInv, Types, TypeOK
<1>6. CASE LeaseValid(w) /\ Completion # "synchronous"
  <2>1. proof' = proof \cup {"submit"} /\ Settle(w, Submitted(w), "none", TRUE)
    BY <1>6 DEF RecordSubmission
  <2> PICK row : row = worker[w].job
    OBVIOUS
  <2>2. row \in Rows /\ RowOK(row)' /\ row.status = "submitting"
    BY <1>2, <1>3, RowStays DEF OnBranch, Busy
  <2> DEFINE next == [row EXCEPT !.status = "submitted", !.ref = TRUE]
  <2>3. next \in Rows /\ next.attempt = row.attempt
    BY <2>2 DEF Rows, Statuses, Waiting
  <2>4. RowOK(next)'
    BY <1>6, <2>1, <2>2 DEF RowOK, Rows, Waiting, Completion
  <2>5. Settle(w, next, "none", TRUE)
    BY <2>1 DEF Submitted
  <2> HIDE DEF next
  <2>6. Own(w)
    BY <1>2, <1>3, <2>3, <2>4, <2>5, SettleOwn
  <2> QED
    BY <1>1, <1>4, <2>1, <2>6, EvidenceStep DEF IInv, Types, TypeOK
<1>7. CASE ~LeaseValid(w)
  <2>1. proof' = proof /\ Own(w)
    BY <1>2, <1>7, DropOwn DEF RecordSubmission, IInv
  <2> QED
    BY <1>1, <1>4, <2>1, EvidenceStep DEF IInv, Types, TypeOK
<1> QED
  BY <1>5, <1>6, <1>7

LEMMA IngestBranch ==
  ASSUME IInv, NEW w \in Workers, adapter' = adapter, IngestSubmission(w)
  PROVE  BranchStep(w)
<1>1. UNCHANGED <<job, lease, schedule, consumed, authority, provider, caller, faults>>
      /\ (proof' = proof \/ proof' = proof \cup {"ledger"})
  BY DEF IngestSubmission, Untouched
<1>2. Grows
  BY <1>1 DEF Grows
<1>3. /\ OnBranch(w) /\ worker[w].job.status = "submitting"
      /\ Completion = "synchronous" /\ "submit" \in proof
  BY BranchIsOn DEF IngestSubmission, At, Branches, OnBranch, BranchOK
<1>4. EffectOK'
  BY <1>1, <1>3 DEF IInv, JobOK, EffectOK, Completion
<1>5. CASE Settle(w, [Submitted(w) EXCEPT !.completed = TRUE, !.result = TRUE], "none", TRUE)
  <2> PICK row : row = worker[w].job
    OBVIOUS
  <2>2. row \in Rows /\ RowOK(row)' /\ row.status = "submitting"
    BY <1>2, <1>3, RowStays DEF OnBranch, Busy
  <2> DEFINE next == [[row EXCEPT !.status = "submitted", !.ref = TRUE]
                        EXCEPT !.completed = TRUE, !.result = TRUE]
  <2>3. next \in Rows /\ next.attempt = row.attempt
    BY <2>2 DEF Rows, Statuses, Waiting
  <2>4. RowOK(next)'
    BY <1>1, <1>3, <2>2 DEF RowOK, Rows, Waiting, Completion
  <2>5. Settle(w, next, "none", TRUE)
    BY <1>5 DEF Submitted
  <2> HIDE DEF next
  <2>6. Own(w)
    BY <1>2, <1>3, <2>3, <2>4, <2>5, SettleOwn
  <2> QED
    BY <1>1, <1>4, <2>6, EvidenceStep DEF IInv, Types, TypeOK
<1>6. CASE Failure(w, FALSE)
  BY <1>1, <1>2, <1>3, <1>4, <1>6, FailureOwn, EvidenceStep DEF IInv, Types, TypeOK
<1> QED
  BY <1>5, <1>6 DEF IngestSubmission

LEMMA RetrieveBranch ==
  ASSUME IInv, NEW w \in Workers, adapter' = adapter, Retrieve(w)
  PROVE  BranchStep(w)
<1>1. /\ UNCHANGED <<job, lease, schedule, consumed, authority, provider, caller, faults>>
      /\ proof' = proof
         \/ (proof' = proof \cup {"retrieve"} /\ provider.state = "completed")
  BY DEF Retrieve, Untouched
<1>2. Grows
  BY <1>1 DEF Grows
<1>3. OnBranch(w) /\ worker[w].job.status = "retrieving" /\ Completion = "asynchronous"
  BY BranchIsOn DEF Retrieve, At, Branches, OnBranch, BranchOK
<1>4. EffectOK'
  BY <1>1, <1>3 DEF IInv, JobOK, EffectOK, Completion
<1>5. CASE Goto(w, "store")
  <2> PICK k : k = [worker[w] EXCEPT !.pc = "store"]
    OBVIOUS
  <2>1. k.pc = "store" /\ k.job = worker[w].job
    BY <1>3 DEF OnBranch, Busy
  <2>2. BranchOK(k)'
    BY <1>1, <1>3, <2>1 DEF BranchOK, Terminal, Waiting, Completion
  <2> QED
    BY <1>1, <1>2, <1>3, <1>4, <1>5, <2>2, GotoOwn, EvidenceStep DEF IInv, Types, TypeOK
<1>6. CASE Drop(w)
  BY <1>1, <1>2, <1>4, <1>6, DropOwn, EvidenceStep DEF IInv, Types, TypeOK
<1>7. ASSUME NEW retryable \in BOOLEAN, Failure(w, retryable) PROVE BranchStep(w)
  BY <1>1, <1>2, <1>3, <1>4, <1>7, FailureOwn, EvidenceStep DEF IInv, Types, TypeOK
<1> QED
  BY <1>5, <1>6, <1>7 DEF Retrieve

LEMMA StoreBranch ==
  ASSUME IInv, NEW w \in Workers, adapter' = adapter, StoreResult(w)
  PROVE  BranchStep(w)
<1>1. UNCHANGED <<job, lease, schedule, consumed, authority, provider, caller, faults>>
      /\ (proof' = proof \/ proof' = proof \cup {"ledger"})
  BY DEF StoreResult, Untouched
<1>2. Grows
  BY <1>1 DEF Grows
<1>3. OnBranch(w) /\ worker[w].job.status = "retrieving" /\ Completion = "asynchronous"
  BY BranchIsOn DEF StoreResult, At, Branches, OnBranch, BranchOK
<1>4. EffectOK'
  BY <1>1, <1>3 DEF IInv, JobOK, EffectOK, Completion
<1>5. CASE Settle(w, [worker[w].job EXCEPT !.result = TRUE], "none", TRUE)
  <2> PICK row : row = worker[w].job
    OBVIOUS
  <2>2. row \in Rows /\ RowOK(row)' /\ row.status = "retrieving"
    BY <1>2, <1>3, RowStays DEF OnBranch, Busy
  <2> DEFINE next == [row EXCEPT !.result = TRUE]
  <2>3. next \in Rows /\ next.attempt = row.attempt
    BY <2>2 DEF Rows
  <2>4. RowOK(next)'
    BY <2>2 DEF RowOK, Rows
  <2>5. Settle(w, next, "none", TRUE)
    BY <1>5
  <2> HIDE DEF next
  <2>6. Own(w)
    BY <1>2, <1>3, <2>3, <2>4, <2>5, SettleOwn
  <2> QED
    BY <1>1, <1>4, <2>6, EvidenceStep DEF IInv, Types, TypeOK
<1>6. ASSUME NEW retryable \in BOOLEAN, Failure(w, retryable) PROVE BranchStep(w)
  BY <1>1, <1>2, <1>3, <1>4, <1>6, FailureOwn, EvidenceStep DEF IInv, Types, TypeOK
<1> QED
  BY <1>5, <1>6 DEF StoreResult

LEMMA ReceiptBranch ==
  ASSUME IInv, NEW w \in Workers, adapter' = adapter, CreateReceipt(w)
  PROVE  BranchStep(w)
<1>1. UNCHANGED <<job, lease, schedule, consumed, authority, provider, caller, faults>>
      /\ (proof' = proof \/ proof' = proof \cup {"receipt"})
  BY DEF CreateReceipt, Untouched
<1>2. Grows
  BY <1>1 DEF Grows
<1>3. OnBranch(w) /\ worker[w].job.status = "retrieving" /\ worker[w].job.result
  BY BranchIsOn DEF CreateReceipt, At, Branches, OnBranch, BranchOK
<1>4. EffectOK'
  BY <1>1, <1>3 DEF IInv, JobOK, EffectOK, Completion
<1>5. CASE /\ EvidenceComplete /\ proof' = proof \cup {"receipt"}
           /\ SettleStatus(w, "evaluating", "none", TRUE)
  <2> PICK row : row = worker[w].job
    OBVIOUS
  <2>1. row \in Rows /\ RowOK(row)' /\ row.result /\ row.ref
    BY <1>2, <1>3, RowStays DEF OnBranch, Busy, RowOK
  <2>2. RowOK([row EXCEPT !.status = "evaluating"])'
    BY <1>5, <1>2, <2>1 DEF RowOK, Rows, Waiting, Completion, EvidenceComplete, Grows
  <2>3. Own(w)
    BY <1>2, <1>3, <1>5, <2>2, SettleStatusOwn DEF Statuses
  <2> QED
    BY <1>1, <1>4, <2>3, EvidenceStep DEF IInv, Types, TypeOK
<1>6. ASSUME NEW retryable \in BOOLEAN, Failure(w, retryable) PROVE BranchStep(w)
  BY <1>1, <1>2, <1>3, <1>4, <1>6, FailureOwn, EvidenceStep DEF IInv, Types, TypeOK
<1> QED
  BY <1>5, <1>6 DEF CreateReceipt

\* A step on a branch keeps the whole invariant.
LEMMA BranchKeeps ==
  ASSUME IInv, NEW w \in Workers, BranchStep(w) PROVE IInv'
<1>1. Types'
  <2>1. TypeOK'
    BY DEF BranchStep, Grows, IInv, Types, TypeOK, HasSchedule, Transport, Schedules
  <2>2. caller' = caller /\ Pending' = Pending /\ HasSchedule' = HasSchedule
    BY DEF BranchStep, Grows, Pending, Seens, HasSchedule, Transport
  <2> QED
    BY <2>1, <2>2 DEF BranchStep, Own, IInv, Types
<1>2. JobOK'
  <2>1. RowOK(job)'
    BY RowStays DEF BranchStep, IInv, JobOK, RowOK, Grows, Completion
  <2>2. ASSUME NEW v \in Workers PROVE IterationOK(worker[v])'
    <3>1. CASE v = w
      BY <3>1 DEF BranchStep, Own
    <3>2. CASE v # w
      <4> PICK k : k = worker[v]
        OBVIOUS
      <4>1. IterationOK(k)' /\ worker'[v] = k
        BY <3>2, IterationStays DEF BranchStep, Own, IInv, JobOK
      <4> QED
        BY <4>1 DEF IterationOK, RowOK, BranchOK, PlanOK, Busy, Settling
    <3> QED
      BY <3>1, <3>2
  <2>3. SubmitterOK'
    BY DEF BranchStep, Own, IInv, JobOK, SubmitterOK
  <2> QED
    BY <2>1, <2>2, <2>3 DEF JobOK, BranchStep
<1>3. ScheduleOK'
  <2>1. Pending' = Pending /\ HasSchedule' = HasSchedule /\ caller' = caller
        /\ schedule' = schedule
    BY DEF BranchStep, Grows, Pending, Seens, HasSchedule, Transport
  <2>2. ASSUME HasSchedule, NEW v \in Workers, worker'[v] # Idle
        PROVE  SeenOK(worker[v].seen)'
    BY <2>1, <2>2 DEF BranchStep, Own, IInv, ScheduleOK, SeenOK
  <2>3. ASSUME HasSchedule, NEW c \in Callers, caller[c] \in Pending
        PROVE  SeenOK(caller[c].seen)'
    BY <2>1, <2>3 DEF IInv, ScheduleOK, SeenOK
  <2> QED
    BY <2>1, <2>2, <2>3 DEF IInv, ScheduleOK
<1>4. AcknowledgedMeansCanceled' /\ WakesByDeadline'
  BY DEF BranchStep, Grows, IInv, AcknowledgedMeansCanceled, WakesByDeadline, HasSchedule,
         Transport
<1> QED
  BY <1>1, <1>2, <1>3, <1>4 DEF IInv

-----------------------------------------------------------------------------
(* The claim, the intent and the commit, which write the row or its lease. *)

LEMMA ClaimKeeps ==
  ASSUME IInv, NEW w \in Workers, ClaimNext(w), adapter' = adapter
  PROVE  IInv'
<1> PICK k : k = [pc |-> Branch, job |-> job, seen |-> Seen]
  OBVIOUS
<1>1. /\ worker' = [worker EXCEPT ![w] = k] /\ worker'[w] = k
      /\ job.status \notin Terminal /\ worker[w] = Idle
      /\ UNCHANGED <<adapter, job, schedule, proof, consumed, authority, provider, caller, faults>>
      /\ lease' = [owner |-> w, left |-> Lease]
  BY DEF ClaimNext, Claimable, IInv, Types
<1>2. Grows
  BY <1>1 DEF Grows
<1>3. Seen \in Seens /\ (HasSchedule => SeenOK(Seen))
  <2>1. CASE HasSchedule
    <3>1. schedule \in Schedules
      BY <2>1 DEF IInv, Types, TypeOK
    <3>2. Seen = [revision |-> schedule.revision, attempts |-> schedule.attempts,
                  cancellation |-> schedule.cancellation]
      BY <2>1 DEF Seen
    <3>3. Seen \in Seens
      BY <2>1, <3>1, <3>2 DEF Seens, Schedules
    <3>4. SeenOK(Seen)
      BY <3>1, <3>2 DEF SeenOK, Schedules
    <3> QED
      BY <3>3, <3>4
  <2>2. CASE ~HasSchedule
    BY <2>2 DEF Seen, Seens
  <2> QED
    BY <2>1, <2>2
<1>4. Branch \in Branches \ {"submit", "record", "ingest", "store"}
  BY <1>1 DEF IInv, Types, TypeOK, Rows, Statuses, Branch, Branches, Waiting
<1>5. k \in Busy
  BY <1>3, <1>4 DEF Busy, IInv, Types, TypeOK
<1>6. BranchOK(k)
  <2>1. k.pc = Branch /\ k.job = job
    OBVIOUS
  <2>2. RowOK(job) /\ job.status \in Statuses
        /\ Completion \in {"synchronous", "asynchronous"}
    BY ProviderAssumption DEF IInv, Types, TypeOK, Rows, JobOK, Completion
  <2>3. CASE Branch \in {"expire", "cancel"}
    <3>1. k.pc = "cancel" => HasSchedule
      BY <1>1, <2>1, <2>2, <2>3 DEF Branch, Statuses, Waiting
    <3> QED
      BY <1>1, <2>1, <2>3, <3>1 DEF BranchOK
  <2>4. CASE Branch \notin {"expire", "cancel"}
    <3>1. CASE job.status \in Waiting
      BY <1>1, <1>4, <2>1, <2>2, <2>4, <3>1
         DEF BranchOK, Branch, Waiting, RowOK, HasSchedule
    <3>2. CASE job.status \notin Waiting
      BY <1>1, <1>4, <2>1, <2>2, <2>4, <3>2 DEF BranchOK, Branch, RowOK, Statuses, Waiting
    <3> QED
      BY <3>1, <3>2
  <2> QED
    BY <2>3, <2>4
<1>7. IterationOK(k)'
  BY <1>2, <1>5, <1>6, IterationStays DEF IterationOK, IInv, JobOK
<1>8. Types'
  <2>1. TypeOK'
    BY <1>1, ProviderAssumption
       DEF IInv, Types, TypeOK, HasSchedule, Transport, Schedules
  <2>2. caller' = caller /\ Pending' = Pending /\ HasSchedule' = HasSchedule
    BY <1>1 DEF Pending, Seens, HasSchedule, Transport
  <2> QED
    BY <1>1, <1>2, <1>5, <2>1, <2>2, TypesKept DEF IInv, Types
<1>9. JobOK'
  <2>1. RowOK(job)' /\ EffectOK'
    BY <1>1 DEF IInv, JobOK, RowOK, EffectOK, Completion
  <2>2. ASSUME NEW v \in Workers PROVE IterationOK(worker[v])'
    <3> PICK i : i = worker'[v]
      OBVIOUS
    <3>1. IterationOK(i)'
      BY <1>1, <1>2, <1>7, IterationStays DEF IInv, JobOK, Types
    <3> QED
      BY <3>1 DEF IterationOK, RowOK, BranchOK, PlanOK, Busy, Settling
  <2>3. SubmitterOK'
    BY <1>1, <1>4 DEF IInv, Types, JobOK, SubmitterOK
  <2> QED
    BY <2>1, <2>2, <2>3 DEF JobOK
<1>10. ScheduleOK'
  <2>1. Pending' = Pending /\ HasSchedule' = HasSchedule
    BY <1>1 DEF Pending, Seens, HasSchedule, Transport
  <2>2. ASSUME HasSchedule, NEW v \in Workers, worker'[v] # Idle
        PROVE  SeenOK(worker[v].seen)'
    BY <1>1, <1>3, <2>2 DEF IInv, Types, ScheduleOK, SeenOK
  <2>3. ASSUME HasSchedule, NEW c \in Callers, caller[c] \in Pending
        PROVE  SeenOK(caller[c].seen)'
    BY <1>1, <2>3 DEF IInv, ScheduleOK, SeenOK
  <2> QED
    BY <1>1, <2>1, <2>2, <2>3 DEF IInv, ScheduleOK
<1>11. AcknowledgedMeansCanceled' /\ WakesByDeadline'
  BY <1>1 DEF IInv, AcknowledgedMeansCanceled, WakesByDeadline, HasSchedule, Transport
<1> QED
  BY <1>8, <1>9, <1>10, <1>11 DEF IInv

\* The intent is written once, over a row that has no attempt behind it, so
\* nobody else is about to submit.
LEMMA IntentKeeps ==
  ASSUME IInv, NEW w \in Workers, BeginSubmission(w), adapter' = adapter
  PROVE  IInv'
<1>1. OnBranch(w) /\ worker[w].job.status = "estimated" /\ worker[w].job.attempt = 0
  BY BranchIsOn DEF BeginSubmission, At, Branches, OnBranch, BranchOK, RowOK
<1>2. CASE ~(HoldsRow(w) /\ authority)
  <2>1. Failure(w, FALSE)
        /\ UNCHANGED <<job, lease, schedule, proof, consumed, authority, provider, caller, faults>>
    BY <1>2 DEF BeginSubmission
  <2>2. Own(w)
    BY <1>1, <2>1, FailureOwn DEF Grows
  <2> QED
    BY <2>1, <2>2, QuietStep, BranchKeeps
<1>3. CASE HoldsRow(w) /\ authority
  <2> PICK row : row = worker[w].job
    OBVIOUS
  <2> PICK n : n = row.attempt + 1
    OBVIOUS
  <2> PICK intent : intent = [row EXCEPT !.status = "submitting", !.attempt = n]
    OBVIOUS
  <2> PICK k : k = [worker[w] EXCEPT !.pc = "submit", !.job = intent]
    OBVIOUS
  <2>0. /\ row \in Rows /\ row.attempt = 0 /\ job = row /\ n = 1
        /\ worker[w] \in Busy /\ worker \in [Workers -> {Idle} \cup Busy \cup Settling]
    BY <1>1, <1>3 DEF OnBranch, Busy, HoldsRow, Types
  <2>1. /\ job = worker[w].job /\ job' = intent /\ worker' = [worker EXCEPT ![w] = k]
        /\ worker'[w] = k
        /\ UNCHANGED <<adapter, lease, schedule, proof, consumed, authority, provider, caller, faults>>
    <3>1. /\ job' = intent
          /\ worker' = [worker EXCEPT ![w] = k]
          /\ UNCHANGED <<lease, schedule, proof, consumed, authority, provider, caller, faults>>
      BY <1>3 DEF BeginSubmission
    <3> QED
      BY <2>0, <3>1
  <2>2. /\ intent \in Rows /\ intent.status = "submitting" /\ intent.attempt = 1
        /\ intent.ref = job.ref /\ intent.result = job.result
        /\ intent.completed = job.completed
    <3>1. n \in 0..1 /\ "submitting" \in Statuses
      BY <2>0 DEF Statuses
    <3> QED
      BY <2>0, <3>1 DEF Rows
  <2>3. Grows
    BY <2>1 DEF Grows
  <2>4. RowOK(intent) /\ job.attempt = 0 /\ provider.submissions = 0
    BY <1>1, <2>1, <2>2 DEF IInv, Types, JobOK, RowOK, EffectOK, Waiting
  <2>5. k \in Busy /\ k.pc = "submit" /\ k.job = intent /\ k.seen = worker[w].seen
        /\ worker[w] # Idle
    <3>1. "submit" \in Branches /\ "idle" \notin Branches
      BY DEF Branches
    <3>2. k.pc = "submit" /\ k.job = intent /\ k.seen = worker[w].seen
      BY <2>0 DEF Busy
    <3>3. k \in Busy
      BY <2>0, <2>2, <3>1 DEF Busy
    <3>4. worker[w] # Idle
      BY <2>0, <3>1 DEF Busy, Idle
    <3> QED
      BY <3>2, <3>3, <3>4
  <2>6. IterationOK(k)'
    <3>1. BranchOK(k)
      BY <2>2, <2>5 DEF BranchOK, Terminal, Waiting
    <3> QED
      BY <2>3, <2>4, <2>5, <3>1, IterationStays DEF IterationOK
  <2>7. Types'
    <3>1. TypeOK'
      BY <2>1, <2>2 DEF IInv, Types, TypeOK, HasSchedule, Transport, Schedules
    <3>2. Pending' = Pending /\ HasSchedule' = HasSchedule
      BY <2>1 DEF Pending, Seens, HasSchedule, Transport
    <3> QED
      BY <2>1, <2>3, <2>5, <3>1, <3>2, TypesKept DEF IInv, Types
  <2>8. JobOK'
    <3>1. RowOK(job)'
      BY <2>1, <2>4 DEF RowOK, Completion
    <3>2. EffectOK'
      BY <2>1, <2>2, <2>4 DEF IInv, JobOK, EffectOK, Completion
    <3>3. ASSUME NEW v \in Workers PROVE IterationOK(worker[v])'
      <4> PICK i : i = worker'[v]
        OBVIOUS
      <4>1. IterationOK(i)'
        BY <2>1, <2>3, <2>6, IterationStays DEF IInv, JobOK, Types
      <4> QED
        BY <4>1 DEF IterationOK, RowOK, BranchOK, PlanOK, Busy, Settling
    <3>4. ASSUME NEW v \in Workers PROVE worker[v].pc # "submit"
      BY <2>4 DEF IInv, JobOK, SubmitterOK
    <3>5. SubmitterOK'
      BY <2>1, <2>2, <2>4, <2>5, <3>4 DEF IInv, Types, SubmitterOK
    <3> QED
      BY <3>1, <3>2, <3>3, <3>5 DEF JobOK
  <2>9. ScheduleOK'
    <3>1. Pending' = Pending /\ HasSchedule' = HasSchedule
      BY <2>1 DEF Pending, Seens, HasSchedule, Transport
    <3>2. ASSUME HasSchedule, NEW v \in Workers, worker'[v] # Idle
          PROVE  SeenOK(worker[v].seen)'
      BY <2>1, <2>5, <3>2 DEF IInv, Types, ScheduleOK, SeenOK
    <3>3. ASSUME HasSchedule, NEW c \in Callers, caller[c] \in Pending
          PROVE  SeenOK(caller[c].seen)'
      BY <2>1, <3>3 DEF IInv, ScheduleOK, SeenOK
    <3> QED
      BY <2>1, <3>1, <3>2, <3>3 DEF IInv, ScheduleOK
  <2>10. AcknowledgedMeansCanceled' /\ WakesByDeadline'
    BY <1>1, <2>1 DEF IInv, AcknowledgedMeansCanceled, WakesByDeadline, HasSchedule, Transport
  <2> QED
    BY <2>7, <2>8, <2>9, <2>10 DEF IInv
<1> QED
  BY <1>2, <1>3

\* A write of the schedule raises its revision, which leaves everything that
\* was read of it behind; and time alone touches nothing of what is kept.
LEMMA ScheduleKept ==
  ASSUME IInv, adapter' = adapter,
         HasSchedule => \/ schedule'.revision = schedule.revision + 1
                        \/ /\ schedule'.revision = schedule.revision
                           /\ schedule'.attempts = schedule.attempts
                           /\ schedule'.cancellation = schedule.cancellation,
         \A v \in Workers : worker'[v] # Idle =>
           worker[v] # Idle /\ worker'[v].seen = worker[v].seen,
         \A c \in Callers : caller'[c] \in Pending => caller'[c] = caller[c]
  PROVE  ScheduleOK'
<1>1. Pending' = Pending /\ HasSchedule' = HasSchedule
  BY DEF Pending, Seens, HasSchedule, Transport
<1>2. ASSUME HasSchedule, NEW seen \in Seens, SeenOK(seen)
      PROVE  SeenOK(seen)'
  <2>1. seen.revision \in Nat /\ schedule.revision \in Nat
    BY <1>2 DEF Seens, Schedules, IInv, Types, TypeOK
  <2> QED
    BY <1>2, <2>1 DEF SeenOK
<1>3. ASSUME HasSchedule, NEW v \in Workers, worker'[v] # Idle
      PROVE  SeenOK(worker[v].seen)'
  <2> PICK seen : seen = worker[v].seen
    OBVIOUS
  <2>1. seen \in Seens /\ SeenOK(seen) /\ worker'[v].seen = seen
    BY <1>3 DEF IInv, Types, ScheduleOK, Busy, Settling
  <2>2. SeenOK(seen)'
    BY <1>2, <1>3, <2>1
  <2> QED
    BY <2>1, <2>2 DEF SeenOK
<1>4. ASSUME HasSchedule, NEW c \in Callers, caller'[c] \in Pending
      PROVE  /\ SeenOK(caller[c].seen)'
             /\ caller'[c].kind \in {"cancel", "resume"} => caller'[c].seen.cancellation = "none"
  <2> PICK seen : seen = caller[c].seen
    OBVIOUS
  <2>1. seen \in Seens /\ SeenOK(seen) /\ caller'[c] = caller[c]
    BY <1>4 DEF IInv, ScheduleOK, Pending
  <2>2. SeenOK(seen)'
    BY <1>2, <1>4, <2>1
  <2> QED
    BY <1>4, <2>1, <2>2 DEF SeenOK, IInv, ScheduleOK
<1> QED
  BY <1>1, <1>3, <1>4 DEF ScheduleOK

\* A schedule that is still the one that was read has what was read of it.
LEMMA CurrentIsSeen ==
  ASSUME IInv, HasSchedule, NEW seen, SeenOK(seen), Current(seen)
  PROVE  seen.revision = schedule.revision /\ seen.attempts = schedule.attempts
         /\ seen.cancellation = schedule.cancellation
BY DEF Current, SeenOK

LEMMA SettlingIs ==
  ASSUME IInv, NEW w \in Workers, worker[w].pc = "settle"
  PROVE  /\ worker[w] \in Settling /\ worker[w] # Idle
         /\ RowOK(worker[w].job) /\ worker[w].job.status \notin Terminal /\ PlanOK(worker[w])
<1>1. IterationOK(worker[w])
  BY DEF IInv, JobOK
<1>2. worker[w] # Idle
  BY DEF Idle
<1>3. worker[w] \notin Busy
  BY DEF Busy, Branches
<1> QED
  BY <1>1, <1>2, <1>3 DEF IterationOK

\* What a commit does to the schedule.
LEMMA AdvanceSchedule ==
  ASSUME IInv, NEW w \in Workers, Advance(w), adapter' = adapter
  PROVE  /\ HasSchedule => schedule' \in Schedules
         /\ ~HasSchedule => schedule' = schedule
         /\ HasSchedule =>
              \/ schedule' = schedule
              \/ /\ schedule'.revision = schedule.revision + 1
                 /\ schedule'.due <= schedule'.deadline \/ schedule'.due = 0
                 /\ \/ schedule'.cancellation = schedule.cancellation
                    \/ /\ schedule'.cancellation = "acknowledged"
                       /\ worker[w].next.status = "canceled"
<1> PICK k : k = worker[w]
  OBVIOUS
<1>1. k \in Settling /\ PlanOK(k) /\ k # Idle
  BY SettlingIs DEF Advance, At
<1>2. CASE k.plan = "none"
  <2>1. schedule' = schedule
    BY <1>2 DEF Advance
  <2> QED
    BY <2>1 DEF IInv, Types, TypeOK
<1>3. CASE k.plan # "none"
  <2>1. HasSchedule /\ schedule \in Schedules
    BY <1>1, <1>3 DEF PlanOK, IInv, Types, TypeOK
  <2>2. /\ k.seen.revision = schedule.revision /\ k.seen.attempts = schedule.attempts
        /\ k.seen.cancellation = schedule.cancellation
    <3>1. SeenOK(k.seen)
      BY <1>1, <2>1 DEF IInv, ScheduleOK
    <3>2. Current(k.seen)
      BY <1>3 DEF Advance, CanAdvance
    <3> QED
      BY <2>1, <3>1, <3>2, CurrentIsSeen
  <2> PICK n : n = schedule.revision + 1
    OBVIOUS
  <2> PICK c : c = schedule.cancellation
    OBVIOUS
  <2>3. n \in Nat \ {0} /\ c \in {"none", "requested", "unsupported", "acknowledged"}
    BY <2>1 DEF Schedules
  <2> PICK kept : kept = [schedule EXCEPT !.cancellation = c, !.revision = n]
    OBVIOUS
  <2>4. kept \in Schedules /\ kept.revision = n /\ kept.cancellation = c
        /\ kept.deadline = schedule.deadline
    BY <2>1, <2>3 DEF Schedules
  <2>5. UntilDeadline \in 0..Window
        /\ \A x \in 0..UntilDeadline : x \in 0..Window /\ (x <= schedule.deadline \/ x = 0)
    BY <2>1, ProviderAssumption DEF UntilDeadline, Schedules
  <2>6. CASE k.plan = "park"
    <3> PICK u : u = UntilDeadline
      OBVIOUS
    <3>1. schedule' = [kept EXCEPT !.wait = "callback", !.due = u]
      BY <2>2, <2>6 DEF Advance
    <3>2. u \in 0..Window /\ (u <= schedule.deadline \/ u = 0)
      BY <2>5
    <3>3. schedule' \in Schedules
      BY <2>4, <3>1, <3>2 DEF Schedules
    <3>4. /\ schedule'.revision = n /\ schedule'.due = u /\ schedule'.cancellation = c
          /\ schedule'.deadline = schedule.deadline
      BY <2>4, <3>1 DEF Schedules
    <3> QED
      BY <2>1, <3>2, <3>3, <3>4
  <2>7. CASE k.plan = "acknowledge"
    <3>1. schedule' = [kept EXCEPT !.wait = "none", !.due = 0,
                                   !.cancellation = "acknowledged"]
      BY <2>2, <2>7 DEF Advance
    <3>2. schedule' \in Schedules
      <4>1. 0 \in 0..Window
        BY ProviderAssumption
      <4> QED
        BY <2>4, <3>1, <4>1 DEF Schedules
    <3>3. schedule'.revision = n /\ schedule'.due = 0
          /\ schedule'.cancellation = "acknowledged"
      BY <2>4, <3>1 DEF Schedules
    <3> QED
      BY <1>1, <2>1, <2>7, <3>2, <3>3 DEF PlanOK
  <2>8. CASE k.plan = "retry"
    <3> PICK a : a = k.seen.attempts + 1
      OBVIOUS
    <3>1. PICK x \in 0..UntilDeadline :
            schedule' = [kept EXCEPT !.wait = "retry", !.due = x, !.attempts = a]
      BY <2>2, <2>8 DEF Advance
    <3>2. a \in 0..MaxAttempts
      <4>1. schedule.attempts \in 0..MaxAttempts /\ k.seen.attempts < MaxAttempts
        BY <1>1, <2>1, <2>8 DEF PlanOK, Schedules
      <4> QED
        BY <2>2, <4>1, ProviderAssumption
    <3>3. x \in 0..Window /\ (x <= schedule.deadline \/ x = 0)
      BY <2>5
    <3>4. schedule' \in Schedules
      BY <2>4, <3>1, <3>2, <3>3 DEF Schedules
    <3>5. /\ schedule'.revision = n /\ schedule'.due = x /\ schedule'.cancellation = c
          /\ schedule'.deadline = schedule.deadline
      BY <2>4, <3>1 DEF Schedules
    <3> QED
      BY <2>1, <3>3, <3>4, <3>5
  <2> QED
    BY <1>1, <1>3, <2>6, <2>7, <2>8 DEF Settling
<1> QED
  BY <1>2, <1>3

\* The commit puts the row the worker planned over the row it read.
LEMMA AdvanceKeeps ==
  ASSUME IInv, NEW w \in Workers, Advance(w), adapter' = adapter
  PROVE  IInv'
<1> PICK k : k = worker[w]
  OBVIOUS
<1>1. /\ k \in Settling /\ RowOK(k.next) /\ k.next.attempt = job.attempt
      /\ job = k.job /\ job' = k.next /\ job.status \notin Terminal /\ k # Idle
  <2>1. k \in Settling /\ PlanOK(k) /\ k # Idle /\ k.job.status \notin Terminal
    BY SettlingIs DEF Advance, At
  <2>2. job = k.job /\ job' = k.next
    BY DEF Advance, CanAdvance, HoldsRow
  <2> QED
    BY <2>1, <2>2 DEF PlanOK
<1>2. /\ k.next.result => "ledger" \in proof
      /\ worker' = [worker EXCEPT ![w] = Idle] /\ lease' = Nobody
      /\ UNCHANGED <<proof, consumed, authority, provider, caller, faults>>
  BY DEF Advance, CanAdvance, Drop
<1>3. Grows
  BY <1>2 DEF Grows
<1>4. Own(w)
  BY <1>3, DropOwn DEF Advance, IInv
<1>5. Types'
  <2>1. TypeOK'
    BY <1>1, <1>2, AdvanceSchedule, ProviderAssumption
       DEF IInv, Types, TypeOK, HasSchedule, Transport, Schedules, Nobody, Settling
  <2>2. Pending' = Pending /\ HasSchedule' = HasSchedule
    BY DEF Pending, Seens, HasSchedule, Transport
  <2> QED
    BY <1>2, <1>4, <2>1, <2>2 DEF Own, IInv, Types
<1>6. JobOK'
  <2>1. RowOK(job)' /\ EffectOK'
    BY <1>1, <1>2 DEF IInv, JobOK, RowOK, EffectOK, Completion
  <2>2. ASSUME NEW v \in Workers PROVE IterationOK(worker[v])'
    <3> PICK i : i = worker'[v]
      OBVIOUS
    <3>1. IterationOK(i)'
      <4>1. CASE v = w
        BY <1>2, <4>1 DEF IterationOK, IInv, Types
      <4>2. CASE v # w
        BY <1>2, <1>3, <4>2, IterationStays DEF IInv, JobOK, Types
      <4> QED
        BY <4>1, <4>2
    <3> QED
      BY <3>1 DEF IterationOK, RowOK, BranchOK, PlanOK, Busy, Settling
  <2>3. SubmitterOK'
    BY <1>1, <1>2, <1>4 DEF Own, IInv, JobOK, SubmitterOK
  <2> QED
    BY <2>1, <2>2, <2>3 DEF JobOK
<1>7. ScheduleOK'
  BY <1>2, <1>4, AdvanceSchedule, ScheduleKept DEF Own
<1>8. AcknowledgedMeansCanceled'
  <2>1. HasSchedule' = HasSchedule
    BY DEF HasSchedule, Transport
  <2>2. CASE HasSchedule /\ schedule'.cancellation = "acknowledged"
    BY <1>1, <2>2, AdvanceSchedule DEF IInv, AcknowledgedMeansCanceled, Terminal
  <2> QED
    BY <2>1, <2>2 DEF AcknowledgedMeansCanceled
<1>9. WakesByDeadline'
  BY AdvanceSchedule DEF IInv, WakesByDeadline, HasSchedule, Transport
<1> QED
  BY <1>5, <1>6, <1>7, <1>8, <1>9 DEF IInv

-----------------------------------------------------------------------------
(* Callers, the provider, those who revoke, and time: none of them writes  *)
(* the row or is a worker.                                                 *)

LEMMA JobKept ==
  ASSUME IInv, UNCHANGED <<adapter, job, worker, proof>>,
         provider'.submissions = provider.submissions, EffectOK'
  PROVE  JobOK'
<1>1. Grows
  BY DEF Grows
<1>2. RowOK(job)'
  BY DEF IInv, JobOK, RowOK, Completion
<1>3. ASSUME NEW v \in Workers PROVE IterationOK(worker[v])'
  <2> PICK i : i = worker[v]
    OBVIOUS
  <2>1. IterationOK(i)'
    BY <1>1, IterationStays DEF IInv, JobOK
  <2> QED
    BY <2>1 DEF IterationOK, RowOK, BranchOK, PlanOK, Busy, Settling
<1>4. SubmitterOK'
  BY DEF IInv, JobOK, SubmitterOK
<1> QED
  BY <1>2, <1>3, <1>4 DEF JobOK

LEMMA RestKeeps ==
  ASSUME IInv, adapter' = adapter,
         (\E w \in Workers : RenewLease(w)) \/ ProviderEnds \/ RevokeAuthority
  PROVE  IInv'
<1>1. /\ UNCHANGED <<job, schedule, proof, consumed, worker, caller, faults>>
      /\ provider' = provider \/ (/\ provider.state = "running"
                                  /\ \E s \in {"completed", "failed"} :
                                       provider' = [provider EXCEPT !.state = s])
      /\ lease' = lease \/ lease' = [lease EXCEPT !.left = Lease]
      /\ authority' \in BOOLEAN
  BY DEF RenewLease, ProviderEnds, RevokeAuthority, IInv, Types, TypeOK
<1>2. /\ provider' \in [state : {"none", "running", "completed", "failed", "canceled"},
                        submissions : Nat]
      /\ provider'.submissions = provider.submissions
      /\ provider' = provider \/ provider.state = "running"
  BY <1>1 DEF IInv, Types
<1>3. EffectOK'
  BY <1>1, <1>2 DEF IInv, Types, JobOK, EffectOK, Completion
<1>4. JobOK'
  BY <1>1, <1>2, <1>3, JobKept
<1>5. lease'.owner \in Workers \cup {"nobody"} /\ lease'.left \in -1..Lease
  <2>1. CASE lease' = lease
    BY <2>1 DEF IInv, Types, TypeOK
  <2>2. CASE \E w \in Workers : RenewLease(w)
    <3>1. lease' = [lease EXCEPT !.left = Lease] /\ lease.left > 0
      BY <2>2 DEF RenewLease, LeaseValid
    <3>2. lease'.owner = lease.owner /\ (lease'.left = Lease \/ lease'.left = lease.left)
      BY <3>1
    <3> QED
      BY <3>2, ProviderAssumption DEF IInv, Types, TypeOK
  <2> QED
    BY <2>1, <2>2 DEF ProviderEnds, RevokeAuthority
<1>6. Types'
  <2>1. TypeOK'
    BY <1>1, <1>2, <1>5 DEF IInv, Types, TypeOK, HasSchedule, Transport, Schedules
  <2>2. Pending' = Pending /\ HasSchedule' = HasSchedule /\ Busy' = Busy
        /\ Settling' = Settling
    BY DEF Pending, Busy, Settling, Seens, HasSchedule, Transport
  <2> QED
    BY <1>1, <1>2, <2>1, <2>2 DEF IInv, Types
<1>7. ScheduleOK'
  BY <1>1, ScheduleKept
<1>8. AcknowledgedMeansCanceled' /\ WakesByDeadline'
  BY <1>1 DEF IInv, AcknowledgedMeansCanceled, WakesByDeadline, HasSchedule, Transport
<1> QED
  BY <1>4, <1>6, <1>7, <1>8 DEF IInv

LEMMA TickKeeps ==
  ASSUME IInv, Tick, adapter' = adapter PROVE IInv'
<1>1. /\ UNCHANGED <<job, proof, consumed, authority, provider, worker, caller>>
      /\ faults' \in 0..MaxFaults
  BY ProviderAssumption DEF Tick, IInv, Types, TypeOK
<1>2. /\ lease'.owner = lease.owner
      /\ lease'.left \in -1..Lease
  <2>1. CASE lease = Nobody
    BY <2>1 DEF Tick, IInv, Types, TypeOK
  <2>2. CASE lease # Nobody
    <3> PICK n : n = Less(lease.left)
      OBVIOUS
    <3>1. n \in -1..Lease
      <4>1. lease.left \in -1..Lease
        BY DEF IInv, Types, TypeOK
      <4> QED
        BY <4>1, ProviderAssumption DEF Less
    <3>2. lease' = [lease EXCEPT !.left = n]
      BY <2>2 DEF Tick
    <3>3. lease'.owner = lease.owner /\ (lease'.left = n \/ lease'.left = lease.left)
      BY <3>2
    <3> QED
      BY <3>1, <3>3 DEF IInv, Types, TypeOK
  <2> QED
    BY <2>1, <2>2
<1>3. ASSUME HasSchedule
      PROVE  /\ schedule' \in Schedules
             /\ schedule'.revision = schedule.revision
             /\ schedule'.attempts = schedule.attempts
             /\ schedule'.cancellation = schedule.cancellation
             /\ schedule'.due = 0 \/ schedule'.due <= schedule'.deadline
  <2> PICK d : d = Less(schedule.deadline)
    OBVIOUS
  <2> PICK u : u = IF schedule.due = 0 THEN 0 ELSE schedule.due - 1
    OBVIOUS
  <2>1. schedule \in Schedules /\ (schedule.due = 0 \/ schedule.due <= schedule.deadline)
    BY <1>3 DEF IInv, Types, TypeOK, WakesByDeadline
  <2>2. schedule.due \in 0..Window /\ schedule.deadline \in -1..Window
    BY <2>1 DEF Schedules
  <2>3. d \in -1..Window /\ u \in 0..Window /\ (u = 0 \/ u <= d)
    BY <2>1, <2>2, ProviderAssumption DEF Less
  <2>4. schedule' = [schedule EXCEPT !.deadline = d, !.due = u]
    BY <1>3 DEF Tick
  <2>5. schedule' \in Schedules
    BY <2>1, <2>3, <2>4 DEF Schedules
  <2> QED
    BY <2>1, <2>3, <2>4, <2>5 DEF Schedules
<1>4. ~HasSchedule => schedule' = schedule
  BY DEF Tick
<1>5. JobOK'
  BY <1>1, JobKept DEF IInv, JobOK, EffectOK, Completion
<1>6. Types'
  <2>1. TypeOK'
    BY <1>1, <1>2, <1>3, <1>4 DEF IInv, Types, TypeOK, HasSchedule, Transport, Schedules
  <2>2. Pending' = Pending /\ HasSchedule' = HasSchedule /\ Busy' = Busy
        /\ Settling' = Settling
    BY DEF Pending, Busy, Settling, Seens, HasSchedule, Transport
  <2> QED
    BY <1>1, <2>1, <2>2 DEF IInv, Types
<1>7. ScheduleOK'
  BY <1>1, <1>3, ScheduleKept
<1>8. AcknowledgedMeansCanceled' /\ WakesByDeadline'
  BY <1>1, <1>3 DEF IInv, AcknowledgedMeansCanceled, WakesByDeadline, HasSchedule, Transport
<1> QED
  BY <1>5, <1>6, <1>7, <1>8 DEF IInv

LEMMA ReadKeeps ==
  ASSUME IInv, NEW c \in Callers, adapter' = adapter,
         ReadForCommand(c) \/ \E e \in Events : ReadForCallback(c, e)
  PROVE  IInv'
<1> PICK k : k = caller'[c]
  OBVIOUS
<1>1. /\ UNCHANGED <<job, lease, schedule, proof, consumed, authority, provider, worker, faults>>
      /\ HasSchedule /\ caller' = [caller EXCEPT ![c] = k]
      /\ \/ k = [kind |-> "done"]
         \/ \E x \in {"cancel", "resume"} :
              k = [kind |-> x, seen |-> Seen] /\ schedule.cancellation = "none"
         \/ \E e \in Events : k = [kind |-> "callback", event |-> e, seen |-> Seen]
  BY DEF ReadForCommand, ReadForCallback, Read, Return, IInv, Types
<1>2. schedule \in Schedules
      /\ Seen = [revision |-> schedule.revision, attempts |-> schedule.attempts,
                 cancellation |-> schedule.cancellation]
  BY <1>1 DEF Seen, IInv, Types, TypeOK
<1>3. Seen \in Seens /\ SeenOK(Seen) /\ Seen.cancellation = schedule.cancellation
  BY <1>1, <1>2 DEF Seens, Schedules, SeenOK
<1>4. /\ k \in [kind : {"none", "done"}] \cup Pending
      /\ k \in Pending => /\ k.seen = Seen
                          /\ k.kind \in {"cancel", "resume"} => schedule.cancellation = "none"
  <2> PICK seen : seen = Seen
    OBVIOUS
  <2>1. seen \in Seens
    BY <1>3
  <2>2. CASE k = [kind |-> "done"]
    BY <2>2 DEF Pending
  <2>3. ASSUME NEW x \in {"cancel", "resume"}, k = [kind |-> x, seen |-> seen]
        PROVE  k \in Pending /\ k.seen = seen
    BY <2>1, <2>3 DEF Pending
  <2>4. ASSUME NEW e \in Events, k = [kind |-> "callback", event |-> e, seen |-> seen]
        PROVE  k \in Pending /\ k.seen = seen /\ k.kind = "callback"
    BY <2>1, <2>4 DEF Pending
  <2> QED
    BY <1>1, <2>2, <2>3, <2>4
<1>6. Types'
  <2>1. TypeOK'
    BY <1>1 DEF IInv, Types, TypeOK, HasSchedule, Transport, Schedules
  <2>2. Pending' = Pending /\ HasSchedule' = HasSchedule /\ Busy' = Busy
        /\ Settling' = Settling
    BY DEF Pending, Busy, Settling, Seens, HasSchedule, Transport
  <2> QED
    BY <1>1, <1>4, <2>1, <2>2 DEF IInv, Types
<1>7. JobOK'
  BY <1>1, JobKept DEF IInv, JobOK, EffectOK, Completion
<1>8. ScheduleOK'
  <2>1. Pending' = Pending /\ HasSchedule' = HasSchedule
    BY DEF Pending, Seens, HasSchedule, Transport
  <2>2. ASSUME NEW v \in Workers, worker[v] # Idle
        PROVE  SeenOK(worker[v].seen)'
    BY <1>1, <2>2 DEF IInv, ScheduleOK, SeenOK
  <2>3. ASSUME NEW d \in Callers, caller'[d] \in Pending
        PROVE  /\ SeenOK(caller[d].seen)'
               /\ caller'[d].kind \in {"cancel", "resume"} =>
                    caller'[d].seen.cancellation = "none"
    <3>1. CASE d = c
      BY <1>1, <1>3, <1>4, <2>3, <3>1 DEF SeenOK, IInv, Types
    <3>2. CASE d # c
      BY <1>1, <2>3, <3>2 DEF IInv, Types, ScheduleOK, SeenOK
    <3> QED
      BY <3>1, <3>2
  <2> QED
    BY <1>1, <2>1, <2>2, <2>3 DEF ScheduleOK
<1>9. AcknowledgedMeansCanceled' /\ WakesByDeadline'
  BY <1>1 DEF IInv, AcknowledgedMeansCanceled, WakesByDeadline, HasSchedule, Transport
<1> QED
  BY <1>6, <1>7, <1>8, <1>9 DEF IInv

LEMMA ResumedIsSchedule ==
  ASSUME NEW s \in Schedules, NEW z, z = 0
  PROVE  [s EXCEPT !.resume = TRUE, !.attempts = z, !.deadline = Window] \in Schedules
<1>1. z \in 0..MaxAttempts /\ Window \in -1..Window
  BY ProviderAssumption
<1> HIDE ProviderAssumption
<1> QED
  BY <1>1 DEF Schedules

\* What a caller writes: nothing when the schedule moved since it was read.
LEMMA CallerSchedule ==
  ASSUME IInv, NEW c \in Callers, adapter' = adapter,
         SaveCancellation(c) \/ SaveResume(c) \/ RecordCallback(c)
  PROVE  /\ HasSchedule
         /\ \/ schedule' = schedule
            \/ /\ schedule' \in Schedules
               /\ schedule'.revision = schedule.revision + 1
               /\ schedule'.due = 0 \/ schedule'.due <= schedule'.deadline
               /\ \/ schedule'.cancellation = schedule.cancellation
                  \/ /\ schedule.cancellation = "none"
                     /\ schedule'.cancellation \in {"requested", "unsupported"}
<1> PICK k : k = caller[c]
  OBVIOUS
<1>1. k \in Pending /\ HasSchedule
  BY DEF IInv, Types, SaveCancellation, SaveResume, RecordCallback
<1>2. /\ schedule \in Schedules /\ SeenOK(k.seen)
      /\ k.kind \in {"cancel", "resume"} => k.seen.cancellation = "none"
      /\ schedule.due = 0 \/ schedule.due <= schedule.deadline
  BY <1>1 DEF IInv, Types, TypeOK, ScheduleOK, WakesByDeadline
<1>3. CASE ~Current(k.seen)
  BY <1>1, <1>3 DEF SaveCancellation, SaveResume, RecordCallback
<1>4. CASE Current(k.seen)
  <2>1. /\ k.seen.revision = schedule.revision
        /\ k.seen.cancellation = schedule.cancellation
    BY <1>1, <1>2, <1>4, CurrentIsSeen
  <2> PICK n : n = schedule.revision + 1
    OBVIOUS
  <2> PICK x : x = schedule.cancellation
    OBVIOUS
  <2> PICK z : z = 0
    OBVIOUS
  <2> PICK woken : woken = [schedule EXCEPT !.wait = "none", !.due = z,
                                            !.cancellation = x, !.revision = n]
    OBVIOUS
  <2>2. n \in Nat \ {0} /\ x \in {"none", "requested", "unsupported", "acknowledged"}
        /\ z \in 0..Window /\ z \in 0..MaxAttempts /\ Window \in -1..Window
    BY <1>2, ProviderAssumption DEF Schedules
  <2>3. woken \in Schedules /\ woken.revision = n /\ woken.cancellation = x /\ woken.due = z
    BY <1>2, <2>2 DEF Schedules
  <2>4. Woken(c) = woken
    BY <2>1 DEF Woken
  <2>5. CASE RecordCallback(c)
    BY <1>1, <2>3, <2>4, <2>5 DEF RecordCallback
  <2>6. CASE SaveResume(c)
    <3>1. schedule' = [woken EXCEPT !.resume = TRUE, !.attempts = z, !.deadline = Window]
      BY <1>4, <2>4, <2>6 DEF SaveResume
    <3>2. schedule' \in Schedules
      BY <2>3, <3>1, ResumedIsSchedule
    <3>3. schedule'.revision = n /\ schedule'.cancellation = x /\ schedule'.due = z
      BY <2>3, <3>1 DEF Schedules
    <3> QED
      BY <1>1, <3>2, <3>3
  <2>7. CASE SaveCancellation(c)
    <3>1. x = "none"
      BY <1>2, <2>1, <2>7 DEF SaveCancellation
    <3>2. CASE Cancellable
      <4>1. schedule' = [woken EXCEPT !.cancellation = "requested"]
        BY <1>4, <2>4, <2>7, <3>2 DEF SaveCancellation
      <4>2. schedule' \in Schedules
        <5>1. woken \in Schedules
          BY <2>3
        <5> QED
          BY <4>1, <5>1 DEF Schedules
      <4>3. schedule'.revision = n /\ schedule'.cancellation = "requested" /\ schedule'.due = z
        BY <2>3, <4>1 DEF Schedules
      <4> QED
        BY <1>1, <3>1, <4>2, <4>3
    <3>3. CASE ~Cancellable
      <4>1. schedule' = [schedule EXCEPT !.cancellation = "unsupported", !.revision = n]
        BY <1>4, <2>7, <3>3 DEF SaveCancellation
      <4>2. schedule' \in Schedules
        <5>1. schedule \in Schedules /\ n \in Nat \ {0}
          BY <1>2, <2>2
        <5> QED
          BY <4>1, <5>1 DEF Schedules
      <4>3. /\ schedule'.revision = n /\ schedule'.cancellation = "unsupported"
            /\ schedule'.due = schedule.due /\ schedule'.deadline = schedule.deadline
        BY <1>2, <4>1 DEF Schedules
      <4> QED
        BY <1>1, <1>2, <3>1, <4>2, <4>3
    <3> QED
      BY <3>2, <3>3
  <2> QED
    BY <2>5, <2>6, <2>7
<1> QED
  BY <1>3, <1>4

LEMMA WriteKeeps ==
  ASSUME IInv, NEW c \in Callers, adapter' = adapter,
         SaveCancellation(c) \/ SaveResume(c) \/ RecordCallback(c)
  PROVE  IInv'
<1>1. /\ UNCHANGED <<job, lease, proof, authority, provider, worker, faults>>
      /\ consumed' \subseteq Events
      /\ caller' = [caller EXCEPT ![c] = [kind |-> "done"]]
  BY DEF SaveCancellation, SaveResume, RecordCallback, Return, IInv, Types, TypeOK, Pending
<1>2. HasSchedule /\ schedule' \in Schedules
  BY CallerSchedule DEF IInv, Types, TypeOK
<1>3. [kind |-> "done"] \notin Pending
  BY DEF Pending
<1>4. Types'
  <2>1. TypeOK'
    BY <1>1, <1>2 DEF IInv, Types, TypeOK, HasSchedule, Transport, Schedules
  <2>2. Pending' = Pending /\ HasSchedule' = HasSchedule /\ Busy' = Busy
        /\ Settling' = Settling
    BY DEF Pending, Busy, Settling, Seens, HasSchedule, Transport
  <2> QED
    BY <1>1, <1>2, <2>1, <2>2 DEF IInv, Types
<1>5. JobOK'
  BY <1>1, JobKept DEF IInv, JobOK, EffectOK, Completion
<1>6. ScheduleOK'
  <2>1. ASSUME NEW d \in Callers, caller'[d] \in Pending PROVE caller'[d] = caller[d]
    BY <1>1, <1>3, <2>1 DEF IInv, Types
  <2> QED
    BY <1>1, <2>1, CallerSchedule, ScheduleKept
<1>7. AcknowledgedMeansCanceled' /\ WakesByDeadline'
  BY <1>1, CallerSchedule
     DEF IInv, AcknowledgedMeansCanceled, WakesByDeadline, HasSchedule, Transport
<1> QED
  BY <1>4, <1>5, <1>6, <1>7 DEF IInv

-----------------------------------------------------------------------------
LEMMA CrashKeeps ==
  ASSUME IInv, NEW w \in Workers, adapter' = adapter, Crash(w) PROVE IInv'
<1>1. UNCHANGED <<job, lease, schedule, proof, consumed, authority, provider, caller>>
      /\ faults' \in 0..MaxFaults
  BY ProviderAssumption DEF Crash, IInv, Types, TypeOK
<1>2. Grows
  BY <1>1 DEF Grows
<1>3. Own(w)
  BY <1>2, DropOwn DEF Crash, IInv
<1>4. EffectOK'
  BY <1>1 DEF IInv, JobOK, EffectOK, Completion
<1>5. BranchStep(w)
  BY <1>1, <1>2, <1>3, <1>4 DEF BranchStep, IInv, Types, TypeOK
<1> QED
  BY <1>5, BranchKeeps

LEMMA StutterKeeps == ASSUME IInv, UNCHANGED vars PROVE IInv'
<1>1. UNCHANGED <<adapter, job, lease, schedule, proof, consumed, authority, provider,
                  worker, caller, faults>>
  BY DEF vars
<1>2. Pending' = Pending /\ HasSchedule' = HasSchedule /\ Busy' = Busy /\ Settling' = Settling
  BY <1>1 DEF Pending, Busy, Settling, Seens, HasSchedule, Transport
<1>3. Types'
  BY <1>1, <1>2 DEF IInv, Types, TypeOK, Schedules
<1>4. JobOK'
  BY <1>1, JobKept DEF IInv, JobOK, EffectOK, Completion
<1>5. ScheduleOK'
  BY <1>1, ScheduleKept
<1>6. AcknowledgedMeansCanceled' /\ WakesByDeadline'
  BY <1>1, <1>2 DEF IInv, AcknowledgedMeansCanceled, WakesByDeadline
<1> QED
  BY <1>3, <1>4, <1>5, <1>6 DEF IInv

\* The invariant the theorems rest on: every row in use is in order, the
\* effect has the evidence it needs, and what was read of the schedule is
\* either still true or known to be old.
LEMMA Invariance == Spec => []IInv
<1>1. IInv /\ [Next]_vars => IInv'
  <2> SUFFICES ASSUME IInv, [Next]_vars PROVE IInv'
    OBVIOUS
  <2>1. ASSUME NEW w \in Workers, Work(w), adapter' = adapter PROVE IInv'
    <3>1. CASE \/ Expire(w) \/ Estimate(w) \/ MaterializeFails(w) \/ SubmitRefused(w)
               \/ Reconcile(w) \/ Collect(w) \/ Park(w) \/ Poll(w) \/ Evaluate(w)
               \/ RenewalFails(w) \/ AdvanceRefused(w)
      BY <2>1, <3>1, QuietBranches, BranchKeeps
    <3>2. CASE \/ CancelAtProvider(w) \/ Submit(w) \/ RecordSubmission(w)
               \/ IngestSubmission(w) \/ Retrieve(w) \/ StoreResult(w) \/ CreateReceipt(w)
      BY <2>1, <3>2, CancelBranch, SubmitBranch, RecordBranch, IngestBranch, RetrieveBranch,
         StoreBranch, ReceiptBranch, BranchKeeps
    <3>3. CASE ClaimNext(w)
      BY <2>1, <3>3, ClaimKeeps
    <3>4. CASE BeginSubmission(w)
      BY <2>1, <3>4, IntentKeeps
    <3>5. CASE Advance(w)
      BY <2>1, <3>5, AdvanceKeeps
    <3> QED
      BY <2>1, <3>1, <3>2, <3>3, <3>4, <3>5 DEF Work
  <2>2. ASSUME NEW w \in Workers, adapter' = adapter, RenewLease(w) PROVE IInv'
    BY <2>2, RestKeeps
  <2>3. ASSUME NEW w \in Workers, adapter' = adapter, Crash(w) PROVE IInv'
    BY <2>3, CrashKeeps
  <2>4. ASSUME NEW c \in Callers, adapter' = adapter, Call(c) PROVE IInv'
    BY <2>4, ReadKeeps, WriteKeeps DEF Call
  <2>5. CASE adapter' = adapter /\ (ProviderEnds \/ RevokeAuthority)
    BY <2>5, RestKeeps
  <2>6. CASE adapter' = adapter /\ Tick
    BY <2>6, TickKeeps
  <2>7. CASE UNCHANGED vars
    BY <2>7, StutterKeeps
  <2> QED
    BY <2>1, <2>2, <2>3, <2>4, <2>5, <2>6, <2>7 DEF Next
<1> QED
  BY <1>1, Initially, PTL DEF Spec

(* The provider is asked at most once, whatever workers crash, lose their  *)
(* lease, retry, resume or reconcile.                                      *)
THEOREM PaidOnce == Spec => []OnePaidSubmission
<1>1. IInv => OnePaidSubmission
  BY DEF IInv, Types, TypeOK, Rows, JobOK, EffectOK, OnePaidSubmission
<1> QED
  BY <1>1, Invariance, PTL

(* The row is in its type and says nothing that is not proven; what was    *)
(* acknowledged as canceled is; and the job is due in time for its deadline.*)
THEOREM Soundness == Spec => []JobSound
<1>1. IInv => OutcomeProven
  <2> SUFFICES ASSUME IInv PROVE OutcomeProven
    OBVIOUS
  <2>1. RowOK(job) /\ EffectOK /\ Completion \in {"synchronous", "asynchronous"}
    BY ProviderAssumption DEF IInv, JobOK, Types, TypeOK, Completion
  <2> QED
    BY <2>1 DEF RowOK, EffectOK, OutcomeProven, EvidenceComplete
<1>2. IInv => JobSound
  BY <1>1 DEF IInv, Types, JobSound
<1> QED
  BY <1>2, Invariance, PTL

\* Only the intent and the commit write the row, both over the row they read.
LEMMA RowWriters ==
  ASSUME IInv, [Next]_vars, job' # job
  PROVE  job.status \notin Terminal
<1>1. PICK w \in Workers : BeginSubmission(w) \/ Advance(w)
  BY DEF Next, vars, Work, Call, Untouched, ClaimNext, Expire, CancelAtProvider, Estimate,
         MaterializeFails, Submit, SubmitRefused, RecordSubmission, IngestSubmission,
         Reconcile, Collect, Park, Poll, Retrieve, StoreResult, CreateReceipt, Evaluate,
         RenewalFails, AdvanceRefused, RenewLease, Crash, ReadForCommand, SaveCancellation,
         SaveResume, RecordCallback, ReadForCallback, ProviderEnds, RevokeAuthority, Tick
<1>2. CASE BeginSubmission(w)
  BY <1>2, BranchIsOn DEF BeginSubmission, At, Branches, OnBranch, BranchOK, HoldsRow
<1>3. CASE Advance(w)
  BY <1>3, SettlingIs DEF Advance, At, CanAdvance, HoldsRow
<1> QED
  BY <1>1, <1>2, <1>3

(* A job that ended is never written again, whichever worker wakes up late. *)
THEOREM EndsOnce == Spec => TerminalIsFinal
<1>1. IInv /\ [Next]_vars => [job.status \in Terminal => job' = job]_vars
  BY RowWriters
<1> QED
  BY <1>1, Invariance, PTL DEF Spec, TerminalIsFinal

(* A recorded cancellation survives every write of the schedule by those   *)
(* who read it before, until a worker acknowledges it.                     *)
THEOREM IntentKept == Spec => CancelIntentKept
<1>1. ASSUME IInv, [Next]_vars, HasSchedule, schedule.cancellation = "requested"
      PROVE  schedule'.cancellation \in {"requested", "acknowledged"}
  <2>1. CASE schedule' = schedule
    BY <1>1, <2>1
  <2>2. ASSUME NEW w \in Workers, Advance(w), adapter' = adapter
        PROVE  schedule'.cancellation \in {"requested", "acknowledged"}
    BY <1>1, <2>2, AdvanceSchedule
  <2>3. ASSUME NEW c \in Callers, adapter' = adapter,
               SaveCancellation(c) \/ SaveResume(c) \/ RecordCallback(c)
        PROVE  schedule'.cancellation \in {"requested", "acknowledged"}
    BY <1>1, <2>3, CallerSchedule
  <2>4. CASE Tick /\ adapter' = adapter
    <3>1. schedule' = [schedule EXCEPT !.deadline = Less(@), !.due = IF @ = 0 THEN 0 ELSE @ - 1]
          /\ schedule \in Schedules
      BY <1>1, <2>4 DEF Tick, IInv, Types, TypeOK
    <3>2. schedule'.cancellation = schedule.cancellation
      BY <3>1 DEF Schedules
    <3> QED
      BY <1>1, <3>2
  <2>5. \/ schedule' = schedule
        \/ \E w \in Workers : Advance(w) /\ adapter' = adapter
        \/ \E c \in Callers : /\ SaveCancellation(c) \/ SaveResume(c) \/ RecordCallback(c)
                              /\ adapter' = adapter
        \/ Tick /\ adapter' = adapter
    BY <1>1
       DEF Next, vars, Work, Call, Untouched, ClaimNext, Expire, CancelAtProvider, Estimate,
           MaterializeFails, BeginSubmission, Submit, SubmitRefused, RecordSubmission,
           IngestSubmission, Reconcile, Collect, Park, Poll, Retrieve, StoreResult,
           CreateReceipt, Evaluate, RenewalFails, AdvanceRefused, RenewLease, Crash,
           ReadForCommand, ReadForCallback, ProviderEnds, RevokeAuthority
  <2> QED
    BY <2>1, <2>2, <2>3, <2>4, <2>5
<1>2. IInv /\ [Next]_vars
        => [HasSchedule /\ schedule.cancellation = "requested"
              => schedule'.cancellation \in {"requested", "acknowledged"}]_vars
  BY <1>1
<1> QED
  BY <1>2, Invariance, PTL DEF Spec, CancelIntentKept
=============================================================================
