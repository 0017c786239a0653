---------------------- MODULE RenderOperations_proofs ----------------------
(***************************************************************************)
(* What holds of RenderOperations for every number of operations, workers, *)
(* requests and attempts, every lease duration, delay and clock lag.       *)
(*                                                                         *)
(* Everything rests on the kinds of writes a row sees, RowSteps: all the   *)
(* interleaving is in that lemma, and a property of the rows is then a     *)
(* case split on the kind of write.                                        *)
(***************************************************************************)
EXTENDS RenderOperations, TLAPS

-----------------------------------------------------------------------------
(* Types of the fields and of the rows the transitions make.               *)

LEMMA FieldTypes ==
    /\ NoTime \in OptionalInstant
    /\ Instant \subseteq OptionalInstant
    /\ Instant = Nat
    /\ {"queued", "running", "waiting", "retrying"} \subseteq Terminal \cup Live
    /\ {"succeeded", "failed", "canceled"} \subseteq Terminal \cup Live
    /\ 0 \in 0..PhaseCount /\ PhaseCount \in 0..PhaseCount
    /\ {Rendering, Verifying, Persisting} \subseteq 0..PhaseCount
    /\ {"none", "worker_lease_expired"} \subseteq ErrorCodes
    /\ Failures \subseteq ErrorCodes
BY RenderPhasesAssumption
   DEF OptionalInstant, Instant, Terminal, Live, Rendering, Verifying,
       Persisting, ErrorCodes

LEMMA NewOperationType ==
    NewOperation(MaxAttempts, 0) \in Row
BY FieldTypes, NatAssumption DEF NewOperation, Row

LEMMA OverwriteType ==
    ASSUME NEW r \in Row, NEW next \in Row
    PROVE  Overwrite(r, next) \in Row
BY DEF Overwrite, Row

LEMMA NoLeaseType ==
    ASSUME NEW r \in Row
    PROVE  NoLease(r) \in Row
BY FieldTypes DEF NoLease, Row

LEMMA StartType ==
    ASSUME NEW r \in Row, NEW now \in Instant
    PROVE  Start(r, now) \in Row
<1>1. r.attempt + 1 \in Nat
  BY DEF Row
<1>2. (IF r.startedAt = NoTime THEN now ELSE r.startedAt) \in OptionalInstant
  BY FieldTypes DEF Row
<1> QED
  BY <1>1, <1>2, FieldTypes DEF Start, Row

LEMMA ClaimedType ==
    ASSUME NEW r \in Row, NEW s \in Row, NEW w \in Workers, NEW now \in Instant
    PROVE  Claimed(r, s, w, now) \in Row
<1> DEFINE next == Start(s, now)
           u == [Overwrite(r, next) EXCEPT !.attempt = next.attempt,
                                           !.startedAt = next.startedAt]
<1>1. next \in Row
  BY StartType
<1>2. u \in Row
  BY <1>1, OverwriteType DEF Row
<1>3. now + LeaseDuration \in OptionalInstant /\ now \in OptionalInstant
  BY NatAssumption, FieldTypes
<1>4. Lease(u, w, now) \in Row
  BY <1>2, <1>3 DEF Lease, Row
<1> QED
  BY <1>4 DEF Claimed

LEMMA ExhaustedType ==
    ASSUME NEW r \in Row, NEW now \in Instant
    PROVE  Exhausted(r, now) \in Row
<1> DEFINE u == [r EXCEPT !.status = "failed", !.updatedAt = now,
                          !.completedAt = now, !.nextAttemptAt = NoTime,
                          !.deadLetteredAt = now,
                          !.error = "worker_lease_expired"]
<1>1. u \in Row
  BY FieldTypes DEF Row
<1> QED
  BY <1>1, NoLeaseType DEF Exhausted

LEMMA AdvanceType ==
    ASSUME NEW r \in Row, NEW now \in Instant,
           NEW p \in {Rendering, Verifying, Persisting}
    PROVE  Advance(r, p, now) \in Row
BY FieldTypes DEF Advance, Row

LEMMA SucceedType ==
    ASSUME NEW r \in Row, NEW now \in Instant
    PROVE  Succeed(r, now) \in Row
BY FieldTypes DEF Succeed, Row

LEMMA FailOrRetryType ==
    ASSUME NEW r \in Row, NEW f \in Failures, NEW now \in Instant,
           NEW next \in OptionalInstant
    PROVE  FailOrRetry(r, f, now, next) \in Row
<1>1. (IF f \in RetryableErrors THEN now ELSE NoTime) \in OptionalInstant
  BY FieldTypes
<1>2. [r EXCEPT !.status = "retrying", !.updatedAt = now,
                !.nextAttemptAt = next] \in Row
  BY FieldTypes DEF Row
<1>3. [r EXCEPT !.status = "failed", !.updatedAt = now, !.completedAt = now,
                !.error = f,
                !.deadLetteredAt =
                    IF f \in RetryableErrors THEN now ELSE NoTime] \in Row
  BY <1>1, FieldTypes DEF Row
<1> QED
  BY <1>2, <1>3 DEF FailOrRetry

LEMMA CanceledType ==
    ASSUME NEW r \in Row, NEW s \in Row, NEW now \in Instant
    PROVE  Canceled(r, s, now) \in Row
<1>1. CancellationInstant(s, now) \in Instant
  BY DEF CancellationInstant, Row
<1>2. Cancel(r, CancellationInstant(s, now)) \in Row
  BY <1>1, FieldTypes DEF Cancel, Row
<1> QED
  BY <1>2, NoLeaseType DEF Canceled

LEMMA RetryType ==
    ASSUME NEW r \in Row, NEW now \in Instant
    PROVE  Retry(r, now) \in Row
<1> DEFINE budget == IF r.attempt >= r.maxAttempts THEN r.attempt + 1
                                                   ELSE r.maxAttempts
           clean == [r EXCEPT !.maxAttempts = budget, !.updatedAt = now,
                              !.completedAt = NoTime, !.deadLetteredAt = NoTime,
                              !.error = "none"]
<1>1. budget \in Nat
  BY DEF Row
<1>2. clean \in Row
  BY <1>1, FieldTypes DEF Row
<1>3. now + 1 \in OptionalInstant
  BY FieldTypes
<1>4. [clean EXCEPT !.status = "queued", !.startedAt = NoTime,
                    !.nextAttemptAt = NoTime] \in Row
  BY <1>2, FieldTypes DEF Row
<1>5. [clean EXCEPT !.status = "retrying", !.nextAttemptAt = now + 1] \in Row
  BY <1>2, <1>3, FieldTypes DEF Row
<1> QED
  BY <1>4, <1>5 DEF Retry

LEMMA RetriedType ==
    ASSUME NEW r \in Row, NEW s \in Row, NEW now \in Instant
    PROVE  Retried(r, s, now) \in Row
<1> DEFINE next == Retry(s, now)
           u == [Overwrite(r, next) EXCEPT !.progress = r.progress,
                                           !.maxAttempts = next.maxAttempts,
                                           !.startedAt = next.startedAt]
<1>1. next \in Row
  BY RetryType
<1>2. u \in Row
  BY <1>1, OverwriteType DEF Row
<1> QED
  BY <1>2, NoLeaseType DEF Retried

-----------------------------------------------------------------------------
(* The inductive invariant behind the types: a worker that is at work has  *)
(* an operation, one in a transaction has read its row, and no stamp is    *)
(* ahead of the clock.                                                     *)

InTransaction == {"advancing", "settling", "recording"}
AtWork == WorkerSteps \ {"idle", "claiming", "dead"}

Consistent ==
    /\ \A w \in Workers :
         /\ pc[w] \in AtWork => run[w].op \in Ops
         /\ pc[w] \in InTransaction =>
              run[w].op \in DOMAIN read[w] /\ pc[w] \in AtWork
         /\ pc[w] = "recording" => run[w].failure \in Failures
    /\ \A a \in Actors : stamp[a] <= clock

IInv == TypeOK /\ Consistent

(* What a step may do to the row of operation o, and which reads of it the *)
(* step may rest on: a worker's, or those of a retry.                      *)

WorkerRead(o, s) == \E w \in Workers : o \in DOMAIN read[w] /\ s = read[w][o]

RetryRead(o, s, now) ==
    \E q \in Requests :
      /\ pc[q] = "retrying" /\ o \in DOMAIN read[q]
      /\ s = read[q][o] /\ now = stamp[q]

ClaimStep(o) ==
    \E w \in Workers, s \in Row, now \in 0..clock :
      /\ WorkerRead(o, s)
      /\ HasAttempts(s)
      /\ CanStart(s, now)
      /\ ClaimFence(row[o], s, now)
      /\ Hydratable(Claimed(row[o], s, w, now))
      /\ row'[o] = Claimed(row[o], s, w, now)

CloseStep(o) ==
    \E s \in Row, now \in 0..clock :
      /\ WorkerRead(o, s)
      /\ ~HasAttempts(s)
      /\ s.status = "running"
      /\ ClaimFence(row[o], s, now)
      /\ Hydratable(Exhausted(row[o], now))
      /\ row'[o] = Exhausted(row[o], now)

AdvanceStep(o) ==
    \E s \in Row, p \in {Rendering, Verifying, Persisting}, now \in 0..clock :
      /\ row[o].status = "running"
      /\ CanAdvance(s, p, now)
      /\ row[o].progress = s.progress /\ row[o].updatedAt = s.updatedAt
      /\ row[o].leaseExpiresAt > now
      /\ Hydratable(Overwrite(row[o], Advance(s, p, now)))
      /\ row'[o] = Overwrite(row[o], Advance(s, p, now))

SucceedStep(o) ==
    \E s \in Row, now \in 0..clock :
      /\ row[o].status = "running"
      /\ CanSucceed(s, now) /\ row[o].updatedAt = s.updatedAt
      /\ checkpoint[o] # 0
      /\ Hydratable(NoLease(Overwrite(row[o], Succeed(s, now))))
      /\ row'[o] = NoLease(Overwrite(row[o], Succeed(s, now)))

FailStep(o) ==
    \E s \in Row, f \in Failures, now \in 0..clock, next \in OptionalInstant :
      LET r == NoLease(Overwrite(row[o], FailOrRetry(s, f, now, next))) IN
      /\ WorkerRead(o, s)
      /\ row[o].status = "running" /\ s.status = "running"
      /\ row[o].attempt = s.attempt /\ row[o].updatedAt = s.updatedAt
      /\ CanFailOrRetry(s, f, now, next)
      /\ Hydratable(r)
      /\ row'[o] = r

RenewStep(o) ==
    \E m \in beats :
      /\ Renewable(row[o], m)
      /\ row'[o] = [row[o] EXCEPT !.heartbeatAt = m.at,
                                  !.leaseExpiresAt = m.at + LeaseDuration,
                                  !.updatedAt = m.at]

CheckpointStep(o) ==
    \E now \in 0..clock :
      /\ row[o].status = "running"
      /\ row[o].updatedAt <= now /\ row[o].leaseExpiresAt > now
      /\ row'[o] = [row[o] EXCEPT !.updatedAt = now]

CancelStep(o) ==
    \E s \in Row, now \in 0..clock :
      /\ CancelFence(row[o])
      /\ Hydratable(Canceled(row[o], s, now))
      /\ row'[o] = Canceled(row[o], s, now)

RetryStep(o) ==
    \E s \in Row, now \in 0..clock :
      /\ RetryRead(o, s, now)
      /\ CanRetry(s, now)
      /\ RetryFence(row[o], s)
      /\ Hydratable(Retried(row[o], s, now))
      /\ row'[o] = Retried(row[o], s, now)

RowStep(o) ==
    \/ row'[o] = row[o]
    \/ ClaimStep(o) \/ CloseStep(o)
    \/ AdvanceStep(o) \/ SucceedStep(o) \/ FailStep(o)
    \/ RenewStep(o) \/ CheckpointStep(o)
    \/ CancelStep(o) \/ RetryStep(o)

RowsStep ==
    /\ DOMAIN row' = Ops
    /\ \A o \in Ops : RowStep(o)
    /\ row' = [o \in Ops |-> row'[o]]

LEMMA ScanSteps ==
    ASSUME TypeOK, Consistent, NEW w \in Workers, NEW last \in Nat,
           row' = Scan(w, last),
           last \in Ops => IsFirst(last, Stops(w)) /\ ~Chokes(w, last),
           \A p \in Stops(w) : last <= p
    PROVE  RowsStep
<1>1. stamp[w] \in 0..clock
  BY DEF TypeOK, Consistent, Actors, Instant
<1>2. ASSUME NEW o \in Ops PROVE RowStep(o)
  <2>0. row'[o] = IF o \in DOMAIN read[w] /\ o < last /\ Closes(w, o)
                    THEN Exhausted(row[o], stamp[w])
                  ELSE IF o = last
                    THEN Claimed(row[o], read[w][o], w, stamp[w])
                  ELSE row[o]
    BY DEF Scan
  <2>1. CASE o \in DOMAIN read[w] /\ o < last /\ Closes(w, o)
    <3>1. read[w][o] \in Row
      BY <2>1 DEF TypeOK, Actors
    <3>2. o \notin Stops(w)
      BY <2>1 DEF Ops
    <3>3. Hydratable(Exhausted(row[o], stamp[w]))
      BY <2>1, <3>2 DEF Stops, Chokes
    <3> QED
      BY <1>1, <2>0, <2>1, <3>1, <3>3 DEF Closes, RowStep, CloseStep, WorkerRead
  <2>2. CASE ~(o \in DOMAIN read[w] /\ o < last /\ Closes(w, o)) /\ o = last
    <3>1. o \in DOMAIN read[w] /\ Wins(w, o) /\ ~Chokes(w, o)
      BY <2>2 DEF IsFirst, Stops
    <3>2. read[w][o] \in Row
      BY <3>1 DEF TypeOK, Actors
    <3>3. Hydratable(Claimed(row[o], read[w][o], w, stamp[w]))
      BY <3>1 DEF Chokes
    <3> QED
      BY <1>1, <2>0, <2>2, <3>1, <3>2, <3>3
         DEF Wins, RowStep, ClaimStep, WorkerRead
  <2>3. CASE ~(o \in DOMAIN read[w] /\ o < last /\ Closes(w, o)) /\ o # last
    BY <2>0, <2>3 DEF RowStep
  <2> QED
    BY <2>1, <2>2, <2>3
<1> QED
  BY <1>2 DEF RowsStep, Scan

LEMMA TransitionSteps ==
    ASSUME TypeOK, Consistent, NEW w \in Workers, pc[w] \in InTransaction
    PROVE  /\ run[w].op \in Ops
           /\ Snapshot(w) \in Row
           /\ stamp[w] \in 0..clock
           /\ run[w].goal \in {Rendering, Verifying, Persisting}
           /\ NextAttemptAt(w) \in OptionalInstant
<1>1. run[w].op \in DOMAIN read[w] /\ run[w].op \in Ops
  BY DEF Consistent
<1>2. Snapshot(w) \in Row
  BY <1>1 DEF Snapshot, TypeOK, Actors
<1>3. stamp[w] \in 0..clock
  BY DEF TypeOK, Consistent, Actors, Instant
<1>4. run[w].goal \in {Rendering, Verifying, Persisting}
  BY DEF TypeOK, Run
<1>5. RetryDelay(run[w].attempt) \in Nat
  BY NatAssumption DEF RetryDelay
<1>6. stamp[w] + 1 \in OptionalInstant /\ stamp[w] + RetryDelay(run[w].attempt) \in OptionalInstant
  BY <1>3, <1>5, FieldTypes
<1> QED
  BY <1>1, <1>2, <1>3, <1>4, <1>6, FieldTypes DEF NextAttemptAt

LEMMA WriteSteps ==
    ASSUME TypeOK, NEW o \in Ops, NEW r, NEW from, Write(o, r, from),
           row'[o] = r => RowStep(o)
    PROVE  RowsStep
<1>1. row' = [row EXCEPT ![o] = r] /\ DOMAIN row = Ops
  BY DEF Write, TypeOK
<1>2. RowStep(o)
  BY <1>1
<1>3. ASSUME NEW p \in Ops, p # o PROVE RowStep(p)
  BY <1>1, <1>3 DEF RowStep
<1> QED
  BY <1>1, <1>2, <1>3 DEF RowsStep

LEMMA SameRows ==
    ASSUME TypeOK, row' = row
    PROVE  RowsStep
<1>1. row' = [o \in Ops |-> row'[o]] /\ DOMAIN row' = Ops
  BY DEF TypeOK
<1> QED
  BY <1>1 DEF RowsStep, RowStep

LEMMA UpdateSteps ==
    ASSUME TypeOK, Consistent, NEW w \in Workers, pc[w] \in InTransaction,
           NEW can \in BOOLEAN, NEW next, Accepted(w, can, next)
    PROVE  LET r == row[run[w].op]  s == Snapshot(w)  u == Updated(w, next) IN
           /\ r.status = "running" /\ s.status = "running"
           /\ r.progress = s.progress /\ r.updatedAt = s.updatedAt
           /\ r.attempt = s.attempt /\ r.leaseExpiresAt > stamp[w]
           /\ can
           /\ Hydratable(u)
           /\ u = IF Overwrite(r, next).status = "running"
                    THEN Overwrite(r, next) ELSE NoLease(Overwrite(r, next))
BY DEF Accepted, Holds, TransitionFence, Updated

LEMMA NextRows ==
    ASSUME TypeOK, Consistent, Next
    PROVE  RowsStep
<1>1. ASSUME NEW w \in Workers, WorkerStep(w) PROVE RowsStep
  <2>1. CASE ClaimWins(w)
    <3>1. PICK o \in Ops : /\ IsFirst(o, Stops(w))
                           /\ ~Chokes(w, o)
                           /\ row' = Scan(w, o)
      BY <2>1 DEF ClaimWins, Commits
    <3>2. o \in Nat /\ \A p \in Stops(w) : o <= p
      BY <3>1 DEF Ops, IsFirst
    <3> QED
      BY <3>1, <3>2, ScanSteps
  <2>2. CASE ClaimFindsNothing(w)
    <3>1. row' = Scan(w, OpCount + 1) /\ Stops(w) = {}
      BY <2>2 DEF ClaimFindsNothing, Commits
    <3>2. OpCount + 1 \in Nat /\ OpCount + 1 \notin Ops
      BY NatAssumption DEF Ops
    <3> QED
      BY <3>1, <3>2, ScanSteps
  <2>3. CASE AdvanceCommits(w)
    <3>1. pc[w] \in InTransaction
      BY <2>3 DEF AdvanceCommits, InTransaction
    <3>2. Accepted(w, CanAdvanceRun(w), Advanced(w)) /\ CanAdvanceRun(w) \in BOOLEAN
      BY <2>3 DEF AdvanceCommits, CanAdvanceRun, CanAdvance
    <3> DEFINE o == run[w].op  s == Snapshot(w)
               u == Updated(w, Advanced(w))
    <3>3. /\ o \in Ops /\ s \in Row /\ stamp[w] \in 0..clock
          /\ run[w].goal \in {Rendering, Verifying, Persisting}
      BY <3>1, TransitionSteps
    <3>4. /\ row[o].status = "running" /\ s.status = "running"
          /\ row[o].progress = s.progress /\ row[o].updatedAt = s.updatedAt
          /\ row[o].leaseExpiresAt > stamp[w]
          /\ CanAdvance(s, run[w].goal, stamp[w])
          /\ Hydratable(u)
          /\ u = IF Overwrite(row[o], Advanced(w)).status = "running"
                   THEN Overwrite(row[o], Advanced(w))
                   ELSE NoLease(Overwrite(row[o], Advanced(w)))
      BY <3>1, <3>2, UpdateSteps DEF CanAdvanceRun
    <3>5. row[o] \in Row
      BY <3>3 DEF TypeOK
    <3>6. Overwrite(row[o], Advanced(w)).status = "running"
      BY <3>3, <3>4, <3>5 DEF Advanced, Advance, Overwrite, Row
    <3>7. u = Overwrite(row[o], Advance(s, run[w].goal, stamp[w]))
      BY <3>4, <3>6 DEF Advanced
    <3>8. row'[o] = u => RowStep(o)
      BY <3>3, <3>4, <3>7 DEF RowStep, AdvanceStep
    <3>9. Write(o, u, s.status)
      BY <2>3 DEF AdvanceCommits
    <3> HIDE DEF u, o, s
    <3> QED
      BY <3>3, <3>8, <3>9, WriteSteps
  <2>4. CASE SettleCommits(w)
    <3>1. pc[w] \in InTransaction
      BY <2>4 DEF SettleCommits, InTransaction
    <3>2. Accepted(w, CanSettle(w), Settled(w)) /\ CanSettle(w) \in BOOLEAN
      BY <2>4 DEF SettleCommits, CanSettle
    <3> DEFINE o == run[w].op  s == Snapshot(w)
               u == Updated(w, Settled(w))
    <3>3. o \in Ops /\ s \in Row /\ stamp[w] \in 0..clock
      BY <3>1, TransitionSteps
    <3>4. /\ row[o].status = "running" /\ s.status = "running"
          /\ CanSucceed(s, stamp[w]) /\ row[o].updatedAt = s.updatedAt
          /\ checkpoint[o] # 0
          /\ Hydratable(u)
          /\ u = IF Overwrite(row[o], Settled(w)).status = "running"
                   THEN Overwrite(row[o], Settled(w))
                   ELSE NoLease(Overwrite(row[o], Settled(w)))
      BY <3>1, <3>2, UpdateSteps DEF CanSettle
    <3>5. row[o] \in Row
      BY <3>3 DEF TypeOK
    <3>6. Overwrite(row[o], Settled(w)).status = "succeeded"
      BY <3>3, <3>4, <3>5 DEF Settled, Succeed, Overwrite, Row
    <3>7. u = NoLease(Overwrite(row[o], Succeed(s, stamp[w])))
      BY <3>4, <3>6 DEF Settled
    <3>8. row'[o] = u => RowStep(o)
      BY <3>3, <3>4, <3>7 DEF RowStep, SucceedStep
    <3>9. Write(o, u, s.status)
      BY <2>4 DEF SettleCommits
    <3> HIDE DEF u, o, s
    <3> QED
      BY <3>3, <3>8, <3>9, WriteSteps
  <2>5. CASE FailureCommits(w)
    <3>1. pc[w] \in InTransaction /\ pc[w] = "recording"
      BY <2>5 DEF FailureCommits, InTransaction
    <3>2. /\ Accepted(w, CanRecordFailure(w), Failed(w))
          /\ CanRecordFailure(w) \in BOOLEAN
      BY <2>5 DEF FailureCommits, CanRecordFailure, CanFailOrRetry
    <3> DEFINE o == run[w].op  s == Snapshot(w)
               f == run[w].failure  next == NextAttemptAt(w)
               u == Updated(w, Failed(w))
    <3>3. /\ o \in Ops /\ s \in Row /\ stamp[w] \in 0..clock
          /\ next \in OptionalInstant /\ f \in Failures
      BY <3>1, TransitionSteps DEF Consistent
    <3>4. /\ row[o].status = "running" /\ s.status = "running"
          /\ row[o].attempt = s.attempt /\ row[o].updatedAt = s.updatedAt
          /\ CanFailOrRetry(s, f, stamp[w], next)
          /\ Hydratable(u)
          /\ u = IF Overwrite(row[o], Failed(w)).status = "running"
                   THEN Overwrite(row[o], Failed(w))
                   ELSE NoLease(Overwrite(row[o], Failed(w)))
      BY <3>1, <3>2, UpdateSteps DEF CanRecordFailure
    <3>5. row[o] \in Row
      BY <3>3 DEF TypeOK
    <3>6. Overwrite(row[o], Failed(w)).status \in {"retrying", "failed"}
      BY <3>3, <3>5 DEF Failed, FailOrRetry, Overwrite, Row
    <3>7. u = NoLease(Overwrite(row[o], FailOrRetry(s, f, stamp[w], next)))
      BY <3>4, <3>6 DEF Failed
    <3>8. WorkerRead(o, s)
      BY <3>1 DEF WorkerRead, Consistent, Snapshot
    <3>10. row'[o] = u => RowStep(o)
      BY <3>3, <3>4, <3>7, <3>8 DEF RowStep, FailStep
    <3>9. Write(o, u, s.status)
      BY <2>5 DEF FailureCommits
    <3> HIDE DEF u, o, s
    <3> QED
      BY <3>3, <3>10, <3>9, WriteSteps
  <2>6. CASE RecordCheckpoint(w)
    <3> DEFINE o == run[w].op
    <3>1. o \in Ops
      BY <2>6 DEF RecordCheckpoint, Consistent, AtWork, WorkerSteps
    <3>2. CASE row' = row
      BY <3>2, SameRows
    <3>3. CASE row' # row
      <4>1. PICK now \in Stamps : /\ CheckpointFence(row[o], w, now)
                                  /\ row' = [row EXCEPT ![o].updatedAt = now]
        BY <2>6, <3>3 DEF RecordCheckpoint
      <4>2. now \in 0..clock
        BY DEF Stamps
      <4>3. /\ row[o].status = "running"
            /\ row[o].updatedAt <= now /\ row[o].leaseExpiresAt > now
        BY <4>1 DEF CheckpointFence, Holds
      <4>4. DOMAIN row = Ops
        BY DEF TypeOK
      <4>5. \A p \in Ops : RowStep(p)
        BY <3>1, <4>1, <4>2, <4>3, <4>4 DEF RowStep, CheckpointStep
      <4> QED
        BY <4>1, <4>4, <4>5 DEF RowsStep
    <3> QED
      BY <3>2, <3>3
  <2>7. CASE \/ BeginClaim(w) \/ ClaimThrows(w) \/ BeginAdvance(w)
             \/ AdvanceThrows(w) \/ AdvanceRefused(w)
             \/ Recovers(w) \/ FindsNoOutput(w) \/ Stages(w) \/ Revalidated(w)
             \/ GateOpens(w) \/ LooksAtKey(w) \/ Promote(w) \/ BeginSettle(w)
             \/ SettleThrows(w) \/ SettleRefused(w)
             \/ GiveUp(w) \/ BeginRecording(w) \/ FailureNotRecorded(w)
    <3>1. row' = row
      BY <2>7
         DEF BeginClaim, ClaimThrows, BeginAdvance, BeginTransition,
             AdvanceThrows, AdvanceRefused, Recovers, FindsNoOutput, Stages,
             Revalidated, GateOpens, LooksAtKey, Promote, BeginSettle,
             SettleThrows, SettleRefused, GiveUp, BeginRecording, FailureNotRecorded, db
    <3> QED
      BY <3>1, SameRows
  <2> QED
    BY <1>1, <2>1, <2>2, <2>3, <2>4, <2>5, <2>6, <2>7 DEF WorkerStep
<1>2. ASSUME NEW w \in Workers, TimerSendsBeat(w) \/ Shutdown(w) \/ Crash(w)
      PROVE  RowsStep
  <2>1. row' = row
    BY <1>2 DEF TimerSendsBeat, Shutdown, Crash, db
  <2> QED
    BY <2>1, SameRows
<1>3. ASSUME NEW m \in beats, BeatLands(m) PROVE RowsStep
  <2>1. CASE BeatRenews(m)
    <3>1. m.op \in Ops /\ DOMAIN row = Ops
      BY DEF TypeOK, Beat
    <3>2. row' = [row EXCEPT ![m.op] =
                    [row[m.op] EXCEPT !.heartbeatAt = m.at,
                                      !.leaseExpiresAt = m.at + LeaseDuration,
                                      !.updatedAt = m.at]]
      BY <2>1, <3>1 DEF BeatRenews
    <3>3. Renewable(row[m.op], m)
      BY <2>1 DEF BeatRenews
    <3>4. \A p \in Ops : RowStep(p)
      BY <3>1, <3>2, <3>3 DEF RowStep, RenewStep
    <3> QED
      BY <3>1, <3>2, <3>4 DEF RowsStep
  <2>2. CASE BeatSkips(m) \/ BeatRefused(m) \/ BeatErrors(m)
    <3>1. row' = row
      BY <2>2 DEF BeatSkips, BeatRefused, BeatErrors, db
    <3> QED
      BY <3>1, SameRows
  <2> QED
    BY <1>3, <2>1, <2>2 DEF BeatLands
<1>4. ASSUME NEW q \in Requests, RequestStep(q) PROVE RowsStep
  <2>0. stamp[q] \in 0..clock
    BY DEF TypeOK, Consistent, Actors, Instant
  <2>1. CASE CancelCommits(q)
    <3>1. PICK o \in DOMAIN read[q] :
            /\ CancelFence(row[o])
            /\ Hydratable(Canceled(row[o], read[q][o], stamp[q]))
            /\ Write(o, Canceled(row[o], read[q][o], stamp[q]),
                     read[q][o].status)
      BY <2>1 DEF CancelCommits
    <3>2. o \in Ops /\ read[q][o] \in Row
      BY DEF TypeOK, Actors
    <3>3. row'[o] = Canceled(row[o], read[q][o], stamp[q]) => RowStep(o)
      BY <2>0, <3>1, <3>2 DEF RowStep, CancelStep
    <3> QED
      BY <3>1, <3>2, <3>3, WriteSteps
  <2>2. CASE RetryCommits(q)
    <3>1. PICK o \in DOMAIN read[q] :
            /\ Retries(q, o)
            /\ Write(o, Retried(row[o], read[q][o], stamp[q]),
                     read[q][o].status)
      BY <2>2 DEF RetryCommits
    <3>2. o \in Ops /\ read[q][o] \in Row
      BY DEF TypeOK, Actors
    <3>3. row'[o] = Retried(row[o], read[q][o], stamp[q]) => RowStep(o)
      BY <2>0, <2>2, <3>1, <3>2
         DEF Retries, RowStep, RetryStep, RetryRead, RetryCommits
    <3> QED
      BY <3>1, <3>2, <3>3, WriteSteps
  <2>3. CASE \/ BeginCancel(q) \/ CancelThrows(q) \/ CancelFindsTerminal(q)
             \/ BeginRetry(q) \/ RetryDoesNothing(q)
    <3>1. row' = row
      BY <2>3 DEF BeginCancel, BeginRetry, BeginCommand, CancelThrows,
                  CancelFindsTerminal, RetryDoesNothing, db
    <3> QED
      BY <3>1, SameRows
  <2> QED
    BY <1>4, <2>1, <2>2, <2>3 DEF RequestStep
<1>5. CASE Tick
  <2>1. row' = row
    BY <1>5 DEF Tick, db
  <2> QED
    BY <2>1, SameRows
<1> QED
  BY <1>1, <1>2, <1>3, <1>4, <1>5 DEF Next

-----------------------------------------------------------------------------
(* Every kind of write leaves a row of the right type.                     *)

LEMMA RowsTyped ==
    ASSUME TypeOK, RowsStep
    PROVE  row' \in [Ops -> Row]
<1> SUFFICES ASSUME NEW o \in Ops PROVE row'[o] \in Row
  BY DEF RowsStep
<1>0. row[o] \in Row /\ RowStep(o) /\ 0..clock \subseteq Instant
  BY DEF TypeOK, RowsStep, Instant
<1>1. CASE ClaimStep(o)
  BY <1>0, <1>1, ClaimedType DEF ClaimStep
<1>2. CASE CloseStep(o)
  BY <1>0, <1>2, ExhaustedType DEF CloseStep
<1>3. CASE AdvanceStep(o)
  BY <1>0, <1>3, AdvanceType, OverwriteType DEF AdvanceStep
<1>4. CASE SucceedStep(o)
  BY <1>0, <1>4, SucceedType, OverwriteType, NoLeaseType DEF SucceedStep
<1>5. CASE FailStep(o)
  BY <1>0, <1>5, FailOrRetryType, OverwriteType, NoLeaseType DEF FailStep
<1>6. CASE RenewStep(o)
  <2>1. PICK m \in beats :
          row'[o] = [row[o] EXCEPT !.heartbeatAt = m.at,
                                   !.leaseExpiresAt = m.at + LeaseDuration,
                                   !.updatedAt = m.at]
    BY <1>6 DEF RenewStep
  <2>2. m.at \in Instant /\ m.at + LeaseDuration \in Instant
    BY NatAssumption DEF TypeOK, Beat, Instant
  <2> QED
    BY <1>0, <2>1, <2>2, FieldTypes DEF Row
<1>7. CASE CheckpointStep(o)
  BY <1>0, <1>7 DEF CheckpointStep, Row
<1>8. CASE CancelStep(o)
  BY <1>0, <1>8, CanceledType DEF CancelStep
<1>9. CASE RetryStep(o)
  BY <1>0, <1>9, RetriedType DEF RetryStep
<1> QED
  BY <1>0, <1>1, <1>2, <1>3, <1>4, <1>5, <1>6, <1>7, <1>8, <1>9 DEF RowStep

-----------------------------------------------------------------------------
(* A step of one actor changes that actor's local state only.              *)

Steps == WorkerSteps \cup RequestSteps

ReadsTyped ==
    /\ DOMAIN read = Actors
    /\ \A a \in Actors : /\ DOMAIN read[a] \subseteq Ops
                         /\ \A o \in DOMAIN read[a] : read[a][o] \in Row

Local ==
    /\ pc \in [Actors -> Steps]
    /\ run \in [Workers -> Run]
    /\ stamp \in [Actors -> Instant]
    /\ ReadsTyped
    /\ Consistent

Shared ==
    /\ clock \in 0..MaxClock
    /\ feed \in [Ops -> StatusEvent]
    /\ checkpoint \in [Ops -> Nat]
    /\ output \subseteq Ops
    /\ beats \subseteq Beat
    /\ stopping \subseteq Faulty

LEMMA Parts == IInv <=> Local /\ Shared /\ row \in [Ops -> Row]
BY DEF IInv, TypeOK, Local, Shared, ReadsTyped, Steps

LEMMA WorkerMoves ==
    ASSUME Local, clock \in Nat, clock' = clock,
           NEW w \in Workers, NEW step \in WorkerSteps, NEW r \in Run,
           NEW t \in 0..clock, NEW d,
           DOMAIN d \subseteq Ops, \A o \in DOMAIN d : d[o] \in Row,
           pc' = [pc EXCEPT ![w] = step],
           run' = [run EXCEPT ![w] = r],
           stamp' = [stamp EXCEPT ![w] = t],
           DOMAIN read' = Actors, read'[w] = d,
           \A a \in Actors : a # w => read'[a] = read[a],
           step \in AtWork => r.op \in Ops,
           step \in InTransaction => r.op \in DOMAIN d,
           step = "recording" => r.failure \in Failures
    PROVE  Local'
<1>1. w \in Actors
  BY DEF Actors
<1>2. pc' \in [Actors -> Steps]
  BY <1>1 DEF Local, Steps
<1>3. run' \in [Workers -> Run]
  BY DEF Local
<1>4. stamp' \in [Actors -> Instant]
  BY <1>1 DEF Local, Instant
<1>5. ReadsTyped'
  BY <1>1 DEF Local, ReadsTyped
<1>6. \A a \in Actors : stamp'[a] <= clock'
  BY <1>1 DEF Local, Consistent
<1>7. pc'[w] = step /\ run'[w] = r /\ read'[w] = d
  BY <1>1 DEF Local, ReadsTyped
<1>8. \A v \in Workers : v # w =>
        pc'[v] = pc[v] /\ run'[v] = run[v] /\ read'[v] = read[v]
  BY DEF Local, ReadsTyped, Actors
<1>9. step \in InTransaction => step \in AtWork
  BY DEF InTransaction, AtWork
<1>10. Consistent'
  BY <1>6, <1>7, <1>8, <1>9 DEF Local, Consistent
<1> QED
  BY <1>2, <1>3, <1>4, <1>5, <1>10 DEF Local

LEMMA RequestMoves ==
    ASSUME Local, clock \in Nat, clock' = clock,
           NEW q \in Requests, NEW step \in RequestSteps,
           NEW t \in 0..clock, NEW d,
           DOMAIN d \subseteq Ops, \A o \in DOMAIN d : d[o] \in Row,
           pc' = [pc EXCEPT ![q] = step],
           run' = run,
           stamp' = [stamp EXCEPT ![q] = t],
           DOMAIN read' = Actors, read'[q] = d,
           \A a \in Actors : a # q => read'[a] = read[a]
    PROVE  Local'
<1>1. q \in Actors /\ q \notin Workers
  BY RequestsAssumption DEF Actors
<1>2. pc' \in [Actors -> Steps]
  BY <1>1 DEF Local, Steps
<1>3. stamp' \in [Actors -> Instant]
  BY <1>1 DEF Local, Instant
<1>4. ReadsTyped'
  BY <1>1 DEF Local, ReadsTyped
<1>5. \A a \in Actors : stamp'[a] <= clock'
  BY <1>1 DEF Local, Consistent
<1>6. \A v \in Workers : pc'[v] = pc[v] /\ read'[v] = read[v]
  BY <1>1 DEF Local, ReadsTyped, Actors
<1>7. Consistent'
  BY <1>5, <1>6 DEF Local, Consistent
<1> QED
  BY <1>2, <1>3, <1>4, <1>7 DEF Local

LEMMA NoRunType == NoRun \in Run
BY DEF NoRun, Run, NoOp, Rendering

LEMMA WorkerEnds ==
    ASSUME Local, clock \in Nat, clock' = clock, NEW w \in Workers,
           NEW step \in WorkerSteps \ InTransaction, NEW r \in Run,
           EndTransaction(w, step), run' = [run EXCEPT ![w] = r],
           step \in AtWork => r.op \in Ops
    PROVE  Local'
<1>1. DOMAIN NoRead = {}
  BY DEF NoRead
<1>2. step \notin InTransaction /\ step # "recording" /\ 0 \in 0..clock
  BY DEF InTransaction
<1>3. /\ DOMAIN read' = Actors /\ read'[w] = NoRead
      /\ \A a \in Actors : a # w => read'[a] = read[a]
  BY DEF EndTransaction, Local, ReadsTyped, Actors
<1> QED
  BY <1>1, <1>2, <1>3, WorkerMoves DEF EndTransaction

LEMMA WorkerGoes ==
    ASSUME Local, clock \in Nat, clock' = clock, NEW w \in Workers,
           NEW step \in WorkerSteps \ InTransaction, NEW r \in Run,
           Goto(w, step), UNCHANGED <<stamp, read>>,
           run' = [run EXCEPT ![w] = r],
           step \in AtWork => r.op \in Ops
    PROVE  Local'
<1>1. w \in Actors
  BY DEF Actors
<1>2. stamp' = [stamp EXCEPT ![w] = stamp[w]] /\ stamp[w] \in 0..clock
  BY <1>1 DEF Local, Consistent, Instant
<1>3. DOMAIN read' = Actors /\ \A a \in Actors : read'[a] = read[a]
  BY DEF Local, ReadsTyped
<1>4. DOMAIN read[w] \subseteq Ops /\ \A o \in DOMAIN read[w] : read[w][o] \in Row
  BY <1>1 DEF Local, ReadsTyped
<1>5. step \notin InTransaction /\ step # "recording"
  BY DEF InTransaction
<1> QED
  BY <1>1, <1>2, <1>3, <1>4, <1>5, WorkerMoves DEF Goto

LEMMA WorkerBegins ==
    ASSUME Local, row \in [Ops -> Row], clock \in Nat, clock' = clock,
           NEW w \in Workers, NEW step \in WorkerSteps, NEW r \in Run,
           NEW ops \in SUBSET Ops, NEW now \in Stamps,
           stamp' = [stamp EXCEPT ![w] = now],
           BeginTransaction(w, ops, step), run' = [run EXCEPT ![w] = r],
           step \in AtWork => r.op \in Ops,
           step \in InTransaction => r.op \in ops,
           step = "recording" => r.failure \in Failures
    PROVE  Local'
<1> DEFINE d == [o \in ops |-> row[o]]
<1>1. DOMAIN d = ops /\ \A o \in DOMAIN d : d[o] \in Row
  OBVIOUS
<1>2. now \in 0..clock
  BY DEF Stamps
<1>3. /\ DOMAIN read' = Actors /\ read'[w] = d
      /\ \A a \in Actors : a # w => read'[a] = read[a]
      /\ pc' = [pc EXCEPT ![w] = step]
  BY DEF BeginTransaction, Local, ReadsTyped, Actors
<1> HIDE DEF d
<1> QED
  BY <1>1, <1>2, <1>3, WorkerMoves

LEMMA RunSame ==
    ASSUME Local, NEW w \in Workers
    PROVE  run = [run EXCEPT ![w] = run[w]] /\ run[w] \in Run
BY DEF Local

LEMMA RunWithFailure ==
    ASSUME NEW r \in Run, NEW f \in Failures
    PROVE  /\ [r EXCEPT !.failure = f] \in Run
           /\ [r EXCEPT !.failure = f].op = r.op
           /\ [r EXCEPT !.failure = f].failure = f
BY DEF Run

LEMMA RunWithGoal ==
    ASSUME NEW r \in Run, NEW b \in BOOLEAN,
           NEW g \in {Rendering, Verifying, Persisting}
    PROVE  /\ [r EXCEPT !.goal = g] \in Run
           /\ [r EXCEPT !.goal = g].op = r.op
           /\ [r EXCEPT !.staged = b, !.goal = g] \in Run
           /\ [r EXCEPT !.staged = b, !.goal = g].op = r.op
BY DEF Run

LEMMA WorkerLocal ==
    ASSUME IInv, NEW w \in Workers, WorkerStep(w)
    PROVE  Local'
<1> USE Parts
<1>0. /\ Local /\ row \in [Ops -> Row] /\ clock \in Nat
      /\ run[w] \in Run /\ run = [run EXCEPT ![w] = run[w]]
      /\ pc[w] \in AtWork => run[w].op \in Ops
  BY RunSame, NatAssumption DEF Local, Shared, Consistent
<1>a. ASSUME NEW f \in Failures, Fail(w, f), clock' = clock, run[w].op \in Ops
      PROVE Local'
  <2>1. run' = [run EXCEPT ![w] = [run[w] EXCEPT !.failure = f]]
    BY <1>a, <1>0 DEF Fail
  <2>2. "failing" \in WorkerSteps \ InTransaction
    BY DEF WorkerSteps, InTransaction
  <2> QED
    BY <1>0, <1>a, <2>1, <2>2, RunWithFailure, WorkerEnds DEF Fail
<1>b. ASSUME NEW step \in WorkerSteps \ InTransaction, NEW r \in Run,
             EndTransaction(w, step), clock' = clock,
             run' = [run EXCEPT ![w] = r],
             step \in AtWork => r.op \in Ops
      PROVE Local'
  BY <1>0, <1>b, WorkerEnds
<1>c. ASSUME NEW step \in WorkerSteps \ InTransaction, NEW r \in Run,
             Goto(w, step), clock' = clock, UNCHANGED <<stamp, read>>,
             run' = [run EXCEPT ![w] = r],
             step \in AtWork => r.op \in Ops
      PROVE Local'
  BY <1>0, <1>c, WorkerGoes
<1>d. ASSUME NEW from, NEW step \in InTransaction, NEW r \in Run,
             BeginTransition(w, from, step),
             run' = [run EXCEPT ![w] = r],
             run[w].op \in Ops, r.op = run[w].op,
             step = "recording" => r.failure \in Failures
      PROVE Local'
  <2>1. PICK now \in Stamps : stamp' = [stamp EXCEPT ![w] = now]
    BY <1>d DEF BeginTransition
  <2>2. BeginTransaction(w, {run[w].op}, step) /\ clock' = clock
    BY <1>d DEF BeginTransition
  <2>3. step \in WorkerSteps
    BY DEF InTransaction, WorkerSteps
  <2>4. {run[w].op} \in SUBSET Ops
    BY <1>d
  <2> QED
    BY <1>0, <1>d, <2>1, <2>2, <2>3, <2>4, WorkerBegins
<1>e. "idle" \in WorkerSteps \ InTransaction /\ "idle" \notin AtWork
  BY DEF WorkerSteps, InTransaction, AtWork
<1>f. {"advance", "recover", "stage", "gate", "revalidate", "promote",
       "rename", "checkpoint", "settle", "failing"} \subseteq WorkerSteps \ InTransaction
  BY DEF WorkerSteps, InTransaction
<1>g. {"advance", "advancing", "recover", "stage", "gate", "revalidate",
       "promote", "rename", "checkpoint", "settle", "settling", "failing",
       "recording"}
      \subseteq AtWork
  BY DEF WorkerSteps, AtWork
<1>h. "transient" \in Failures
  BY DEF Failures, RetryableErrors
<1>i. AfterPhase(run[w].goal) \in {"recover", "revalidate", "promote"}
  BY <1>0 DEF AfterPhase, Run, Rendering, Verifying, Persisting
<1>1. CASE BeginClaim(w)
  <2>1. PICK now \in Stamps :
          /\ stamp' = [stamp EXCEPT ![w] = now]
          /\ BeginTransaction(w, Scanned(now), "claiming")
    BY <1>1 DEF BeginClaim
  <2>2. Scanned(now) \in SUBSET Ops
    BY DEF Scanned
  <2>3. "claiming" \in WorkerSteps /\ "claiming" \notin AtWork \cup InTransaction
        /\ "claiming" # "recording"
    BY DEF WorkerSteps, AtWork, InTransaction
  <2>4. run' = run /\ clock' = clock
    BY <1>1 DEF BeginClaim
  <2> QED
    BY <1>0, <2>1, <2>2, <2>3, <2>4, WorkerBegins
<1>2. CASE ClaimWins(w)
  <2>1. PICK o \in Ops :
          /\ IsFirst(o, Stops(w))
          /\ \/ /\ EndTransaction(w, "advance")
                /\ run' = [run EXCEPT ![w] =
                             [NoRun EXCEPT !.op = o,
                                           !.attempt = row[o].attempt + 1,
                                           !.budget = row[o].maxAttempts]]
             \/ EndTransaction(w, "idle") /\ run' = run
    BY <1>2 DEF ClaimWins
  <2>2. clock' = clock
    BY <1>2 DEF ClaimWins
  <2>3. row[o] \in Row
    BY <1>0
  <2>4. row[o].maxAttempts \in Nat /\ row[o].attempt + 1 \in Nat
    BY <2>3 DEF Row
  <2> DEFINE r == [NoRun EXCEPT !.op = o, !.attempt = row[o].attempt + 1,
                                !.budget = row[o].maxAttempts]
  <2>5. r \in Run /\ r.op = o
    BY <2>4, NoRunType DEF Run
  <2> QED
    BY <1>0, <1>b, <1>e, <1>f, <2>1, <2>2, <2>5
<1>3. CASE ClaimThrows(w) \/ ClaimFindsNothing(w)
  BY <1>0, <1>3, <1>b, <1>e DEF ClaimThrows, ClaimFindsNothing
<1>4. CASE BeginAdvance(w)
  BY <1>0, <1>4, <1>d, <1>g DEF BeginAdvance, BeginTransition, InTransaction
<1>5. CASE AdvanceCommits(w)
  <2>1. run[w].op \in Ops /\ clock' = clock
    BY <1>0, <1>5, <1>g DEF AdvanceCommits
  <2>2. \/ EndTransaction(w, AfterPhase(run[w].goal)) /\ run' = run
        \/ Fail(w, "transient")
    BY <1>5 DEF AdvanceCommits
  <2> QED
    BY <1>0, <1>a, <1>b, <1>f, <1>h, <1>i, <2>1, <2>2
<1>6. CASE AdvanceThrows(w) \/ SettleThrows(w)
  BY <1>0, <1>6, <1>a, <1>g, <1>h DEF AdvanceThrows, SettleThrows
<1>7. CASE AdvanceRefused(w) \/ SettleRefused(w) \/ FailureCommits(w)
           \/ FailureNotRecorded(w)
  BY <1>0, <1>7, <1>b, <1>e, NoRunType
     DEF AdvanceRefused, SettleRefused, FailureCommits, FailureNotRecorded, EndRun
<1>8. CASE Recovers(w) \/ Stages(w)
  <2>1. PICK b \in BOOLEAN : ToGate(w, b)
    BY <1>8 DEF Recovers, Stages
  <2>2. run[w].op \in Ops /\ clock' = clock /\ UNCHANGED <<stamp, read>>
    BY <1>0, <1>8, <1>g DEF Recovers, Stages
  <2>3. run' = [run EXCEPT ![w] = [run[w] EXCEPT !.staged = b,
                                                 !.goal = Verifying]]
    BY <1>0, <2>1 DEF ToGate
  <2>4. Goto(w, "gate")
    BY <2>1 DEF ToGate
  <2> QED
    BY <1>0, <1>c, <1>f, <2>2, <2>3, <2>4, RunWithGoal
<1>9. CASE FindsNoOutput(w)
  BY <1>0, <1>9, <1>c, <1>f, <1>g DEF FindsNoOutput
<1>10. CASE Revalidated(w)
  <2>1. run[w].op \in Ops /\ clock' = clock /\ UNCHANGED <<stamp, read>>
    BY <1>0, <1>10, <1>g DEF Revalidated
  <2>2. /\ run' = [run EXCEPT ![w] = [run[w] EXCEPT !.goal = Persisting]]
        /\ Goto(w, "gate")
    BY <1>0, <1>10 DEF Revalidated
  <2>3. /\ [run[w] EXCEPT !.goal = Persisting] \in Run
        /\ [run[w] EXCEPT !.goal = Persisting].op = run[w].op
    BY <1>0 DEF Run
  <2> QED
    BY <1>0, <1>c, <1>f, <2>1, <2>2, <2>3
<1>11. CASE GateOpens(w)
  BY <1>0, <1>11, <1>d, <1>g DEF GateOpens, BeginTransition, InTransaction
<1>12. CASE LooksAtKey(w) \/ Promote(w)
  <2>1. run[w].op \in Ops /\ clock' = clock /\ UNCHANGED <<run, stamp, read>>
    BY <1>0, <1>12, <1>g DEF LooksAtKey, Promote
  <2>2. \E step \in {"rename", "checkpoint"} : Goto(w, step)
    BY <1>12 DEF LooksAtKey, Promote
  <2> QED
    BY <1>0, <1>c, <1>f, <2>1, <2>2
<1>13. CASE RecordCheckpoint(w)
  <2>1. run[w].op \in Ops /\ clock' = clock /\ UNCHANGED <<stamp, read>>
    BY <1>0, <1>13, <1>g DEF RecordCheckpoint
  <2>2. \/ run' = run /\ (Goto(w, "settle") \/ Goto(w, "failing"))
        \/ EndRun(w) /\ Goto(w, "idle")
    BY <1>13 DEF RecordCheckpoint
  <2> QED
    BY <1>0, <1>c, <1>e, <1>f, <2>1, <2>2, NoRunType DEF EndRun
<1>14. CASE BeginSettle(w)
  BY <1>0, <1>14, <1>d, <1>g DEF BeginSettle, BeginTransition, InTransaction
<1>15. CASE SettleCommits(w)
  <2>1. run[w].op \in Ops /\ clock' = clock
    BY <1>0, <1>15, <1>g DEF SettleCommits
  <2>2. \/ EndTransaction(w, "idle") /\ EndRun(w)
        \/ Fail(w, "transient")
    BY <1>15 DEF SettleCommits
  <2> QED
    BY <1>0, <1>a, <1>b, <1>e, <1>h, <2>1, <2>2, NoRunType DEF EndRun
<1>16. CASE GiveUp(w)
  BY <1>0, <1>16, <1>c, <1>e, NoRunType DEF GiveUp, EndRun
<1>17. CASE BeginRecording(w)
  <2>1. PICK failure \in CaughtFailures(w) :
          run' = [run EXCEPT ![w].failure =
                    IF w \in stopping THEN "worker_shutdown" ELSE failure]
    BY <1>17 DEF BeginRecording
  <2> DEFINE f == IF w \in stopping THEN "worker_shutdown" ELSE failure
  <2>2. f \in Failures
    BY DEF CaughtFailures, Failures, FatalErrors, RetryableErrors
  <2>3. pc[w] \in AtWork
    BY <2>1, <1>g DEF CaughtFailures
  <2>4. run' = [run EXCEPT ![w] = [run[w] EXCEPT !.failure = f]]
    BY <1>0, <2>1
  <2>5. BeginTransition(w, pc[w], "recording") /\ "recording" \in InTransaction
    BY <1>17 DEF BeginRecording, InTransaction
  <2> HIDE DEF f
  <2> QED
    BY <1>0, <1>d, <2>2, <2>3, <2>4, <2>5, RunWithFailure
<1> QED
  BY <1>1, <1>2, <1>3, <1>4, <1>5, <1>6, <1>7, <1>8, <1>9, <1>10, <1>11,
     <1>12, <1>13, <1>14, <1>15, <1>16, <1>17 DEF WorkerStep

LEMMA RequestLocal ==
    ASSUME IInv, NEW q \in Requests, RequestStep(q)
    PROVE  Local'
<1>0. Local /\ row \in [Ops -> Row] /\ clock \in Nat
  BY Parts, NatAssumption DEF Shared
<1>1. CASE BeginCancel(q) \/ BeginRetry(q)
  <2>1. PICK o \in Ops, now \in Stamps, step \in {"cancelling", "retrying"} :
          /\ stamp' = [stamp EXCEPT ![q] = now]
          /\ BeginTransaction(q, {o}, step)
    BY <1>1 DEF BeginCancel, BeginRetry, BeginCommand
  <2>2. clock' = clock /\ run' = run
    BY <1>1 DEF BeginCancel, BeginRetry, BeginCommand
  <2> DEFINE d == [p \in {o} |-> row[p]]
  <2>3. DOMAIN d \subseteq Ops /\ \A p \in DOMAIN d : d[p] \in Row
    BY <1>0
  <2>4. /\ DOMAIN read' = Actors /\ read'[q] = d
        /\ \A a \in Actors : a # q => read'[a] = read[a]
        /\ pc' = [pc EXCEPT ![q] = step]
    BY <1>0, <2>1 DEF BeginTransaction, Local, ReadsTyped, Actors
  <2>5. now \in 0..clock /\ step \in RequestSteps
    BY DEF Stamps, RequestSteps
  <2> HIDE DEF d
  <2> QED
    BY <1>0, <2>1, <2>2, <2>3, <2>4, <2>5, RequestMoves
<1>2. CASE \/ CancelCommits(q) \/ CancelThrows(q) \/ CancelFindsTerminal(q)
           \/ RetryCommits(q) \/ RetryDoesNothing(q)
  <2>1. PICK step \in {"answered", "refused"} : EndTransaction(q, step)
    BY <1>2 DEF CancelCommits, CancelThrows, CancelFindsTerminal,
                RetryCommits, RetryDoesNothing
  <2>2. clock' = clock /\ run' = run
    BY <1>2 DEF CancelCommits, CancelThrows, CancelFindsTerminal,
                RetryCommits, RetryDoesNothing
  <2>3. /\ DOMAIN read' = Actors /\ read'[q] = NoRead
        /\ \A a \in Actors : a # q => read'[a] = read[a]
        /\ pc' = [pc EXCEPT ![q] = step]
        /\ stamp' = [stamp EXCEPT ![q] = 0]
    BY <1>0, <2>1 DEF EndTransaction, Local, ReadsTyped, Actors
  <2>4. DOMAIN NoRead = {} /\ 0 \in 0..clock /\ step \in RequestSteps
    BY <1>0 DEF NoRead, RequestSteps
  <2> QED
    BY <1>0, <2>2, <2>3, <2>4, RequestMoves
<1> QED
  BY <1>1, <1>2 DEF RequestStep

LEMMA BeatLocal ==
    ASSUME IInv, NEW m \in beats, BeatLands(m)
    PROVE  Local'
<1>0. Local /\ m.owner \in Workers
  BY Parts DEF Shared, Beat
<1>1. UNCHANGED <<clock, pc, stamp, read>>
  BY DEF BeatLands, BeatRenews, BeatSkips, BeatRefused, BeatErrors
<1>2. run' = run \/ run' = [run EXCEPT ![m.owner].lost = TRUE]
  BY DEF BeatLands, BeatRenews, BeatSkips, BeatRefused, BeatErrors, LearnsLoss
<1>3. run' \in [Workers -> Run]
  <2>1. [run[m.owner] EXCEPT !.lost = TRUE] \in Run
    BY <1>0 DEF Local, Run
  <2> QED
    BY <1>0, <1>2, <2>1 DEF Local
<1>4. \A w \in Workers : run'[w].op = run[w].op /\ run'[w].failure = run[w].failure
  BY <1>0, <1>2 DEF Local, Run
<1>5. Consistent'
  BY <1>0, <1>1, <1>4 DEF Local, Consistent
<1> QED
  BY <1>0, <1>1, <1>3, <1>5 DEF Local, ReadsTyped

LEMMA OtherLocal ==
    ASSUME IInv,
           \/ Tick
           \/ \E w \in Workers : TimerSendsBeat(w) \/ Shutdown(w) \/ Crash(w)
    PROVE  Local'
<1>0. Local /\ clock \in Nat
  BY Parts, NatAssumption DEF Shared
<1>1. CASE Tick
  <2>1. UNCHANGED <<pc, run, stamp, read>> /\ clock' = clock + 1
    BY <1>1 DEF Tick
  <2>2. \A a \in Actors : stamp[a] <= clock + 1
    BY <1>0 DEF Local, Consistent, Instant
  <2> QED
    BY <1>0, <2>1, <2>2 DEF Local, Consistent, ReadsTyped
<1>2. ASSUME NEW w \in Workers, TimerSendsBeat(w) \/ Shutdown(w)
      PROVE  Local'
  BY <1>0, <1>2
     DEF TimerSendsBeat, Shutdown, Local, Consistent, ReadsTyped
<1>3. ASSUME NEW w \in Workers, Crash(w) PROVE Local'
  <2>1. "dead" \in WorkerSteps \ InTransaction /\ "dead" \notin AtWork
    BY DEF WorkerSteps, InTransaction, AtWork
  <2> QED
    BY <1>0, <1>3, <2>1, NoRunType, WorkerEnds DEF Crash, EndRun
<1> QED
  BY <1>1, <1>2, <1>3

-----------------------------------------------------------------------------
(* The shared state keeps its type.                                        *)

Status == Terminal \cup Live

LEMMA WriteFeed ==
    ASSUME IInv, row' \in [Ops -> Row], NEW o \in Ops, NEW r,
           NEW from \in Status, Write(o, r, from)
    PROVE  feed' \in [Ops -> StatusEvent]
<1>1. row' = [row EXCEPT ![o] = r] /\ row \in [Ops -> Row]
  BY DEF Write, IInv, TypeOK
<1>2. r \in Row
  BY <1>1
<1>3. [from |-> from, to |-> r.status] \in StatusEvent
  BY <1>2 DEF Row, StatusEvent, Status
<1> QED
  BY <1>3 DEF Write, Publish, IInv, TypeOK

LEMMA CommitFeed ==
    ASSUME IInv, row' \in [Ops -> Row], NEW table, Commits(table)
    PROVE  feed' \in [Ops -> StatusEvent]
<1>1. \A o \in Ops : row[o].status \in Status /\ table[o].status \in Status
  BY DEF Commits, IInv, TypeOK, Row, Status
<1>2. \A o \in Ops :
        [from |-> row[o].status, to |-> table[o].status] \in StatusEvent
  BY <1>1 DEF StatusEvent, Status
<1> QED
  BY <1>2 DEF Commits, IInv, TypeOK

LEMMA SendBeatType ==
    ASSUME IInv, NEW w \in Workers, pc[w] \in AtWork, SendBeat(w)
    PROVE  beats' \subseteq Beat
<1>1. run[w].op \in Ops /\ run[w].attempt \in Nat
  BY DEF IInv, Consistent, TypeOK, Run
<1>2. \A now \in Stamps :
        [op |-> run[w].op, owner |-> w, attempt |-> run[w].attempt,
         at |-> now] \in Beat
  BY <1>1 DEF Beat, Stamps, Instant
<1> QED
  BY <1>2 DEF SendBeat, IInv, TypeOK

LEMMA NextShared ==
    ASSUME IInv, Next, row' \in [Ops -> Row]
    PROVE  Shared'
<1>0. Shared /\ Faulty \subseteq Workers
  BY Parts, FaultyAssumption
<1>1. ASSUME NEW w \in Workers, WorkerStep(w) PROVE Shared'
  <2>1. CASE ClaimWins(w) \/ ClaimFindsNothing(w)
    <3>1. \E table : Commits(table)
      BY <2>1 DEF ClaimWins, ClaimFindsNothing
    <3>2. UNCHANGED <<clock, checkpoint, output, beats, stopping>>
      BY <2>1 DEF ClaimWins, ClaimFindsNothing
    <3> QED
      BY <1>0, <3>1, <3>2, CommitFeed DEF Shared
  <2>2. CASE AdvanceCommits(w) \/ SettleCommits(w) \/ FailureCommits(w)
    <3>1. pc[w] \in InTransaction
      BY <2>2 DEF AdvanceCommits, SettleCommits, FailureCommits, InTransaction
    <3>2. run[w].op \in Ops /\ Snapshot(w).status \in Status
      BY <3>1, TransitionSteps DEF IInv, Row, Status
    <3>3. \E r : Write(run[w].op, r, Snapshot(w).status)
      BY <2>2 DEF AdvanceCommits, SettleCommits, FailureCommits
    <3>4. UNCHANGED <<clock, checkpoint, output, beats, stopping>>
      BY <2>2 DEF AdvanceCommits, SettleCommits, FailureCommits
    <3> QED
      BY <1>0, <3>2, <3>3, <3>4, WriteFeed DEF Shared
  <2>3. CASE Recovers(w) \/ Stages(w) \/ Revalidated(w)
    <3>1. pc[w] \in AtWork /\ SendBeat(w)
      BY <2>3 DEF Recovers, Stages, Revalidated, ToGate, AtWork, WorkerSteps
    <3>2. UNCHANGED <<clock, feed, checkpoint, output, stopping>>
      BY <2>3 DEF Recovers, Stages, Revalidated, db
    <3> QED
      BY <1>0, <3>1, <3>2, SendBeatType DEF Shared
  <2>4. CASE Promote(w)
    <3>1. run[w].op \in Ops
      BY <2>4 DEF Promote, IInv, Consistent, AtWork, WorkerSteps
    <3> QED
      BY <1>0, <2>4, <3>1 DEF Promote, Shared
  <2>5. CASE RecordCheckpoint(w)
    <3>1. run[w].attempt \in Nat
      BY DEF IInv, TypeOK, Run
    <3>2. checkpoint' \in [Ops -> Nat]
      BY <1>0, <2>5, <3>1 DEF RecordCheckpoint, Shared
    <3> QED
      BY <1>0, <2>5, <3>2 DEF RecordCheckpoint, Shared
  <2>6. CASE \/ BeginClaim(w) \/ ClaimThrows(w) \/ BeginAdvance(w)
             \/ AdvanceThrows(w) \/ AdvanceRefused(w)
             \/ FindsNoOutput(w) \/ GateOpens(w) \/ LooksAtKey(w)
             \/ BeginSettle(w)
             \/ SettleThrows(w) \/ SettleRefused(w)
             \/ GiveUp(w) \/ BeginRecording(w) \/ FailureNotRecorded(w)
    <3>1. UNCHANGED <<clock, feed, checkpoint, output, beats, stopping>>
      BY <2>6
         DEF BeginClaim, ClaimThrows, BeginAdvance, BeginTransition,
             AdvanceThrows, AdvanceRefused, FindsNoOutput, GateOpens,
             LooksAtKey, BeginSettle, SettleThrows, SettleRefused, GiveUp,
             BeginRecording, FailureNotRecorded, db
    <3> QED
      BY <1>0, <3>1 DEF Shared
  <2> QED
    BY <1>1, <2>1, <2>2, <2>3, <2>4, <2>5, <2>6 DEF WorkerStep
<1>2. ASSUME NEW w \in Workers, TimerSendsBeat(w) PROVE Shared'
  <2>1. pc[w] \in AtWork
    BY <1>2 DEF TimerSendsBeat, TimerRuns, AtWork, WorkerSteps
  <2> QED
    BY <1>0, <1>2, <2>1, SendBeatType DEF TimerSendsBeat, Shared, db
<1>3. ASSUME NEW w \in Workers, Shutdown(w) \/ Crash(w) PROVE Shared'
  BY <1>0, <1>3 DEF Shutdown, Crash, Shared, db
<1>4. ASSUME NEW m \in beats, BeatLands(m) PROVE Shared'
  <2>1. UNCHANGED <<clock, feed, checkpoint, output, stopping>>
        /\ beats' = beats \ {m}
    BY <1>4 DEF BeatLands, BeatRenews, BeatSkips, BeatRefused, BeatErrors, db
  <2> QED
    BY <1>0, <2>1 DEF Shared
<1>5. ASSUME NEW q \in Requests, RequestStep(q) PROVE Shared'
  <2>1. CASE CancelCommits(q) \/ RetryCommits(q)
    <3>1. PICK o \in DOMAIN read[q] : \E r : Write(o, r, read[q][o].status)
      BY <2>1 DEF CancelCommits, RetryCommits
    <3>2. o \in Ops /\ read[q][o].status \in Status
      BY DEF IInv, TypeOK, Actors, Row, Status
    <3>3. UNCHANGED <<clock, checkpoint, output, beats, stopping>>
      BY <2>1 DEF CancelCommits, RetryCommits
    <3> QED
      BY <1>0, <3>1, <3>2, <3>3, WriteFeed DEF Shared
  <2>2. CASE \/ BeginCancel(q) \/ CancelThrows(q) \/ CancelFindsTerminal(q)
             \/ BeginRetry(q) \/ RetryDoesNothing(q)
    <3>1. UNCHANGED <<clock, feed, checkpoint, output, beats, stopping>>
      BY <2>2 DEF BeginCancel, BeginRetry, BeginCommand, CancelThrows,
                  CancelFindsTerminal, RetryDoesNothing, db
    <3> QED
      BY <1>0, <3>1 DEF Shared
  <2> QED
    BY <1>5, <2>1, <2>2 DEF RequestStep
<1>6. CASE Tick
  BY <1>0, <1>6, NatAssumption DEF Tick, Shared, db
<1> QED
  BY <1>1, <1>2, <1>3, <1>4, <1>5, <1>6 DEF Next

-----------------------------------------------------------------------------
(* The inductive invariant.                                                *)

LEMMA InitInv == Init => IInv
<1> SUFFICES ASSUME Init PROVE IInv
  OBVIOUS
<1>1. row \in [Ops -> Row]
  BY NewOperationType DEF Init
<1>2. pc \in [Actors -> Steps]
  BY DEF Init, Steps, WorkerSteps, RequestSteps
<1>3. run \in [Workers -> Run]
  BY NoRunType DEF Init
<1>4. stamp \in [Actors -> Instant] /\ clock \in 0..MaxClock
  BY NatAssumption DEF Init, Instant
<1>5. ReadsTyped
  BY DEF Init, ReadsTyped, NoRead
<1>6. Consistent
  <2>1. "idle" \notin AtWork /\ "idle" \notin InTransaction
    BY DEF AtWork, InTransaction
  <2> QED
    BY <2>1, RequestsAssumption DEF Init, Consistent, Actors
<1>7. Shared
  <2>1. [from |-> "none", to |-> "queued"] \in StatusEvent
    BY DEF StatusEvent, Live
  <2> QED
    BY <1>4, <2>1 DEF Init, Shared
<1> QED
  BY <1>1, <1>2, <1>3, <1>4, <1>5, <1>6, <1>7, Parts DEF Local

LEMMA NextInv == IInv /\ [Next]_vars => IInv'
<1>1. ASSUME IInv, Next PROVE IInv'
  <2>1. row' \in [Ops -> Row]
    BY <1>1, NextRows, RowsTyped DEF IInv
  <2>2. Shared'
    BY <1>1, <2>1, NextShared
  <2>3. Local'
    <3>1. CASE \E w \in Workers : WorkerStep(w)
      BY <1>1, <3>1, WorkerLocal
    <3>2. CASE \E q \in Requests : RequestStep(q)
      BY <1>1, <3>2, RequestLocal
    <3>3. CASE \E m \in beats : BeatLands(m)
      BY <1>1, <3>3, BeatLocal
    <3>4. CASE \/ Tick
               \/ \E w \in Workers :
                    TimerSendsBeat(w) \/ Shutdown(w) \/ Crash(w)
      BY <1>1, <3>4, OtherLocal
    <3> QED
      BY <1>1, <3>1, <3>2, <3>3, <3>4 DEF Next
  <2>4. (Local /\ Shared /\ row \in [Ops -> Row])'
    BY <2>1, <2>2, <2>3
  <2> QED
    BY <2>4 DEF IInv, TypeOK, Local, Shared, ReadsTyped, Steps
<1>2. ASSUME IInv, UNCHANGED vars PROVE IInv'
  BY <1>2 DEF IInv, TypeOK, Consistent, vars, db
<1> QED
  BY <1>1, <1>2

(* The working invariant holds throughout: what an actor is doing agrees   *)
(* with what it has open, so no step reads a row that is not there.        *)
LEMMA Invariance == Spec => []IInv
BY InitInv, NextInv, PTL DEF Spec

(* Type correctness, for any number of workers, requests and operations.   *)
THEOREM TypeCorrect == Spec => []TypeOK
<1>1. IInv => TypeOK
  BY DEF IInv
<1> QED
  BY <1>1, Invariance, PTL

-----------------------------------------------------------------------------
(* Every row can be read back.  The writes that are read back, all but the *)
(* renewal of a lease and the checkpoint's touch, leave a row that         *)
(* assertPublicOperation accepted; these two only move updatedAt on, which *)
(* nothing is ordered after while the operation runs.                      *)

HasLease(r) ==
    /\ r.leaseOwner # NoWorker
    /\ r.leaseExpiresAt # NoTime
    /\ r.heartbeatAt # NoTime

HasNoLease(r) ==
    /\ r.leaseOwner = NoWorker
    /\ r.leaseExpiresAt = NoTime
    /\ r.heartbeatAt = NoTime

LEMMA LeasedRunning ==
    ASSUME NEW r \in Row
    PROVE  HydratableRow(r) <=> /\ Hydratable(r)
                                /\ r.status = "running" => HasLease(r)
                                /\ r.status # "running" => HasNoLease(r)
BY DEF HydratableRow, HasLease, HasNoLease

LEMMA NoLeaseFields ==
    ASSUME NEW r \in Row
    PROVE  HasNoLease(NoLease(r)) /\ NoLease(r).status = r.status
BY DEF HasNoLease, NoLease, Row

LEMMA OverwriteFields ==
    ASSUME NEW r \in Row, NEW next \in Row
    PROVE  /\ Overwrite(r, next).status = next.status
           /\ Overwrite(r, next).leaseOwner = r.leaseOwner
           /\ Overwrite(r, next).leaseExpiresAt = r.leaseExpiresAt
           /\ Overwrite(r, next).heartbeatAt = r.heartbeatAt
BY DEF Overwrite, Row

LEMMA Released ==
    ASSUME NEW r \in Row, NEW next \in Row
    PROVE  /\ NoLease(Overwrite(r, next)) \in Row
           /\ NoLease(Overwrite(r, next)).status = next.status
           /\ HasNoLease(NoLease(Overwrite(r, next)))
<1> DEFINE u == Overwrite(r, next)
<1>1. u \in Row /\ u.status = next.status
  BY OverwriteType, OverwriteFields
<1> HIDE DEF u
<1>2. /\ NoLease(u) \in Row
      /\ NoLease(u).status = next.status
      /\ HasNoLease(NoLease(u))
  BY <1>1, NoLeaseType, NoLeaseFields
<1> QED
  BY <1>2 DEF u

LEMMA ClaimedFields ==
    ASSUME NEW r \in Row, NEW s \in Row, NEW w \in Workers, NEW now \in Nat
    PROVE  /\ Claimed(r, s, w, now).status = "running"
           /\ HasLease(Claimed(r, s, w, now))
           /\ Claimed(r, s, w, now).attempt = s.attempt + 1
           /\ Claimed(r, s, w, now).maxAttempts = r.maxAttempts
           /\ Claimed(r, s, w, now).leaseOwner = w
<1>1. Start(s, now) \in Row /\ Start(s, now).status = "running"
      /\ Start(s, now).attempt = s.attempt + 1
  BY StartType DEF Start, Row, Instant
<1> DEFINE next == Start(s, now)
           u == [Overwrite(r, next) EXCEPT !.attempt = next.attempt,
                                           !.startedAt = next.startedAt]
<1>2. u \in Row /\ u.status = "running" /\ u.attempt = s.attempt + 1
      /\ u.maxAttempts = r.maxAttempts
  BY <1>1 DEF Overwrite, Row
<1>3. Claimed(r, s, w, now) = Lease(u, w, now)
  BY DEF Claimed
<1> HIDE DEF u
<1> QED
  BY <1>2, <1>3, NoWorkerAssumption, NatAssumption
     DEF Lease, HasLease, Row, NoTime

LEMMA RenewedHydratable ==
    ASSUME NEW r \in Row, NEW now \in Nat, Hydratable(r), r.status = "running"
    PROVE  Hydratable([r EXCEPT !.updatedAt = now])
<1> DEFINE u == [r EXCEPT !.updatedAt = now]
<1>1. /\ u.status = r.status /\ u.progress = r.progress
      /\ u.attempt = r.attempt /\ u.maxAttempts = r.maxAttempts
      /\ u.startedAt = r.startedAt /\ u.completedAt = r.completedAt
      /\ u.nextAttemptAt = r.nextAttemptAt
      /\ u.deadLetteredAt = r.deadLetteredAt /\ u.error = r.error
  BY DEF Row
<1>2. r.nextAttemptAt = NoTime
  BY DEF Hydratable, StatusFields
<1> HIDE DEF u
<1> QED
  BY <1>1, <1>2
     DEF Hydratable, CanonicalProgress, OrderedInstants, StatusFields

LEMMA HeartbeatHydratable ==
    ASSUME NEW r \in Row, NEW now \in Nat, NEW until \in Nat,
           HydratableRow(r), r.status = "running"
    PROVE  HydratableRow([r EXCEPT !.heartbeatAt = now,
                                   !.leaseExpiresAt = until,
                                   !.updatedAt = now])
<1> DEFINE u == [r EXCEPT !.heartbeatAt = now, !.leaseExpiresAt = until,
                          !.updatedAt = now]
<1>1. /\ u.status = r.status /\ u.progress = r.progress
      /\ u.attempt = r.attempt /\ u.maxAttempts = r.maxAttempts
      /\ u.startedAt = r.startedAt /\ u.completedAt = r.completedAt
      /\ u.nextAttemptAt = r.nextAttemptAt
      /\ u.deadLetteredAt = r.deadLetteredAt /\ u.error = r.error
      /\ u.leaseOwner = r.leaseOwner
      /\ u.leaseExpiresAt = until /\ u.heartbeatAt = now
  BY DEF Row
<1>2. r.nextAttemptAt = NoTime /\ until # NoTime /\ now # NoTime
  BY DEF HydratableRow, Hydratable, StatusFields, NoTime
<1> HIDE DEF u
<1>3. Hydratable(u)
  BY <1>1, <1>2
     DEF HydratableRow, Hydratable, CanonicalProgress, OrderedInstants,
         StatusFields
<1> QED
  BY <1>1, <1>2, <1>3 DEF HydratableRow, u

LEMMA NewHydratable == HydratableRow(NewOperation(MaxAttempts, 0))
BY RenderPhasesAssumption, NatAssumption
   DEF HydratableRow, Hydratable, NewOperation, CanonicalProgress,
       OrderedInstants, StatusFields, Terminal, NoTime

LEMMA HydratableStep ==
    ASSUME TypeOK, NEW o \in Ops, HydratableRow(row[o]), RowStep(o)
    PROVE  HydratableRow(row'[o])
<1>0. row[o] \in Row /\ 0..clock \subseteq Instant /\ clock \in Nat
  BY NatAssumption DEF TypeOK, Instant
<1>1. CASE ClaimStep(o)
  <2>1. PICK w \in Workers, s \in Row, now \in 0..clock :
          /\ Hydratable(Claimed(row[o], s, w, now))
          /\ row'[o] = Claimed(row[o], s, w, now)
    BY <1>1 DEF ClaimStep
  <2>2. now \in Nat /\ now \in Instant
    BY <1>0
  <2> DEFINE c == Claimed(row[o], s, w, now)
  <2>3. c \in Row
    BY <1>0, <2>2, ClaimedType
  <2>4. c.status = "running" /\ HasLease(c)
    BY <1>0, <2>2, ClaimedFields
  <2> HIDE DEF c
  <2>5. HydratableRow(c)
    BY <2>1, <2>3, <2>4, LeasedRunning DEF c
  <2> QED
    BY <2>1, <2>5 DEF c
<1>2. CASE CloseStep(o)
  <2>1. PICK now \in 0..clock :
          Hydratable(Exhausted(row[o], now)) /\ row'[o] = Exhausted(row[o], now)
    BY <1>2 DEF CloseStep
  <2> DEFINE u == [row[o] EXCEPT !.status = "failed", !.updatedAt = now,
                      !.completedAt = now, !.nextAttemptAt = NoTime,
                      !.deadLetteredAt = now, !.error = "worker_lease_expired"]
  <2>2. u \in Row /\ u.status = "failed"
    BY <1>0, FieldTypes DEF Row
  <2>3. row'[o] = NoLease(u)
    BY <2>1 DEF Exhausted
  <2> HIDE DEF u
  <2>4. HasNoLease(row'[o]) /\ row'[o].status = "failed" /\ row'[o] \in Row
    BY <2>2, <2>3, NoLeaseFields, NoLeaseType
  <2> QED
    BY <2>1, <2>4, LeasedRunning
<1>3. CASE AdvanceStep(o)
  <2>1. PICK s \in Row, p \in {Rendering, Verifying, Persisting}, now \in 0..clock :
          /\ row[o].status = "running"
          /\ CanAdvance(s, p, now)
          /\ Hydratable(Overwrite(row[o], Advance(s, p, now)))
          /\ row'[o] = Overwrite(row[o], Advance(s, p, now))
    BY <1>3 DEF AdvanceStep
  <2>2. Advance(s, p, now) \in Row /\ Advance(s, p, now).status = "running"
    BY <1>0, <2>1, AdvanceType DEF Advance, CanAdvance, Row
  <2> DEFINE next == Advance(s, p, now)
  <2>3. /\ Overwrite(row[o], next) \in Row
        /\ Overwrite(row[o], next).status = "running"
        /\ Overwrite(row[o], next).leaseOwner = row[o].leaseOwner
        /\ Overwrite(row[o], next).leaseExpiresAt = row[o].leaseExpiresAt
        /\ Overwrite(row[o], next).heartbeatAt = row[o].heartbeatAt
    BY <1>0, <2>2, OverwriteFields, OverwriteType
  <2>4. HasLease(row[o])
    BY <1>0, <2>1, LeasedRunning
  <2>5. row'[o] \in Row /\ row'[o].status = "running" /\ HasLease(row'[o])
    BY <2>1, <2>3, <2>4 DEF HasLease
  <2> QED
    BY <2>1, <2>5, LeasedRunning
<1>4. CASE SucceedStep(o)
  <2>1. PICK s \in Row, now \in 0..clock :
          /\ Hydratable(NoLease(Overwrite(row[o], Succeed(s, now))))
          /\ row'[o] = NoLease(Overwrite(row[o], Succeed(s, now)))
    BY <1>4 DEF SucceedStep
  <2>2. Succeed(s, now) \in Row /\ Succeed(s, now).status = "succeeded"
    BY <1>0, SucceedType DEF Succeed, Row
  <2>3. row'[o] \in Row /\ row'[o].status = "succeeded" /\ HasNoLease(row'[o])
    BY <1>0, <2>1, <2>2, Released
  <2> QED
    BY <2>1, <2>3, LeasedRunning
<1>5. CASE FailStep(o)
  <2>1. PICK s \in Row, f \in Failures, now \in 0..clock, next \in OptionalInstant :
          /\ Hydratable(NoLease(Overwrite(row[o], FailOrRetry(s, f, now, next))))
          /\ row'[o] = NoLease(Overwrite(row[o], FailOrRetry(s, f, now, next)))
    BY <1>5 DEF FailStep
  <2>2. FailOrRetry(s, f, now, next) \in Row
        /\ FailOrRetry(s, f, now, next).status \in {"retrying", "failed"}
    <3>1. FailOrRetry(s, f, now, next) \in Row
      BY <1>0, FailOrRetryType
    <3>2. FailOrRetry(s, f, now, next).status \in {"retrying", "failed"}
      BY DEF FailOrRetry, Row
    <3> QED
      BY <3>1, <3>2
  <2>3. row'[o] \in Row /\ row'[o].status # "running" /\ HasNoLease(row'[o])
    BY <1>0, <2>1, <2>2, Released
  <2> QED
    BY <2>1, <2>3, LeasedRunning
<1>6. CASE RenewStep(o)
  <2>1. PICK m \in beats :
          /\ Renewable(row[o], m)
          /\ row'[o] = [row[o] EXCEPT !.heartbeatAt = m.at,
                                      !.leaseExpiresAt = m.at + LeaseDuration,
                                      !.updatedAt = m.at]
    BY <1>6 DEF RenewStep
  <2>2. m.at \in Nat /\ m.at + LeaseDuration \in Nat
    BY NatAssumption DEF TypeOK, Beat, Instant
  <2> QED
    <3>1. row[o].status = "running"
      BY <2>1 DEF Renewable
    <3>2. HydratableRow([row[o] EXCEPT !.heartbeatAt = m.at,
                            !.leaseExpiresAt = m.at + LeaseDuration,
                            !.updatedAt = m.at])
      BY <1>0, <2>2, <3>1, HeartbeatHydratable
    <3> QED
      BY <2>1, <3>2
<1>7. CASE CheckpointStep(o)
  <2>1. PICK now \in 0..clock :
          /\ row[o].status = "running"
          /\ row'[o] = [row[o] EXCEPT !.updatedAt = now]
    BY <1>7 DEF CheckpointStep
  <2>2. Hydratable(row'[o])
    BY <1>0, <2>1, RenewedHydratable DEF HydratableRow
  <2>3. row'[o] \in Row /\ row'[o].status = "running" /\ HasLease(row'[o])
    BY <1>0, <2>1, LeasedRunning DEF HasLease, Row
  <2> QED
    BY <2>2, <2>3, LeasedRunning
<1>8. CASE CancelStep(o)
  <2>1. PICK s \in Row, now \in 0..clock :
          /\ Hydratable(Canceled(row[o], s, now))
          /\ row'[o] = Canceled(row[o], s, now)
    BY <1>8 DEF CancelStep
  <2> DEFINE u == Cancel(row[o], CancellationInstant(s, now))
  <2>2. CancellationInstant(s, now) \in Instant
    BY <1>0 DEF CancellationInstant, Row
  <2>3. u \in Row /\ u.status = "canceled"
    BY <1>0, <2>2, FieldTypes DEF Cancel, Row
  <2>4. row'[o] = NoLease(u)
    BY <2>1 DEF Canceled
  <2> HIDE DEF u
  <2>5. row'[o] \in Row /\ row'[o].status = "canceled" /\ HasNoLease(row'[o])
    BY <2>3, <2>4, NoLeaseFields, NoLeaseType
  <2> QED
    BY <2>1, <2>5, LeasedRunning
<1>9. CASE RetryStep(o)
  <2>1. PICK s \in Row, now \in 0..clock :
          /\ Hydratable(Retried(row[o], s, now))
          /\ row'[o] = Retried(row[o], s, now)
    BY <1>9 DEF RetryStep
  <2>2. Retry(s, now) \in Row /\ Retry(s, now).status \in {"queued", "retrying"}
    <3>1. Retry(s, now) \in Row
      BY <1>0, RetryType
    <3>2. Retry(s, now).status \in {"queued", "retrying"}
      BY DEF Retry, Row
    <3> QED
      BY <3>1, <3>2
  <2> DEFINE next == Retry(s, now)
             u == [Overwrite(row[o], next) EXCEPT
                     !.progress = row[o].progress,
                     !.maxAttempts = next.maxAttempts,
                     !.startedAt = next.startedAt]
  <2>3. Overwrite(row[o], next) \in Row
        /\ Overwrite(row[o], next).status = next.status
    BY <1>0, <2>2, OverwriteType, OverwriteFields
  <2>4. u \in Row /\ u.status \in {"queued", "retrying"}
    BY <1>0, <2>2, <2>3 DEF Row
  <2>5. row'[o] = NoLease(u)
    BY <2>1 DEF Retried
  <2> HIDE DEF u
  <2>6. row'[o] \in Row /\ row'[o].status # "running" /\ HasNoLease(row'[o])
    BY <2>4, <2>5, NoLeaseFields, NoLeaseType
  <2> QED
    BY <2>1, <2>6, LeasedRunning
<1> QED
  BY <1>1, <1>2, <1>3, <1>4, <1>5, <1>6, <1>7, <1>8, <1>9 DEF RowStep

-----------------------------------------------------------------------------
(* The life of a row, seen from outside the transactions.                  *)

LeaseWindow(r) ==
    r.status = "running" => r.leaseExpiresAt = r.heartbeatAt + LeaseDuration

Taken(r, n) ==
    /\ r.status \in {"queued", "retrying", "running"}
    /\ r.status = "running" => r.leaseExpiresAt <= clock
    /\ n.status = "running"
    /\ n.attempt = r.attempt + 1
    /\ n.maxAttempts = r.maxAttempts

Expired(r, n) ==
    /\ r.status = "running" /\ r.leaseExpiresAt <= clock
    /\ n.status = "failed"
    /\ n.attempt = r.attempt
    /\ n.maxAttempts = r.maxAttempts

Carried(r, n) ==
    /\ r.status = "running" /\ n.status = "running"
    /\ n.attempt = r.attempt
    /\ n.maxAttempts = r.maxAttempts
    /\ n.leaseOwner = r.leaseOwner
    /\ n.progress >= r.progress
    /\ n.updatedAt >= r.updatedAt
    /\ n.leaseExpiresAt >= r.leaseExpiresAt
    /\ n.heartbeatAt >= r.heartbeatAt

Ended(r, n) ==
    /\ r.status \in Live
    /\ n.status \in {"succeeded", "failed", "canceled", "retrying"}
    /\ n.attempt = r.attempt
    /\ n.maxAttempts = r.maxAttempts
    /\ n.status = "retrying" => r.status = "running"
    /\ n.status \in {"succeeded", "failed"} => r.status = "running"
    /\ n.error # "worker_lease_expired"

Reopened(r, n) ==
    /\ r.status \in {"failed", "canceled"}
    /\ n.status \in {"queued", "retrying"}
    /\ n.leaseOwner = NoWorker
    /\ n.attempt = r.attempt

LEMMA ReleasedFields ==
    ASSUME NEW r \in Row, NEW next \in Row
    PROVE  LET n == NoLease(Overwrite(r, next)) IN
           /\ n.status = next.status
           /\ n.error = next.error
           /\ n.attempt = r.attempt
           /\ n.maxAttempts = r.maxAttempts
           /\ n.deadLetteredAt = next.deadLetteredAt
BY DEF NoLease, Overwrite, Row

LEMMA ClaimedLease ==
    ASSUME NEW r \in Row, NEW s \in Row, NEW w \in Workers, NEW now \in Nat
    PROVE  LeaseWindow(Claimed(r, s, w, now))
<1> DEFINE next == Start(s, now)
           u == [Overwrite(r, next) EXCEPT !.attempt = next.attempt,
                                           !.startedAt = next.startedAt]
<1>1. next \in Row
  BY StartType DEF Instant
<1>2. u \in Row
  BY <1>1, OverwriteType DEF Row
<1>3. Claimed(r, s, w, now) = Lease(u, w, now)
  BY DEF Claimed
<1> HIDE DEF u
<1>4. Lease(u, w, now).leaseExpiresAt = now + LeaseDuration
      /\ Lease(u, w, now).heartbeatAt = now
  BY <1>2 DEF Lease, Row
<1> QED
  BY <1>3, <1>4 DEF LeaseWindow

LEMMA RetriedFields ==
    ASSUME NEW r \in Row, NEW s \in Row, NEW now \in Nat
    PROVE  /\ Retried(r, s, now).status \in {"queued", "retrying"}
           /\ Retried(r, s, now).leaseOwner = NoWorker
           /\ Retried(r, s, now).attempt = r.attempt
           /\ Retried(r, s, now).maxAttempts =
                IF s.attempt >= s.maxAttempts THEN s.attempt + 1
                                              ELSE s.maxAttempts
<1> DEFINE next == Retry(s, now)
           u == [Overwrite(r, next) EXCEPT !.progress = r.progress,
                                           !.maxAttempts = next.maxAttempts,
                                           !.startedAt = next.startedAt]
<1>1. next \in Row
  BY RetryType DEF Instant
<1>2. /\ next.status \in {"queued", "retrying"}
      /\ next.maxAttempts = IF s.attempt >= s.maxAttempts
                               THEN s.attempt + 1 ELSE s.maxAttempts
  BY DEF Retry, Row
<1> HIDE DEF next
<1>3. /\ u \in Row /\ u.status = next.status /\ u.attempt = r.attempt
      /\ u.maxAttempts = next.maxAttempts
  BY <1>1 DEF Overwrite, Row
<1>4. Retried(r, s, now) = NoLease(u)
  BY DEF Retried, next
<1> HIDE DEF u
<1>5. /\ NoLease(u).status = u.status
      /\ NoLease(u).leaseOwner = NoWorker
      /\ NoLease(u).attempt = u.attempt
      /\ NoLease(u).maxAttempts = u.maxAttempts
  BY <1>3 DEF NoLease, Row
<1> QED
  BY <1>2, <1>3, <1>4, <1>5

LEMMA StepKinds ==
    ASSUME TypeOK, NEW o \in Ops, HydratableRow(row[o]), LeaseWindow(row[o]),
           RowStep(o)
    PROVE  LET r == row[o]  n == row'[o] IN
           /\ LeaseWindow(n)
           /\ \/ n = r
              \/ Taken(r, n) \/ Expired(r, n) \/ Carried(r, n)
              \/ Ended(r, n) \/ Reopened(r, n)
           /\ n.status = "succeeded" =>
                r.status = "succeeded" \/ checkpoint[o] # 0
<1> DEFINE r == row[o]  n == row'[o]
<1>0. r \in Row /\ 0..clock \subseteq Instant /\ clock \in Nat
      /\ 0..clock \subseteq Nat
  BY NatAssumption DEF TypeOK, Instant
<1>1. CASE ClaimStep(o)
  <2>1. PICK w \in Workers, s \in Row, now \in 0..clock :
          /\ CanStart(s, now)
          /\ ClaimFence(r, s, now)
          /\ n = Claimed(r, s, w, now)
    BY <1>1 DEF ClaimStep
  <2>2. n.status = "running" /\ n.attempt = s.attempt + 1
        /\ n.maxAttempts = r.maxAttempts
    BY <1>0, <2>1, ClaimedFields
  <2>3. /\ r.status = s.status /\ r.attempt = s.attempt
        /\ s.status = "running" => r.leaseExpiresAt <= now
    BY <2>1 DEF ClaimFence
  <2>4. s.status \in {"queued", "retrying", "running"}
    BY <2>1 DEF CanStart
  <2>5. r.status = "running" => r.leaseExpiresAt <= clock
    <3>1. SUFFICES ASSUME r.status = "running" PROVE r.leaseExpiresAt <= clock
      OBVIOUS
    <3>2. r.leaseExpiresAt \in Nat
      BY <1>0, <3>1 DEF HydratableRow, Row, OptionalInstant, NoTime
    <3> QED
      BY <1>0, <2>3, <3>1, <3>2
  <2>6. Taken(r, n)
    BY <2>2, <2>3, <2>4, <2>5 DEF Taken
  <2>7. LeaseWindow(n)
    BY <1>0, <2>1, ClaimedLease
  <2> QED
    BY <2>2, <2>6, <2>7
<1>2. CASE CloseStep(o)
  <2>1. PICK s \in Row, now \in 0..clock :
          /\ s.status = "running"
          /\ ClaimFence(r, s, now)
          /\ n = Exhausted(r, now)
    BY <1>2 DEF CloseStep
  <2>2. n.status = "failed" /\ n.attempt = r.attempt
        /\ n.maxAttempts = r.maxAttempts
    BY <1>0, <2>1 DEF Exhausted, NoLease, Row
  <2>3. r.status = "running" /\ r.leaseExpiresAt <= now
    BY <2>1 DEF ClaimFence
  <2>4. r.leaseExpiresAt \in Nat
    BY <1>0, <2>3 DEF HydratableRow, Row, OptionalInstant, NoTime
  <2>5. Expired(r, n)
    BY <1>0, <2>2, <2>3, <2>4 DEF Expired
  <2> QED
    BY <2>2, <2>5 DEF LeaseWindow
<1>3. CASE AdvanceStep(o)
  <2>1. PICK s \in Row, p \in {Rendering, Verifying, Persisting}, now \in 0..clock :
          /\ r.status = "running"
          /\ CanAdvance(s, p, now)
          /\ r.progress = s.progress /\ r.updatedAt = s.updatedAt
          /\ n = Overwrite(r, Advance(s, p, now))
    BY <1>3 DEF AdvanceStep
  <2> DEFINE next == Advance(s, p, now)
  <2>2. next \in Row /\ next.status = "running" /\ next.progress = p
        /\ next.updatedAt = now
    BY <1>0, <2>1, AdvanceType DEF Advance, CanAdvance, Row
  <2> HIDE DEF next
  <2>3. /\ n.status = "running" /\ n.progress = p /\ n.updatedAt = now
        /\ n.attempt = r.attempt /\ n.maxAttempts = r.maxAttempts
        /\ n.leaseOwner = r.leaseOwner
        /\ n.leaseExpiresAt = r.leaseExpiresAt
        /\ n.heartbeatAt = r.heartbeatAt
    BY <1>0, <2>1, <2>2 DEF Overwrite, Row, next
  <2>4. p >= r.progress /\ now >= r.updatedAt
    BY <2>1 DEF CanAdvance, ClockOK
  <2>5. r.leaseExpiresAt \in Nat /\ r.heartbeatAt \in Nat
    BY <1>0, <2>1 DEF HydratableRow, Row, OptionalInstant, NoTime
  <2>6. Carried(r, n)
    BY <2>1, <2>3, <2>4, <2>5 DEF Carried
  <2> QED
    BY <2>1, <2>3, <2>6 DEF LeaseWindow
<1>4. CASE SucceedStep(o)
  <2>1. PICK s \in Row, now \in 0..clock :
          /\ r.status = "running"
          /\ checkpoint[o] # 0
          /\ Hydratable(NoLease(Overwrite(r, Succeed(s, now))))
          /\ n = NoLease(Overwrite(r, Succeed(s, now)))
    BY <1>4 DEF SucceedStep
  <2>2. Succeed(s, now) \in Row /\ Succeed(s, now).status = "succeeded"
    BY <1>0, SucceedType DEF Succeed, Row
  <2>3. n.status = "succeeded" /\ n.attempt = r.attempt
        /\ n.maxAttempts = r.maxAttempts
    BY <1>0, <2>1, <2>2, ReleasedFields
  <2>4. n.error = "none"
    BY <2>1, <2>3 DEF Hydratable, StatusFields
  <2>5. Ended(r, n)
    BY <2>1, <2>3, <2>4 DEF Ended, Live
  <2> QED
    BY <2>1, <2>3, <2>5 DEF LeaseWindow
<1>5. CASE FailStep(o)
  <2>1. PICK s \in Row, f \in Failures, now \in 0..clock, next \in OptionalInstant :
          /\ r.status = "running"
          /\ Hydratable(NoLease(Overwrite(r, FailOrRetry(s, f, now, next))))
          /\ n = NoLease(Overwrite(r, FailOrRetry(s, f, now, next)))
    BY <1>5 DEF FailStep
  <2> DEFINE u == FailOrRetry(s, f, now, next)
  <2>2. u \in Row
    BY <1>0, FailOrRetryType
  <2>3. u.status = "retrying" \/ (u.status = "failed" /\ u.error = f)
    BY DEF FailOrRetry, Row
  <2> HIDE DEF u
  <2>4. n.status = u.status /\ n.attempt = r.attempt /\ n.error = u.error
        /\ n.maxAttempts = r.maxAttempts
    BY <1>0, <2>1, <2>2, ReleasedFields DEF u
  <2>5. n.error # "worker_lease_expired"
    <3>1. n.status = "retrying" => n.error = "none"
      BY <2>1 DEF Hydratable, StatusFields
    <3> QED
      BY <2>3, <2>4, <3>1 DEF Failures, FatalErrors, RetryableErrors
  <2>6. Ended(r, n)
    BY <2>1, <2>3, <2>4, <2>5 DEF Ended, Live
  <2> QED
    BY <2>3, <2>4, <2>6 DEF LeaseWindow
<1>6. CASE RenewStep(o)
  <2>1. PICK m \in beats :
          /\ Renewable(r, m)
          /\ n = [r EXCEPT !.heartbeatAt = m.at,
                           !.leaseExpiresAt = m.at + LeaseDuration,
                           !.updatedAt = m.at]
    BY <1>6 DEF RenewStep
  <2>2. m.at \in Nat
    BY DEF TypeOK, Beat, Instant
  <2>3. /\ r.status = "running" /\ r.heartbeatAt <= m.at /\ r.updatedAt <= m.at
    BY <2>1 DEF Renewable
  <2>4. /\ n.status = r.status /\ n.attempt = r.attempt
        /\ n.maxAttempts = r.maxAttempts /\ n.leaseOwner = r.leaseOwner
        /\ n.progress = r.progress /\ n.updatedAt = m.at
        /\ n.heartbeatAt = m.at /\ n.leaseExpiresAt = m.at + LeaseDuration
    BY <1>0, <2>1 DEF Row
  <2>5. r.heartbeatAt \in Nat /\ r.progress \in Nat /\ r.updatedAt \in Nat
    BY <1>0, <2>3, PhaseAssumption
       DEF HydratableRow, Row, OptionalInstant, Instant, NoTime
  <2>6. n.leaseExpiresAt >= r.leaseExpiresAt
    BY <2>2, <2>3, <2>4, <2>5, NatAssumption DEF LeaseWindow
  <2>7. Carried(r, n)
    BY <2>2, <2>3, <2>4, <2>5, <2>6 DEF Carried
  <2> QED
    BY <2>3, <2>4, <2>7 DEF LeaseWindow
<1>7. CASE CheckpointStep(o)
  <2>1. PICK now \in 0..clock :
          /\ r.status = "running" /\ r.updatedAt <= now
          /\ n = [r EXCEPT !.updatedAt = now]
    BY <1>7 DEF CheckpointStep
  <2>2. /\ n.status = r.status /\ n.attempt = r.attempt
        /\ n.maxAttempts = r.maxAttempts /\ n.leaseOwner = r.leaseOwner
        /\ n.progress = r.progress /\ n.updatedAt = now
        /\ n.heartbeatAt = r.heartbeatAt
        /\ n.leaseExpiresAt = r.leaseExpiresAt
    BY <1>0, <2>1 DEF Row
  <2>3. /\ r.heartbeatAt \in Nat /\ r.leaseExpiresAt \in Nat
        /\ r.progress \in Nat /\ r.updatedAt \in Nat
    BY <1>0, <2>1, PhaseAssumption
       DEF HydratableRow, Row, OptionalInstant, Instant, NoTime
  <2>4. Carried(r, n)
    BY <2>1, <2>2, <2>3 DEF Carried
  <2> QED
    BY <2>1, <2>2, <2>4 DEF LeaseWindow
<1>8. CASE CancelStep(o)
  <2>1. PICK s \in Row, now \in 0..clock :
          /\ CancelFence(r)
          /\ Hydratable(Canceled(r, s, now))
          /\ n = Canceled(r, s, now)
    BY <1>8 DEF CancelStep
  <2>2. n.status = "canceled" /\ n.attempt = r.attempt
        /\ n.maxAttempts = r.maxAttempts
    BY <1>0, <2>1 DEF Canceled, Cancel, NoLease, Row
  <2>3. n.error = "none"
    BY <2>1, <2>2 DEF Hydratable, StatusFields
  <2>4. Ended(r, n)
    BY <2>1, <2>2, <2>3 DEF Ended, CancelFence
  <2> QED
    BY <2>2, <2>4 DEF LeaseWindow
<1>9. CASE RetryStep(o)
  <2>1. PICK s \in Row, now \in 0..clock :
          CanRetry(s, now) /\ RetryFence(r, s) /\ n = Retried(r, s, now)
    BY <1>9 DEF RetryStep
  <2>2. n.status \in {"queued", "retrying"} /\ n.leaseOwner = NoWorker
        /\ n.attempt = r.attempt
    BY <1>0, <2>1, RetriedFields
  <2>3. r.status \in {"failed", "canceled"}
    BY <2>1 DEF CanRetry, RetryFence
  <2> QED
    BY <2>2, <2>3 DEF LeaseWindow, Reopened
<1> QED
  BY <1>1, <1>2, <1>3, <1>4, <1>5, <1>6, <1>7, <1>8, <1>9 DEF RowStep


-----------------------------------------------------------------------------
(* The invariant of the rows, and what every step does to them.            *)

RowsInv == \A o \in Ops : HydratableRow(row[o]) /\ LeaseWindow(row[o])

LEMMA RowsInvariance == Spec => []RowsInv
<1>1. Init => RowsInv
  <2>1. LeaseWindow(NewOperation(MaxAttempts, 0))
    BY DEF LeaseWindow, NewOperation
  <2> QED
    BY <2>1, NewHydratable DEF Init, RowsInv
<1>2. IInv /\ RowsInv /\ [Next]_vars => RowsInv'
  <2>1. ASSUME IInv, RowsInv, Next PROVE RowsInv'
    <3>1. TypeOK /\ RowsStep
      BY <2>1, NextRows DEF IInv
    <3>2. ASSUME NEW o \in Ops
          PROVE  HydratableRow(row'[o]) /\ LeaseWindow(row'[o])
      <4>1. RowStep(o) /\ HydratableRow(row[o]) /\ LeaseWindow(row[o])
        BY <2>1, <3>1 DEF RowsStep, RowsInv
      <4> QED
        BY <3>1, <4>1, HydratableStep, StepKinds
    <3> QED
      BY <3>2 DEF RowsInv
  <2>2. ASSUME RowsInv, UNCHANGED vars PROVE RowsInv'
    BY <2>2 DEF RowsInv, vars, db
  <2> QED
    BY <2>1, <2>2
<1> QED
  BY <1>1, <1>2, Invariance, PTL DEF Spec

LEMMA RowKinds ==
    ASSUME IInv, RowsInv, Next, NEW o \in Ops
    PROVE  LET r == row[o]  n == row'[o] IN
           /\ \/ n = r
              \/ Taken(r, n) \/ Expired(r, n) \/ Carried(r, n)
              \/ Ended(r, n) \/ Reopened(r, n)
           /\ n.status = "succeeded" =>
                r.status = "succeeded" \/ checkpoint[o] # 0
<1>1. TypeOK /\ RowsStep
  BY NextRows DEF IInv
<1>2. RowStep(o) /\ HydratableRow(row[o]) /\ LeaseWindow(row[o])
  BY <1>1 DEF RowsStep, RowsInv
<1> QED
  BY <1>1, <1>2, StepKinds

(* Every row can be read back, always: no interleaving of claims, late     *)
(* heartbeats, transitions and commands leaves a row whose hydration       *)
(* throws, or one whose lease outlives its running status.                 *)
THEOREM RowsHydratable == Spec => []HydratableRows
<1>1. RowsInv => HydratableRows
  BY DEF RowsInv, HydratableRows
<1> QED
  BY <1>1, RowsInvariance, PTL

(* A terminal operation stays as it is until a retry, and only a failed or *)
(* canceled one is retried: no late worker, heartbeat or cancel disturbs   *)
(* it, whatever they read before.                                          *)
THEOREM TerminalStays == Spec => TerminalStable
<1>1. ASSUME IInv, RowsInv, Next, NEW o \in Ops,
             IsTerminal(row[o]), row'[o] # row[o]
      PROVE  /\ row[o].status \in {"failed", "canceled"}
             /\ row'[o].status \in {"queued", "retrying"}
             /\ row'[o].leaseOwner = NoWorker
  <2>1. Reopened(row[o], row'[o])
    BY <1>1, RowKinds
       DEF IsTerminal, Terminal, Live, Taken, Expired, Carried, Ended
  <2> QED
    BY <2>1 DEF Reopened
<1>2. IInv /\ RowsInv /\ [Next]_vars
        => [\A o \in Ops :
              IsTerminal(row[o]) /\ row'[o] # row[o] =>
                /\ row[o].status \in {"failed", "canceled"}
                /\ row'[o].status \in {"queued", "retrying"}
                /\ row'[o].leaseOwner = NoWorker]_vars
  BY <1>1
<1> QED
  BY <1>2, Invariance, RowsInvariance, PTL DEF Spec, TerminalStable

(* Mutual exclusion of attempts: no worker takes an operation over, and no *)
(* claim closes it as expired, before its lease has run out by the newest  *)
(* clock, however stale the scan that chose it.                            *)
THEOREM LeasesHonoured == Spec => LeaseHonoured
<1>1. ASSUME IInv, RowsInv, Next, NEW o \in Ops,
             row[o].status = "running",
             \/ row'[o].attempt # row[o].attempt
             \/ row'[o].error = "worker_lease_expired"
      PROVE  row[o].leaseExpiresAt <= clock
  <2>1. row[o].error # "worker_lease_expired"
    BY <1>1 DEF RowsInv, HydratableRow, Hydratable, StatusFields
  <2>2. Carried(row[o], row'[o]) => row'[o].error # "worker_lease_expired"
    <3>1. TypeOK /\ RowsStep
      BY <1>1, NextRows DEF IInv
    <3>2. HydratableRow(row'[o])
      BY <1>1, <3>1, HydratableStep DEF RowsStep, RowsInv
    <3> QED
      BY <3>2 DEF Carried, HydratableRow, Hydratable, StatusFields
  <2> QED
    BY <1>1, <2>1, <2>2, RowKinds
       DEF Taken, Expired, Carried, Ended, Reopened
<1>2. IInv /\ RowsInv /\ [Next]_vars
        => [\A o \in Ops :
              /\ row[o].status = "running"
              /\ \/ row'[o].attempt # row[o].attempt
                 \/ row'[o].error = "worker_lease_expired"
              => row[o].leaseExpiresAt <= clock]_vars
  BY <1>1
<1> QED
  BY <1>2, Invariance, RowsInvariance, PTL DEF Spec, LeaseHonoured

(* While an attempt runs, its row only goes forward: phase, instant and    *)
(* lease, whichever of the owner's statements is executed last.            *)
THEOREM AttemptsGoForward == Spec => AttemptGoesForward
<1>1. ASSUME IInv, RowsInv, Next, NEW o \in Ops,
             row[o].status = "running", row'[o].status = "running",
             row'[o].attempt = row[o].attempt
      PROVE  /\ row'[o].progress >= row[o].progress
             /\ row'[o].updatedAt >= row[o].updatedAt
             /\ row'[o].leaseExpiresAt >= row[o].leaseExpiresAt
             /\ row'[o].heartbeatAt >= row[o].heartbeatAt
  <2>1. row[o] \in Row /\ HydratableRow(row[o])
    BY <1>1 DEF IInv, TypeOK, RowsInv
  <2>2. /\ row[o].progress \in Nat /\ row[o].updatedAt \in Nat
        /\ row[o].leaseExpiresAt \in Nat /\ row[o].heartbeatAt \in Nat
        /\ row[o].attempt \in Nat
    BY <1>1, <2>1, PhaseAssumption
       DEF HydratableRow, Row, OptionalInstant, Instant, NoTime
  <2>3. row'[o] = row[o] \/ Carried(row[o], row'[o])
    BY <1>1, <2>2, RowKinds DEF Taken, Expired, Ended, Reopened
  <2> QED
    BY <2>2, <2>3 DEF Carried
<1>2. IInv /\ RowsInv /\ [Next]_vars
        => [\A o \in Ops :
              LET r == row[o]  new == row'[o] IN
              /\ r.status = "running" /\ new.status = "running"
              /\ new.attempt = r.attempt
              => /\ new.progress >= r.progress
                 /\ new.updatedAt >= r.updatedAt
                 /\ new.leaseExpiresAt >= r.leaseExpiresAt
                 /\ new.heartbeatAt >= r.heartbeatAt]_vars
  BY <1>1
<1> QED
  BY <1>2, Invariance, RowsInvariance, PTL DEF Spec, AttemptGoesForward

(* No attempt number is given out twice, whatever the requests do: a row   *)
(* comes to run, or changes hands, only as the next attempt.               *)
THEOREM AttemptsAreFresh == Spec => FreshAttemptPerOwner
<1>1. ASSUME IInv, RowsInv, Next, NEW o \in Ops
      PROVE  LET r == row[o]  new == row'[o] IN
             /\ new.attempt \in {r.attempt, r.attempt + 1}
             /\ new.attempt > r.attempt <=>
                  /\ new.status = "running"
                  /\ \/ r.status # "running"
                     \/ new.leaseOwner # r.leaseOwner
                     \/ new.attempt # r.attempt
  <2>1. row[o].attempt \in Nat
    BY <1>1 DEF IInv, TypeOK, Row
  <2> QED
    BY <1>1, <2>1, RowKinds DEF Taken, Expired, Carried, Ended, Reopened
<1>2. IInv /\ RowsInv /\ [Next]_vars
        => [\A o \in Ops :
              LET r == row[o]  new == row'[o] IN
              /\ new.attempt \in {r.attempt, r.attempt + 1}
              /\ new.attempt > r.attempt <=>
                   /\ new.status = "running"
                   /\ \/ r.status # "running"
                      \/ new.leaseOwner # r.leaseOwner
                      \/ new.attempt # r.attempt]_vars
  BY <1>1
<1> QED
  BY <1>2, Invariance, RowsInvariance, PTL DEF Spec, FreshAttemptPerOwner


-----------------------------------------------------------------------------
(* Success is proven.  A run that is about to record a checkpoint has its  *)
(* output at the final key: it renamed it there, or found it there when it *)
(* began, which is why a run that staged nothing must be followed from its *)
(* recovery on.                                                            *)

HasOutput(w) ==
    \/ pc[w] = "checkpoint"
    \/ /\ ~run[w].staged
       /\ \/ pc[w] \in {"gate", "revalidate", "promote"}
          \/ pc[w] \in {"advance", "advancing"} /\ run[w].goal # Rendering

ProofInv ==
    /\ SuccessIsProven
    /\ \A w \in Workers : HasOutput(w) => run[w].op \in output

LEMMA OutputStays ==
    ASSUME IInv, Next
    PROVE  output \subseteq output'
<1>1. ASSUME NEW w \in Workers, WorkerStep(w) PROVE output \subseteq output'
  BY <1>1
     DEF WorkerStep, BeginClaim, ClaimWins, ClaimThrows, ClaimFindsNothing,
         BeginAdvance, AdvanceCommits, AdvanceThrows, AdvanceRefused,
         Recovers, FindsNoOutput, Stages, Revalidated, GateOpens, LooksAtKey,
         Promote, RecordCheckpoint, BeginSettle, SettleCommits, SettleThrows,
         SettleRefused, GiveUp, BeginRecording, FailureCommits,
         FailureNotRecorded, BeginTransition, db
<1>2. ASSUME NEW w \in Workers, TimerSendsBeat(w) \/ Shutdown(w) \/ Crash(w)
      PROVE  output' = output
  BY <1>2 DEF TimerSendsBeat, Shutdown, Crash, db
<1>3. ASSUME NEW m \in beats, BeatLands(m) PROVE output' = output
  BY <1>3 DEF BeatLands, BeatRenews, BeatSkips, BeatRefused, BeatErrors, db
<1>4. ASSUME NEW q \in Requests, RequestStep(q) PROVE output' = output
  BY <1>4 DEF RequestStep, BeginCancel, BeginRetry, BeginCommand,
              CancelCommits, CancelThrows, CancelFindsTerminal,
              RetryCommits, RetryDoesNothing, db
<1>5. CASE Tick
  BY <1>5 DEF Tick, db
<1> QED
  BY <1>1, <1>2, <1>3, <1>4, <1>5 DEF Next

LEMMA CheckpointSteps ==
    ASSUME IInv, Next, NEW o \in Ops, checkpoint'[o] # checkpoint[o]
    PROVE  \E w \in Workers : /\ pc[w] = "checkpoint" /\ run[w].op = o
                              /\ checkpoint'[o] = row[o].attempt
                              /\ checkpoint[o] = 0
                              /\ row[o].status = "running"
                              /\ row[o].progress = Persisting
<1>1. ASSUME NEW w \in Workers, WorkerStep(w), ~RecordCheckpoint(w)
      PROVE  checkpoint' = checkpoint
  BY <1>1
     DEF WorkerStep, BeginClaim, ClaimWins, ClaimThrows, ClaimFindsNothing,
         BeginAdvance, AdvanceCommits, AdvanceThrows, AdvanceRefused,
         Recovers, FindsNoOutput, Stages, Revalidated, GateOpens, LooksAtKey,
         Promote, BeginSettle, SettleCommits, SettleThrows,
         SettleRefused, GiveUp, BeginRecording, FailureCommits,
         FailureNotRecorded, BeginTransition, db
<1>2. ASSUME NEW w \in Workers, TimerSendsBeat(w) \/ Shutdown(w) \/ Crash(w)
      PROVE  checkpoint' = checkpoint
  BY <1>2 DEF TimerSendsBeat, Shutdown, Crash, db
<1>3. ASSUME NEW m \in beats, BeatLands(m) PROVE checkpoint' = checkpoint
  BY <1>3 DEF BeatLands, BeatRenews, BeatSkips, BeatRefused, BeatErrors, db
<1>4. ASSUME NEW q \in Requests, RequestStep(q) PROVE checkpoint' = checkpoint
  BY <1>4 DEF RequestStep, BeginCancel, BeginRetry, BeginCommand,
              CancelCommits, CancelThrows, CancelFindsTerminal,
              RetryCommits, RetryDoesNothing, db
<1>5. Tick => checkpoint' = checkpoint
  BY DEF Tick, db
<1>6. PICK w \in Workers : RecordCheckpoint(w)
  BY <1>1, <1>2, <1>3, <1>4, <1>5 DEF Next
<1>7. PICK now \in Stamps :
        /\ CheckpointFence(row[run[w].op], w, now)
        /\ checkpoint' = [checkpoint EXCEPT
                            ![run[w].op] = IF @ = 0 THEN run[w].attempt ELSE @]
  BY <1>6 DEF RecordCheckpoint
<1>8. checkpoint \in [Ops -> Nat]
  BY DEF IInv, TypeOK
<1>9. run[w].op = o /\ checkpoint[o] = 0 /\ checkpoint'[o] = run[w].attempt
  BY <1>7, <1>8
<1>10. /\ row[o].attempt = run[w].attempt
       /\ row[o].status = "running" /\ row[o].progress = Persisting
  BY <1>7, <1>9 DEF CheckpointFence, Holds
<1> QED
  BY <1>6, <1>9, <1>10 DEF RecordCheckpoint

(* A checkpoint is the running attempt's and final.                        *)
THEOREM CheckpointsByHolder == Spec => CheckpointByHolder
<1>1. IInv /\ [Next]_vars
        => [\A o \in Ops :
              checkpoint'[o] # checkpoint[o] =>
                /\ checkpoint[o] = 0
                /\ row[o].status = "running"
                /\ row[o].progress = Persisting
                /\ checkpoint'[o] = row[o].attempt]_vars
  BY CheckpointSteps
<1> QED
  BY <1>1, Invariance, PTL DEF Spec, CheckpointByHolder

LEMMA OwnOutput ==
    ASSUME IInv, ProofInv, NEW w \in Workers, WorkerStep(w), HasOutput(w)'
    PROVE  run'[w].op \in output'
<1>0. /\ run \in [Workers -> Run] /\ pc \in [Actors -> Steps]
      /\ w \in Actors
      /\ HasOutput(w) => run[w].op \in output
  BY DEF IInv, TypeOK, ProofInv, Actors, Steps
<1>1. CASE pc'[w] \notin {"checkpoint", "gate", "revalidate", "promote",
                          "advance", "advancing"}
  BY <1>1 DEF HasOutput
<1>2. CASE ClaimWins(w)
  <2>1. \/ EndTransaction(w, "idle")
        \/ /\ EndTransaction(w, "advance")
           /\ \E r : run' = [run EXCEPT ![w] = r] /\ r.goal = Rendering
    <3>1. PICK o \in Ops :
            \/ /\ EndTransaction(w, "advance")
               /\ run' = [run EXCEPT ![w] =
                            [NoRun EXCEPT !.op = o,
                                          !.attempt = row[o].attempt + 1,
                                          !.budget = row[o].maxAttempts]]
            \/ EndTransaction(w, "idle")
      BY <1>2 DEF ClaimWins
    <3>2. [NoRun EXCEPT !.op = o, !.attempt = row[o].attempt + 1,
                        !.budget = row[o].maxAttempts].goal = Rendering
      BY DEF NoRun
    <3> QED
      BY <3>1, <3>2
  <2>2. pc'[w] = "idle" \/ (pc'[w] = "advance" /\ run'[w].goal = Rendering)
    BY <1>0, <2>1 DEF EndTransaction
  <2> QED
    BY <2>2 DEF HasOutput
<1>3. CASE BeginAdvance(w) \/ GateOpens(w)
  <2>1. /\ run' = run /\ output' = output /\ pc'[w] = "advancing"
        /\ pc[w] \in {"advance", "gate"}
    BY <1>0, <1>3
       DEF BeginAdvance, GateOpens, BeginTransition, BeginTransaction, db
  <2> QED
    BY <1>0, <2>1 DEF HasOutput
<1>4. CASE AdvanceCommits(w)
  <2>1. /\ pc[w] = "advancing" /\ output' = output
        /\ \/ pc'[w] = AfterPhase(run[w].goal) /\ run' = run
           \/ pc'[w] = "failing"
    BY <1>0, <1>4 DEF AdvanceCommits, EndTransaction, Fail
  <2>2. run[w].goal \in {Rendering, Verifying, Persisting}
    BY <1>0 DEF Run
  <2>3. CASE run[w].goal = Rendering
    <3>1. AfterPhase(run[w].goal) = "recover"
      BY <2>3 DEF AfterPhase, Rendering, Verifying, Persisting
    <3> QED
      BY <2>1, <3>1 DEF HasOutput
  <2>4. CASE run[w].goal # Rendering
    <3>1. AfterPhase(run[w].goal) \in {"revalidate", "promote"}
      BY <2>2, <2>4 DEF AfterPhase, Rendering, Verifying, Persisting
    <3> QED
      BY <1>0, <2>1, <2>4, <3>1 DEF HasOutput
  <2> QED
    BY <2>3, <2>4
<1>5. CASE Recovers(w)
  <2>1. run[w].op \in output /\ output' = output
    BY <1>5 DEF Recovers, db
  <2>2. run'[w].op = run[w].op
    BY <1>0, <1>5 DEF Recovers, ToGate, Run
  <2> QED
    BY <2>1, <2>2
<1>6. CASE Stages(w)
  <2>1. pc'[w] = "gate" /\ run'[w].staged
    BY <1>0, <1>6 DEF Stages, ToGate, Goto, Run
  <2> QED
    BY <2>1 DEF HasOutput
<1>7. CASE Revalidated(w)
  <2>1. /\ pc[w] = "revalidate" /\ pc'[w] = "gate" /\ output' = output
        /\ run'[w].op = run[w].op /\ run'[w].staged = run[w].staged
    BY <1>0, <1>7 DEF Revalidated, Goto, Run, db
  <2> QED
    BY <1>0, <2>1 DEF HasOutput
<1>8. CASE LooksAtKey(w)
  <2>1. /\ pc[w] = "promote" /\ run' = run /\ output' = output
        /\ pc'[w] = IF run[w].staged THEN "rename" ELSE "checkpoint"
    BY <1>0, <1>8 DEF LooksAtKey, Goto, db
  <2> QED
    BY <1>0, <2>1 DEF HasOutput
<1>9. CASE Promote(w)
  BY <1>9 DEF Promote
<1>10. CASE \/ BeginClaim(w) \/ ClaimThrows(w) \/ ClaimFindsNothing(w)
            \/ AdvanceThrows(w) \/ AdvanceRefused(w) \/ FindsNoOutput(w)
            \/ RecordCheckpoint(w) \/ BeginSettle(w)
            \/ SettleCommits(w) \/ SettleThrows(w) \/ SettleRefused(w)
            \/ GiveUp(w) \/ BeginRecording(w)
            \/ FailureCommits(w) \/ FailureNotRecorded(w)
  <2>1. pc'[w] \in {"claiming", "idle", "failing", "stage", "settle",
                    "settling", "recording"}
    BY <1>0, <1>10
       DEF BeginClaim, ClaimThrows, ClaimFindsNothing, AdvanceThrows,
           AdvanceRefused, FindsNoOutput, RecordCheckpoint, BeginSettle,
           SettleCommits, SettleThrows, SettleRefused, GiveUp,
           BeginRecording, FailureCommits, FailureNotRecorded,
           BeginTransition, BeginTransaction, EndTransaction, Goto, Fail
  <2> QED
    BY <1>1, <2>1
<1> QED
  BY <1>2, <1>3, <1>4, <1>5, <1>6, <1>7, <1>8, <1>9, <1>10 DEF WorkerStep

LEMMA OthersStay ==
    ASSUME IInv, NEW w \in Workers, WorkerStep(w), NEW v \in Workers, v # w
    PROVE  pc'[v] = pc[v] /\ run'[v] = run[v]
<1>0. run \in [Workers -> Run] /\ pc \in [Actors -> Steps] /\ v \in Actors
  BY DEF IInv, TypeOK, Actors, Steps
<1>1. run' = run \/ \E r : run' = [run EXCEPT ![w] = r]
  BY <1>0
     DEF WorkerStep, BeginClaim, ClaimWins, ClaimThrows, ClaimFindsNothing,
         BeginAdvance, AdvanceCommits, AdvanceThrows, AdvanceRefused,
         Recovers, FindsNoOutput, Stages, Revalidated, GateOpens, LooksAtKey,
         Promote, RecordCheckpoint, BeginSettle, SettleCommits, SettleThrows,
         SettleRefused, GiveUp, BeginRecording, FailureCommits,
         FailureNotRecorded, EndRun, Fail, ToGate
<1>2. \E step : pc' = [pc EXCEPT ![w] = step]
  BY <1>0
     DEF WorkerStep, BeginClaim, ClaimWins, ClaimThrows, ClaimFindsNothing,
         BeginAdvance, AdvanceCommits, AdvanceThrows, AdvanceRefused,
         Recovers, FindsNoOutput, Stages, Revalidated, GateOpens, LooksAtKey,
         Promote, RecordCheckpoint, BeginSettle, SettleCommits, SettleThrows,
         SettleRefused, GiveUp, BeginRecording, FailureCommits,
         FailureNotRecorded, BeginTransition, BeginTransaction,
         EndTransaction, Goto, Fail, ToGate
<1> QED
  BY <1>0, <1>1, <1>2

LEMMA OutputsKept ==
    ASSUME IInv, ProofInv, Next, NEW v \in Workers, HasOutput(v)'
    PROVE  run'[v].op \in output'
<1>0. /\ output \subseteq output'
      /\ run \in [Workers -> Run] /\ pc \in [Actors -> Steps]
      /\ v \in Actors
      /\ HasOutput(v) => run[v].op \in output
  BY OutputStays DEF IInv, TypeOK, ProofInv, Actors, Steps
<1>1. ASSUME pc'[v] = pc[v], run'[v].op = run[v].op,
             run'[v].staged = run[v].staged, run'[v].goal = run[v].goal
      PROVE  run'[v].op \in output'
  BY <1>0, <1>1 DEF HasOutput
<1>2. ASSUME NEW w \in Workers, WorkerStep(w) PROVE run'[v].op \in output'
  BY <1>1, <1>2, OwnOutput, OthersStay
<1>3. ASSUME NEW w \in Workers, TimerSendsBeat(w) \/ Shutdown(w)
      PROVE  run'[v].op \in output'
  BY <1>1, <1>3 DEF TimerSendsBeat, Shutdown
<1>4. ASSUME NEW w \in Workers, Crash(w) PROVE run'[v].op \in output'
  <2>1. CASE v = w
    <3>1. pc'[v] = "dead"
      BY <1>0, <1>4, <2>1 DEF Crash, EndTransaction
    <3> QED
      BY <3>1 DEF HasOutput
  <2>2. CASE v # w
    BY <1>0, <1>1, <1>4, <2>2 DEF Crash, EndTransaction, EndRun
  <2> QED
    BY <2>1, <2>2
<1>5. ASSUME NEW m \in beats, BeatLands(m) PROVE run'[v].op \in output'
  <2>1. pc' = pc
    BY <1>5 DEF BeatLands, BeatRenews, BeatSkips, BeatRefused, BeatErrors
  <2>2. run' = run \/ run' = [run EXCEPT ![m.owner].lost = TRUE]
    BY <1>5
       DEF BeatLands, BeatRenews, BeatSkips, BeatRefused, BeatErrors, LearnsLoss
  <2>3. /\ run'[v].op = run[v].op /\ run'[v].staged = run[v].staged
        /\ run'[v].goal = run[v].goal
    BY <1>0, <2>2 DEF Run
  <2> QED
    BY <1>1, <2>1, <2>3
<1>6. ASSUME NEW q \in Requests, RequestStep(q) PROVE run'[v].op \in output'
  <2>1. run' = run
    BY <1>6 DEF RequestStep, BeginCancel, BeginRetry, BeginCommand,
                CancelCommits, CancelThrows, CancelFindsTerminal,
                RetryCommits, RetryDoesNothing
  <2>2. \E step : pc' = [pc EXCEPT ![q] = step]
    BY <1>6 DEF RequestStep, BeginCancel, BeginRetry, BeginCommand,
                CancelCommits, CancelThrows, CancelFindsTerminal,
                RetryCommits, RetryDoesNothing, BeginTransaction, EndTransaction
  <2>3. q # v
    BY RequestsAssumption
  <2> QED
    BY <1>0, <1>1, <2>1, <2>2, <2>3
<1>7. CASE Tick
  BY <1>1, <1>7 DEF Tick
<1> QED
  BY <1>2, <1>3, <1>4, <1>5, <1>6, <1>7 DEF Next

LEMMA SuccessKept ==
    ASSUME IInv, RowsInv, ProofInv, Next, NEW o \in Ops
    PROVE  /\ row'[o].status = "succeeded" => checkpoint'[o] # 0
           /\ checkpoint'[o] # 0 =>
                o \in output' /\ checkpoint'[o] <= row'[o].attempt
<1>0. /\ output \subseteq output'
      /\ row[o].attempt \in Nat /\ checkpoint[o] \in Nat
      /\ row[o].status = "succeeded" => checkpoint[o] # 0
      /\ checkpoint[o] # 0 => o \in output /\ checkpoint[o] <= row[o].attempt
  BY OutputStays DEF IInv, TypeOK, Row, ProofInv, SuccessIsProven
<1>1. /\ row'[o].attempt \in {row[o].attempt, row[o].attempt + 1}
      /\ row'[o].status = "succeeded" =>
           row[o].status = "succeeded" \/ checkpoint[o] # 0
  BY RowKinds DEF Taken, Expired, Carried, Ended, Reopened
<1>2. CASE checkpoint'[o] = checkpoint[o]
  BY <1>0, <1>1, <1>2
<1>3. CASE checkpoint'[o] # checkpoint[o]
  <2>1. PICK w \in Workers : /\ pc[w] = "checkpoint" /\ run[w].op = o
                             /\ checkpoint'[o] = row[o].attempt
                             /\ checkpoint[o] = 0
    BY <1>3, CheckpointSteps
  <2>2. o \in output
    BY <2>1 DEF ProofInv, HasOutput
  <2> QED
    BY <1>0, <1>1, <1>3, <2>1, <2>2
<1> QED
  BY <1>2, <1>3

(* An operation that succeeded has a checkpoint which one of its own       *)
(* attempts recorded, of an output that is there.                          *)
THEOREM SuccessProven == Spec => []SuccessIsProven
<1>1. Init => ProofInv
  BY DEF Init, ProofInv, SuccessIsProven, HasOutput, NewOperation, Actors
<1>2. IInv /\ RowsInv /\ ProofInv /\ [Next]_vars => ProofInv'
  <2>1. ASSUME IInv, RowsInv, ProofInv, Next PROVE ProofInv'
    <3>1. SuccessIsProven'
      BY <2>1, SuccessKept DEF SuccessIsProven
    <3> QED
      BY <2>1, <3>1, OutputsKept DEF ProofInv
  <2>2. ASSUME ProofInv, UNCHANGED vars PROVE ProofInv'
    BY <2>2 DEF ProofInv, SuccessIsProven, HasOutput, vars, db
  <2> QED
    BY <2>1, <2>2
<1>3. ProofInv => SuccessIsProven
  BY DEF ProofInv
<1> QED
  BY <1>1, <1>2, <1>3, Invariance, RowsInvariance, PTL DEF Spec

-----------------------------------------------------------------------------
(* The feed.  A write announces the change from the status its transaction *)
(* read, so it says nothing if it leaves that status: it must then have    *)
(* been the row's.  The fences see to it.                                  *)

LEMMA WriteMatches ==
    ASSUME TypeOK, FeedMatchesRow, NEW o \in Ops, NEW r, NEW from,
           Write(o, r, from), from = r.status => row[o].status = from
    PROVE  FeedMatchesRow'
<1>1. /\ row' = [row EXCEPT ![o] = r] /\ DOMAIN row = Ops
      /\ DOMAIN feed = Ops
  BY DEF Write, TypeOK
<1>2. CASE from = r.status
  BY <1>1, <1>2 DEF Write, Publish, FeedMatchesRow
<1>3. CASE from # r.status
  <2>1. feed' = [feed EXCEPT ![o] = [from |-> from, to |-> r.status]]
    BY <1>3 DEF Write, Publish
  <2> QED
    BY <1>1, <2>1 DEF FeedMatchesRow
<1> QED
  BY <1>2, <1>3

LEMMA CommitMatches ==
    ASSUME FeedMatchesRow, NEW table, Commits(table)
    PROVE  FeedMatchesRow'
BY DEF Commits, FeedMatchesRow

LEMMA StatusesStay ==
    ASSUME FeedMatchesRow, feed' = feed,
           \A o \in Ops : row'[o].status = row[o].status
    PROVE  FeedMatchesRow'
BY DEF FeedMatchesRow

LEMMA FeedKept ==
    ASSUME IInv, FeedMatchesRow, Next
    PROVE  FeedMatchesRow'
<1>0. TypeOK /\ Consistent /\ row \in [Ops -> Row]
  BY DEF IInv, TypeOK
<1>1. ASSUME NEW w \in Workers, WorkerStep(w) PROVE FeedMatchesRow'
  <2>1. CASE ClaimWins(w) \/ ClaimFindsNothing(w)
    <3>1. \E table : Commits(table)
      BY <2>1 DEF ClaimWins, ClaimFindsNothing
    <3> QED
      BY <3>1, CommitMatches
  <2>2. CASE AdvanceCommits(w) \/ SettleCommits(w) \/ FailureCommits(w)
    <3>1. pc[w] \in InTransaction
      BY <2>2 DEF AdvanceCommits, SettleCommits, FailureCommits, InTransaction
    <3>2. run[w].op \in Ops
      BY <1>0, <3>1, TransitionSteps
    <3>3. \E r : Write(run[w].op, r, Snapshot(w).status)
      BY <2>2 DEF AdvanceCommits, SettleCommits, FailureCommits
    <3>4. row[run[w].op].status = Snapshot(w).status
      BY <2>2 DEF AdvanceCommits, SettleCommits, FailureCommits, Accepted,
                  Holds, TransitionFence
    <3> QED
      BY <1>0, <3>2, <3>3, <3>4, WriteMatches
  <2>3. CASE RecordCheckpoint(w)
    <3>1. feed' = feed
      BY <2>3 DEF RecordCheckpoint
    <3>2. \/ row' = row
          \/ \E o, now : row' = [row EXCEPT ![o].updatedAt = now]
      BY <2>3 DEF RecordCheckpoint
    <3>3. \A o \in Ops : row'[o].status = row[o].status
      BY <1>0, <3>2 DEF Row
    <3> QED
      BY <3>1, <3>3, StatusesStay
  <2>4. CASE \/ BeginClaim(w) \/ ClaimThrows(w) \/ BeginAdvance(w)
             \/ AdvanceThrows(w) \/ AdvanceRefused(w)
             \/ Recovers(w) \/ FindsNoOutput(w) \/ Stages(w)
             \/ Revalidated(w) \/ GateOpens(w) \/ LooksAtKey(w) \/ Promote(w)
             \/ BeginSettle(w) \/ SettleThrows(w) \/ SettleRefused(w)
             \/ GiveUp(w) \/ BeginRecording(w) \/ FailureNotRecorded(w)
    <3>1. UNCHANGED <<row, feed>>
      BY <2>4
         DEF BeginClaim, ClaimThrows, BeginAdvance, BeginTransition,
             AdvanceThrows, AdvanceRefused, Recovers, FindsNoOutput, Stages,
             Revalidated, GateOpens, LooksAtKey, Promote, BeginSettle,
             SettleThrows, SettleRefused, GiveUp, BeginRecording,
             FailureNotRecorded, db
    <3> QED
      BY <3>1, StatusesStay
  <2> QED
    BY <1>1, <2>1, <2>2, <2>3, <2>4 DEF WorkerStep
<1>2. CASE \/ Tick
           \/ \E w \in Workers : TimerSendsBeat(w) \/ Shutdown(w) \/ Crash(w)
  <2>1. UNCHANGED <<row, feed>>
    BY <1>2 DEF Tick, TimerSendsBeat, Shutdown, Crash, db
  <2> QED
    BY <2>1, StatusesStay
<1>3. ASSUME NEW m \in beats, BeatLands(m) PROVE FeedMatchesRow'
  <2>1. feed' = feed
    BY <1>3 DEF BeatLands, BeatRenews, BeatSkips, BeatRefused, BeatErrors, db
  <2>2. \A o \in Ops : row'[o].status = row[o].status
    <3>1. CASE BeatRenews(m)
      BY <1>0, <3>1 DEF BeatRenews, Row
    <3>2. CASE ~BeatRenews(m)
      BY <1>3, <3>2 DEF BeatLands, BeatSkips, BeatRefused, BeatErrors, db
    <3> QED
      BY <3>1, <3>2
  <2> QED
    BY <2>1, <2>2, StatusesStay
<1>4. ASSUME NEW q \in Requests, RequestStep(q) PROVE FeedMatchesRow'
  <2>0. \A o \in DOMAIN read[q] : o \in Ops /\ read[q][o] \in Row
    BY <1>0 DEF TypeOK, Actors
  <2>1. CASE CancelCommits(q)
    <3>1. PICK o \in DOMAIN read[q] :
            /\ ~IsTerminal(read[q][o])
            /\ Write(o, Canceled(row[o], read[q][o], stamp[q]),
                     read[q][o].status)
      BY <2>1 DEF CancelCommits
    <3> DEFINE u == Cancel(row[o],
                           CancellationInstant(read[q][o], stamp[q]))
    <3>2. row[o] \in Row /\ o \in Ops
      BY <1>0, <2>0
    <3>3. u.status = "canceled"
      BY <3>2 DEF Cancel, Row
    <3>4. NoLease(u).status = u.status
      BY <3>2 DEF Cancel, NoLease, Row
    <3>5. read[q][o].status # "canceled"
      BY <3>1 DEF IsTerminal, Terminal
    <3> QED
      BY <1>0, <3>1, <3>2, <3>3, <3>4, <3>5, WriteMatches DEF Canceled
  <2>2. CASE RetryCommits(q)
    <3>1. PICK o \in DOMAIN read[q] :
            /\ row[o].status = read[q][o].status
            /\ \E r : Write(o, r, read[q][o].status)
      BY <2>2 DEF RetryCommits, Retries, RetryFence
    <3> QED
      BY <1>0, <2>0, <3>1, WriteMatches
  <2>3. CASE \/ BeginCancel(q) \/ CancelThrows(q) \/ CancelFindsTerminal(q)
             \/ BeginRetry(q) \/ RetryDoesNothing(q)
    <3>1. UNCHANGED <<row, feed>>
      BY <2>3 DEF BeginCancel, BeginRetry, BeginCommand, CancelThrows,
                  CancelFindsTerminal, RetryDoesNothing, db
    <3> QED
      BY <3>1, StatusesStay
  <2> QED
    BY <1>4, <2>1, <2>2, <2>3 DEF RequestStep
<1> QED
  BY <1>1, <1>2, <1>3, <1>4 DEF Next

(* The newest status event of an operation names the status its row has,   *)
(* whatever status the transaction that wrote it had read.                 *)
THEOREM FeedTellsTheStatus == Spec => []FeedMatchesRow
<1>1. Init => FeedMatchesRow
  BY DEF Init, FeedMatchesRow, NewOperation
<1>2. IInv /\ FeedMatchesRow /\ [Next]_vars => FeedMatchesRow'
  <2>1. ASSUME FeedMatchesRow, UNCHANGED vars PROVE FeedMatchesRow'
    BY <2>1 DEF FeedMatchesRow, vars, db
  <2> QED
    BY <2>1, FeedKept
<1> QED
  BY <1>1, <1>2, Invariance, PTL DEF Spec

-----------------------------------------------------------------------------
(* The budget.  A worker that judges a failure, or a claim that closes a   *)
(* row, looks at the attempts of the row it read; as attempt numbers are   *)
(* fresh, a row that still runs with the attempt that was read still has   *)
(* the budget that was read.  A retry compares no attempt: its section     *)
(* comes after that of the instants it does compare.                       *)

BudgetInv ==
    \A w \in Workers, o \in Ops :
      o \in DOMAIN read[w] =>
        LET s == read[w][o] IN
        /\ s.attempt <= row[o].attempt
        /\ /\ s.status = "running" /\ row[o].status = "running"
           /\ s.attempt = row[o].attempt
           => s.maxAttempts = row[o].maxAttempts

LEMMA ReadsChange ==
    ASSUME TypeOK, Next, NEW a \in Actors
    PROVE  \/ read'[a] = read[a]
           \/ DOMAIN read'[a] = {}
           \/ row' = row /\ \A o \in DOMAIN read'[a] : read'[a][o] = row[o]
<1>0. DOMAIN read = Actors
  BY DEF TypeOK
<1> DEFINE Same == read'[a] = read[a]
           Gone == DOMAIN read'[a] = {}
           Fresh == row' = row /\ \A o \in DOMAIN read'[a] : read'[a][o] = row[o]
<1>1. ASSUME NEW v \in Workers, WorkerStep(v) PROVE Same \/ Gone \/ Fresh
  <2>0. v \in Actors
    BY DEF Actors
  <2>1. CASE \/ ClaimWins(v) \/ ClaimThrows(v) \/ ClaimFindsNothing(v)
             \/ AdvanceCommits(v) \/ AdvanceThrows(v) \/ AdvanceRefused(v)
             \/ SettleCommits(v) \/ SettleThrows(v) \/ SettleRefused(v)
             \/ FailureCommits(v) \/ FailureNotRecorded(v)
    <3>1. read' = [read EXCEPT ![v] = NoRead]
      BY <2>1 DEF ClaimWins, ClaimThrows, ClaimFindsNothing, AdvanceCommits,
                  AdvanceThrows, AdvanceRefused, SettleCommits, SettleThrows,
                  SettleRefused, FailureCommits, FailureNotRecorded, Fail,
                  EndTransaction
    <3> QED
      BY <1>0, <3>1 DEF NoRead
  <2>2. CASE \/ BeginClaim(v) \/ BeginAdvance(v) \/ GateOpens(v)
             \/ BeginSettle(v) \/ BeginRecording(v)
    <3>1. /\ \E ops : read' = [read EXCEPT ![v] = [o \in ops |-> row[o]]]
          /\ row' = row
      BY <2>2 DEF BeginClaim, BeginAdvance, GateOpens, BeginSettle, BeginRecording,
                  BeginTransition, BeginTransaction, db
    <3> QED
      BY <1>0, <3>1
  <2>3. CASE \/ Recovers(v) \/ FindsNoOutput(v) \/ Stages(v) \/ Revalidated(v)
             \/ LooksAtKey(v) \/ Promote(v) \/ RecordCheckpoint(v)
             \/ GiveUp(v)
    <3>1. read' = read
      BY <2>3 DEF Recovers, FindsNoOutput, Stages, Revalidated, LooksAtKey,
                  Promote, RecordCheckpoint, GiveUp
    <3> QED
      BY <3>1
  <2> QED
    BY <1>1, <2>1, <2>2, <2>3 DEF WorkerStep
<1>2. ASSUME NEW v \in Workers, TimerSendsBeat(v) \/ Shutdown(v)
      PROVE  Same
  BY <1>2 DEF TimerSendsBeat, Shutdown
<1>3. ASSUME NEW v \in Workers, Crash(v) PROVE Same \/ Gone
  BY <1>0, <1>3 DEF Crash, EndTransaction, NoRead
<1>4. ASSUME NEW m \in beats, BeatLands(m) PROVE Same
  BY <1>4 DEF BeatLands, BeatRenews, BeatSkips, BeatRefused, BeatErrors
<1>5. ASSUME NEW q \in Requests, RequestStep(q) PROVE Same \/ Gone \/ Fresh
  <2>1. CASE \/ CancelCommits(q) \/ CancelThrows(q) \/ CancelFindsTerminal(q)
             \/ RetryCommits(q) \/ RetryDoesNothing(q)
    <3>1. read' = [read EXCEPT ![q] = NoRead]
      BY <2>1 DEF CancelCommits, CancelThrows, CancelFindsTerminal,
                  RetryCommits, RetryDoesNothing, EndTransaction
    <3> QED
      BY <1>0, <3>1 DEF NoRead
  <2>2. CASE BeginCancel(q) \/ BeginRetry(q)
    <3>1. /\ \E ops : read' = [read EXCEPT ![q] = [o \in ops |-> row[o]]]
          /\ row' = row
      BY <2>2 DEF BeginCancel, BeginRetry, BeginCommand, BeginTransaction, db
    <3> QED
      BY <1>0, <3>1
  <2> QED
    BY <1>5, <2>1, <2>2 DEF RequestStep
<1>6. CASE Tick
  BY <1>6 DEF Tick
<1> QED
  BY <1>1, <1>2, <1>3, <1>4, <1>5, <1>6 DEF Next

LEMMA BudgetKept ==
    ASSUME IInv, RowsInv, BudgetInv, Next
    PROVE  BudgetInv'
<1> SUFFICES ASSUME NEW w \in Workers, NEW o \in Ops, o \in DOMAIN read'[w]
             PROVE  LET s == read'[w][o]  n == row'[o] IN
                    /\ s.attempt <= n.attempt
                    /\ /\ s.status = "running" /\ n.status = "running"
                       /\ s.attempt = n.attempt
                       => s.maxAttempts = n.maxAttempts
  BY DEF BudgetInv
<1>0. TypeOK /\ row[o].attempt \in Nat /\ w \in Actors
  BY DEF IInv, TypeOK, Row, Actors
<1>1. CASE read'[w] = read[w]
  <2>1. /\ read[w][o].attempt <= row[o].attempt
        /\ /\ read[w][o].status = "running" /\ row[o].status = "running"
           /\ read[w][o].attempt = row[o].attempt
           => read[w][o].maxAttempts = row[o].maxAttempts
        /\ read[w][o].attempt \in Nat
    BY <1>0, <1>1 DEF BudgetInv, TypeOK, Actors, Row
  <2> QED
    BY <1>0, <1>1, <2>1, RowKinds
       DEF Taken, Expired, Carried, Ended, Reopened
<1>2. CASE DOMAIN read'[w] = {}
  BY <1>2
<1>3. CASE row' = row /\ \A p \in DOMAIN read'[w] : read'[w][p] = row[p]
  BY <1>0, <1>3
<1> QED
  BY <1>0, <1>1, <1>2, <1>3, ReadsChange

\* How a row comes to fail or to wait for a retry: closed or judged.
LEMMA JudgedSteps ==
    ASSUME TypeOK, NEW o \in Ops, row[o].status = "running", RowStep(o),
           row'[o].status \in {"failed", "retrying"}
    PROVE  CloseStep(o) \/ FailStep(o)
<1>0. row[o] \in Row /\ 0..clock \subseteq Instant /\ 0..clock \subseteq Nat
  BY NatAssumption DEF TypeOK, Instant
<1>1. ~ClaimStep(o)
  BY <1>0, ClaimedFields DEF ClaimStep
<1>2. ~AdvanceStep(o)
  <2>1. SUFFICES ASSUME NEW s \in Row,
                        NEW p \in {Rendering, Verifying, Persisting},
                        NEW now \in 0..clock, CanAdvance(s, p, now)
                 PROVE  Overwrite(row[o], Advance(s, p, now)).status = "running"
    BY DEF AdvanceStep
  <2>2. Advance(s, p, now).status = "running"
    BY <2>1 DEF Advance, CanAdvance, Row
  <2> QED
    BY <1>0, <2>2 DEF Overwrite, Row
<1>3. ~SucceedStep(o)
  <2>1. SUFFICES ASSUME NEW s \in Row, NEW now \in 0..clock
                 PROVE  NoLease(Overwrite(row[o], Succeed(s, now))).status
                          = "succeeded"
    BY DEF SucceedStep
  <2>2. Succeed(s, now) \in Row /\ Succeed(s, now).status = "succeeded"
    BY <1>0, SucceedType DEF Succeed, Row
  <2> QED
    BY <1>0, <2>2, ReleasedFields
<1>4. ~RenewStep(o) /\ ~CheckpointStep(o)
  BY <1>0 DEF RenewStep, CheckpointStep, Row
<1>5. ~CancelStep(o)
  BY <1>0 DEF CancelStep, Canceled, Cancel, NoLease, Row
<1>6. ~RetryStep(o)
  BY DEF RetryStep, CanRetry, RetryFence
<1>7. row'[o] # row[o]
  OBVIOUS
<1> QED
  BY <1>1, <1>2, <1>3, <1>4, <1>5, <1>6, <1>7 DEF RowStep

\* A worker's or a claim's judgement of the attempts is that of the row.
LEMMA Judgement ==
    ASSUME TypeOK, BudgetInv, NEW o \in Ops, RowStep(o),
           row[o].status = "running", HydratableRow(row'[o]),
           row'[o].status \in {"failed", "retrying"}
    PROVE  /\ FailureDeserved(row'[o])
           /\ row'[o].status = "retrying" => row[o].attempt < row[o].maxAttempts
<1> DEFINE r == row[o]  n == row'[o]
<1>0. /\ r \in Row /\ r.attempt \in Nat /\ r.maxAttempts \in Nat
      /\ 0..clock \subseteq Instant
      /\ n.attempt <= n.maxAttempts
      /\ n.deadLetteredAt # NoTime => n.status = "failed"
  BY NatAssumption
     DEF TypeOK, Row, Instant, HydratableRow, Hydratable, StatusFields
<1>1. CASE CloseStep(o)
  <2>1. PICK s \in Row, now \in 0..clock :
          /\ WorkerRead(o, s) /\ ~HasAttempts(s) /\ s.status = "running"
          /\ ClaimFence(r, s, now)
          /\ n = Exhausted(r, now)
    BY <1>1 DEF CloseStep
  <2>2. r.attempt = s.attempt /\ r.maxAttempts = s.maxAttempts
    BY <2>1 DEF ClaimFence, WorkerRead, BudgetInv
  <2>3. /\ n.attempt = r.attempt /\ n.maxAttempts = r.maxAttempts
        /\ n.status = "failed" /\ n.error = "worker_lease_expired"
        /\ n.deadLetteredAt = now /\ now # NoTime
    BY <1>0, <2>1 DEF Exhausted, NoLease, Row, NoTime
  <2>4. n.attempt = n.maxAttempts
    BY <1>0, <2>1, <2>2, <2>3 DEF HasAttempts
  <2> QED
    BY <2>3, <2>4 DEF FailureDeserved
<1>2. CASE FailStep(o)
  <2>1. PICK s \in Row, f \in Failures, now \in 0..clock, next \in OptionalInstant :
          /\ WorkerRead(o, s) /\ s.status = "running"
          /\ r.attempt = s.attempt
          /\ n = NoLease(Overwrite(r, FailOrRetry(s, f, now, next)))
    BY <1>2 DEF FailStep
  <2> DEFINE u == FailOrRetry(s, f, now, next)
  <2>2. r.maxAttempts = s.maxAttempts
    BY <2>1 DEF WorkerRead, BudgetInv
  <2>3. u \in Row
    BY <1>0, FailOrRetryType
  <2>4. IF f \in RetryableErrors /\ s.attempt < s.maxAttempts
          THEN u.status = "retrying"
          ELSE /\ u.status = "failed" /\ u.error = f
               /\ u.deadLetteredAt =
                    IF f \in RetryableErrors THEN now ELSE NoTime
    BY DEF FailOrRetry, Row
  <2> HIDE DEF u
  <2>5. /\ n.status = u.status /\ n.error = u.error
        /\ n.attempt = r.attempt /\ n.maxAttempts = r.maxAttempts
        /\ n.deadLetteredAt = u.deadLetteredAt
    BY <1>0, <2>1, <2>3, ReleasedFields DEF u
  <2>6. now # NoTime
    BY DEF NoTime
  <2>7. n.status = "retrying" => r.attempt < r.maxAttempts
    BY <2>1, <2>2, <2>4, <2>5
  <2>8. n.status = "failed" /\ f \in RetryableErrors
          => n.attempt = n.maxAttempts
    BY <1>0, <2>1, <2>2, <2>4, <2>5
  <2>9. FailureDeserved(n)
    BY <1>0, <2>4, <2>5, <2>6, <2>8
       DEF FailureDeserved, Failures
  <2> QED
    BY <2>7, <2>9
<1> QED
  BY <1>1, <1>2, JudgedSteps

LEMMA BudgetInvariance == Spec => []BudgetInv
<1>1. Init => BudgetInv
  BY DEF Init, BudgetInv, NoRead, Actors
<1>2. IInv /\ RowsInv /\ BudgetInv /\ [Next]_vars => BudgetInv'
  <2>1. ASSUME BudgetInv, UNCHANGED vars PROVE BudgetInv'
    BY <2>1 DEF BudgetInv, vars, db
  <2> QED
    BY <2>1, BudgetKept
<1> QED
  BY <1>1, <1>2, Invariance, RowsInvariance, PTL DEF Spec

LEMMA FailuresKept ==
    ASSUME IInv, RowsInv, BudgetInv, Next, NEW o \in Ops,
           FailureDeserved(row[o])
    PROVE  FailureDeserved(row'[o])
<1>0. TypeOK /\ RowStep(o) /\ HydratableRow(row'[o])
  BY NextRows, HydratableStep DEF IInv, RowsStep, RowsInv
<1>1. CASE row'[o].status # "failed"
  BY <1>0, <1>1 DEF HydratableRow, Hydratable, StatusFields, FailureDeserved
<1>2. CASE row'[o].status = "failed" /\ row'[o] # row[o]
  <2>1. row[o].status = "running"
    BY <1>2, RowKinds DEF Taken, Expired, Carried, Ended, Reopened
  <2> QED
    BY <1>0, <1>2, <2>1, Judgement
<1> QED
  BY <1>1, <1>2

(* A failure is dead-lettered exactly when it is one a retry could have    *)
(* helped and the attempts are used up, whatever the requests do: no       *)
(* worker and no claim judges the attempts of a budget that has changed.   *)
THEOREM FailuresAreDeserved == Spec => [](\A o \in Ops : FailureDeserved(row[o]))
<1> DEFINE Deserved == \A o \in Ops : FailureDeserved(row[o])
<1>1. Init => Deserved
  BY DEF Init, NewOperation, FailureDeserved
<1>2. IInv /\ RowsInv /\ BudgetInv /\ Deserved /\ [Next]_vars => Deserved'
  <2>1. ASSUME Deserved, UNCHANGED vars PROVE Deserved'
    BY <2>1 DEF vars, db
  <2>2. ASSUME IInv, RowsInv, BudgetInv, Deserved, Next PROVE Deserved'
    BY <2>2, FailuresKept
  <2> QED
    BY <2>1, <2>2
<1> HIDE DEF Deserved
<1>3. Spec => []Deserved
  BY <1>1, <1>2, Invariance, RowsInvariance, BudgetInvariance, PTL DEF Spec
<1> QED
  BY <1>3 DEF Deserved

-----------------------------------------------------------------------------
(* The instants of a row.  A retry compares updatedAt; this is why that is *)
(* nearly enough.  A row is taken up again strictly later than it was put  *)
(* back, so a row that was taken since a retry read it shows a later       *)
(* updatedAt, unless it was set back; and only a cancel sets it back.      *)

WithinLease(r) == r.status = "running" => r.updatedAt < r.leaseExpiresAt

ReadsHydratable ==
    \A a \in Actors, o \in Ops :
      o \in DOMAIN read[a] => HydratableRow(read[a][o])

TimeInv == (\A o \in Ops : WithinLease(row[o])) /\ ReadsHydratable

LEMMA ClaimedTimes ==
    ASSUME NEW r \in Row, NEW s \in Row, NEW w \in Workers, NEW now \in Nat
    PROVE  /\ Claimed(r, s, w, now).updatedAt = now
           /\ Claimed(r, s, w, now).leaseExpiresAt = now + LeaseDuration
<1> DEFINE next == Start(s, now)
           u == [Overwrite(r, next) EXCEPT !.attempt = next.attempt,
                                           !.startedAt = next.startedAt]
<1>1. next \in Row /\ next.updatedAt = now
  BY StartType DEF Start, Row, Instant
<1> HIDE DEF next
<1>2. u \in Row /\ u.updatedAt = now
  BY <1>1 DEF Overwrite, Row
<1>3. Claimed(r, s, w, now) = Lease(u, w, now)
  BY DEF Claimed, next
<1> HIDE DEF u
<1> QED
  BY <1>2, <1>3 DEF Lease, Row

LEMMA RetriedTimes ==
    ASSUME NEW r \in Row, NEW s \in Row, NEW now \in Nat
    PROVE  /\ Retried(r, s, now).updatedAt = now
           /\ s.attempt = 0 => Retried(r, s, now).status = "queued"
<1> DEFINE next == Retry(s, now)
           u == [Overwrite(r, next) EXCEPT !.progress = r.progress,
                                           !.maxAttempts = next.maxAttempts,
                                           !.startedAt = next.startedAt]
<1>1. next \in Row
  BY RetryType DEF Instant
<1>2. /\ next.updatedAt = now
      /\ s.attempt = 0 => next.status = "queued"
  BY DEF Retry, Row
<1> HIDE DEF next
<1>3. u \in Row /\ u.status = next.status /\ u.updatedAt = now
  BY <1>1, <1>2 DEF Overwrite, Row
<1>4. Retried(r, s, now) = NoLease(u)
  BY DEF Retried, next
<1> HIDE DEF u
<1> QED
  BY <1>2, <1>3, <1>4 DEF NoLease, Row

LEMMA ReleasedTimes ==
    ASSUME NEW r \in Row, NEW next \in Row
    PROVE  /\ NoLease(Overwrite(r, next)).updatedAt = next.updatedAt
           /\ NoLease(Overwrite(r, next)).status = next.status
BY DEF NoLease, Overwrite, Row

\* What a step does to the instants of a row.
Forward(r, n) ==
    /\ WithinLease(n)
    /\ n.status = "canceled" \/ n.updatedAt >= r.updatedAt
    /\ r.status = "retrying" /\ n.status = "running"
         => n.updatedAt > r.updatedAt

LEMMA InstantsForward ==
    ASSUME TypeOK, TimeInv, NEW o \in Ops, HydratableRow(row[o]), RowStep(o)
    PROVE  Forward(row[o], row'[o])
<1> DEFINE r == row[o]  n == row'[o]
<1>0. /\ r \in Row /\ r.updatedAt \in Nat /\ clock \in Nat
      /\ 0..clock \subseteq Nat /\ 0..clock \subseteq Instant
      /\ WithinLease(r)
  BY NatAssumption DEF TypeOK, Row, Instant, TimeInv
<1>a. r.status = "running" => r.leaseExpiresAt \in Nat
  BY <1>0 DEF HydratableRow, Row, OptionalInstant, NoTime
<1>1. CASE n = r
  BY <1>0, <1>1 DEF Forward
<1>2. CASE ClaimStep(o)
  <2>1. PICK w \in Workers, s \in Row, now \in 0..clock :
          /\ WorkerRead(o, s) /\ CanStart(s, now) /\ ClaimFence(r, s, now)
          /\ n = Claimed(r, s, w, now)
    BY <1>2 DEF ClaimStep
  <2>2. n.updatedAt = now /\ n.leaseExpiresAt = now + LeaseDuration
    BY <1>0, <2>1, ClaimedTimes
  <2>3. /\ now >= s.updatedAt /\ r.updatedAt = s.updatedAt /\ r.status = s.status
        /\ s.status = "retrying" => now >= s.nextAttemptAt
    BY <2>1 DEF CanStart, ClockOK, ClaimFence
  <2>4. Hydratable(s)
    BY <2>1 DEF WorkerRead, TimeInv, ReadsHydratable, HydratableRow, Actors
  <2>5. s.status = "retrying"
          => s.nextAttemptAt > s.updatedAt /\ s.nextAttemptAt \in Int
    BY <2>4 DEF Hydratable, OrderedInstants, StatusFields, Row,
                OptionalInstant, NoTime
  <2>6. s.status = "retrying" => now > r.updatedAt
    BY <1>0, <2>3, <2>5
  <2> QED
    BY <1>0, <2>2, <2>3, <2>6, NatAssumption DEF Forward, WithinLease
<1>3. CASE CloseStep(o)
  <2>1. PICK s \in Row, now \in 0..clock :
          s.status = "running" /\ ClaimFence(r, s, now) /\ n = Exhausted(r, now)
    BY <1>3 DEF CloseStep
  <2>2. n.updatedAt = now /\ n.status = "failed"
    BY <1>0, <2>1 DEF Exhausted, NoLease, Row
  <2>3. r.status = "running" /\ r.leaseExpiresAt <= now
    BY <2>1 DEF ClaimFence
  <2> QED
    BY <1>0, <1>a, <2>2, <2>3 DEF Forward, WithinLease
<1>4. CASE AdvanceStep(o)
  <2>1. PICK s \in Row, p \in {Rendering, Verifying, Persisting},
             now \in 0..clock :
          /\ r.status = "running" /\ CanAdvance(s, p, now)
          /\ r.updatedAt = s.updatedAt /\ r.leaseExpiresAt > now
          /\ n = Overwrite(r, Advance(s, p, now))
    BY <1>4 DEF AdvanceStep
  <2> DEFINE next == Advance(s, p, now)
  <2>2. next \in Row /\ next.updatedAt = now
    BY <1>0, AdvanceType DEF Advance, Row
  <2> HIDE DEF next
  <2>3. n.updatedAt = now /\ n.leaseExpiresAt = r.leaseExpiresAt
    BY <1>0, <2>1, <2>2 DEF Overwrite, Row, next
  <2>4. now >= r.updatedAt
    BY <2>1 DEF CanAdvance, ClockOK
  <2> QED
    BY <1>0, <1>a, <2>1, <2>3, <2>4 DEF Forward, WithinLease
<1>5. CASE SucceedStep(o)
  <2>1. PICK s \in Row, now \in 0..clock :
          /\ CanSucceed(s, now) /\ r.updatedAt = s.updatedAt
          /\ n = NoLease(Overwrite(r, Succeed(s, now)))
    BY <1>5 DEF SucceedStep
  <2>2. /\ Succeed(s, now) \in Row /\ Succeed(s, now).updatedAt = now
        /\ Succeed(s, now).status = "succeeded"
    BY <1>0, SucceedType DEF Succeed, Row
  <2>3. n.updatedAt = now /\ n.status = "succeeded"
    BY <1>0, <2>1, <2>2, ReleasedTimes
  <2>4. now >= r.updatedAt
    BY <2>1 DEF CanSucceed, ClockOK
  <2> QED
    BY <2>3, <2>4 DEF Forward, WithinLease
<1>6. CASE FailStep(o)
  <2>1. PICK s \in Row, f \in Failures, now \in 0..clock,
             next \in OptionalInstant :
          /\ r.updatedAt = s.updatedAt /\ CanFailOrRetry(s, f, now, next)
          /\ n = NoLease(Overwrite(r, FailOrRetry(s, f, now, next)))
    BY <1>6 DEF FailStep
  <2> DEFINE u == FailOrRetry(s, f, now, next)
  <2>2. u \in Row
    BY <1>0, FailOrRetryType
  <2>3. u.updatedAt = now /\ u.status \in {"failed", "retrying"}
    BY DEF FailOrRetry, Row
  <2> HIDE DEF u
  <2>4. n.updatedAt = now /\ n.status \in {"failed", "retrying"}
    BY <1>0, <2>1, <2>2, <2>3, ReleasedTimes DEF u
  <2>5. now >= r.updatedAt
    BY <2>1 DEF CanFailOrRetry, ClockOK
  <2> QED
    BY <2>4, <2>5 DEF Forward, WithinLease
<1>7. CASE RenewStep(o)
  <2>1. PICK m \in beats :
          /\ Renewable(r, m)
          /\ n = [r EXCEPT !.heartbeatAt = m.at,
                           !.leaseExpiresAt = m.at + LeaseDuration,
                           !.updatedAt = m.at]
    BY <1>7 DEF RenewStep
  <2>2. m.at \in Nat
    BY DEF TypeOK, Beat, Instant
  <2>3. /\ r.status = "running" /\ r.updatedAt <= m.at
        /\ n.updatedAt = m.at /\ n.leaseExpiresAt = m.at + LeaseDuration
    BY <1>0, <2>1 DEF Renewable, Row
  <2> QED
    BY <1>0, <2>2, <2>3, NatAssumption DEF Forward, WithinLease
<1>8. CASE CheckpointStep(o)
  <2>1. PICK now \in 0..clock :
          /\ r.status = "running"
          /\ r.updatedAt <= now /\ r.leaseExpiresAt > now
          /\ n = [r EXCEPT !.updatedAt = now]
    BY <1>8 DEF CheckpointStep
  <2>2. n.updatedAt = now /\ n.leaseExpiresAt = r.leaseExpiresAt
    BY <1>0, <2>1 DEF Row
  <2> QED
    BY <1>0, <1>a, <2>1, <2>2 DEF Forward, WithinLease
<1>9. CASE CancelStep(o)
  <2>1. n.status = "canceled"
    BY <1>0, <1>9 DEF CancelStep, Canceled, Cancel, NoLease, Row
  <2> QED
    BY <2>1 DEF Forward, WithinLease
<1>10. CASE RetryStep(o)
  <2>1. PICK s \in Row, now \in 0..clock :
          CanRetry(s, now) /\ RetryFence(r, s) /\ n = Retried(r, s, now)
    BY <1>10 DEF RetryStep
  <2>2. n.updatedAt = now /\ n.status \in {"queued", "retrying"}
    BY <1>0, <2>1, RetriedTimes, RetriedFields
  <2>3. now >= r.updatedAt
    BY <2>1 DEF CanRetry, ClockOK, RetryFence
  <2> QED
    BY <2>2, <2>3 DEF Forward, WithinLease
<1> QED
  BY <1>1, <1>2, <1>3, <1>4, <1>5, <1>6, <1>7, <1>8, <1>9, <1>10 DEF RowStep

LEMMA TimeKept ==
    ASSUME IInv, RowsInv, TimeInv, Next
    PROVE  TimeInv' /\ \A o \in Ops : Forward(row[o], row'[o])
<1>0. TypeOK /\ \A o \in Ops : RowStep(o) /\ HydratableRow(row[o])
  BY NextRows DEF IInv, RowsStep, RowsInv
<1>1. \A o \in Ops : Forward(row[o], row'[o])
  BY <1>0, InstantsForward
<1>2. ASSUME NEW a \in Actors, NEW o \in Ops, o \in DOMAIN read'[a]
      PROVE  HydratableRow(read'[a][o])
  BY <1>0, <1>2, ReadsChange DEF TimeInv, ReadsHydratable
<1> QED
  BY <1>1, <1>2 DEF TimeInv, ReadsHydratable, Forward, WithinLease

LEMMA TimeInvariance == Spec => []TimeInv
<1>1. Init => TimeInv
  BY DEF Init, TimeInv, WithinLease, ReadsHydratable, NoRead, NewOperation
<1>2. IInv /\ RowsInv /\ TimeInv /\ [Next]_vars => TimeInv'
  <2>1. ASSUME TimeInv, UNCHANGED vars PROVE TimeInv'
    BY <2>1 DEF TimeInv, WithinLease, ReadsHydratable, vars, db
  <2> QED
    BY <2>1, TimeKept
<1> QED
  BY <1>1, <1>2, Invariance, RowsInvariance, PTL DEF Spec

\* A step that sets updatedAt back has canceled the operation.
BackIsCanceled ==
    \A o \in Ops : row'[o].updatedAt < row[o].updatedAt
                     => row'[o].status = "canceled"

(* The clock of a row runs forward through claims, heartbeats, transitions *)
(* and retries, whatever their workers' clocks say: only a cancel, which   *)
(* compares no instant with the row it finds, sets updatedAt back.         *)
THEOREM OnlyCancelsGoBack == Spec => [][BackIsCanceled]_vars
<1>1. IInv /\ RowsInv /\ TimeInv /\ Next => BackIsCanceled
  <2>1. ASSUME IInv, NEW o \in Ops, RowsStep, RowStep(o)
        PROVE  row[o].updatedAt \in Nat
    BY <2>1 DEF IInv, TypeOK, Row, Instant
  <2>2. ASSUME IInv, Next, NEW o \in Ops PROVE row'[o].updatedAt \in Nat
    BY <2>2, RowsTyped, NextRows DEF IInv, Row, Instant
  <2> QED
    BY <2>1, <2>2, TimeKept, NextRows DEF BackIsCanceled, Forward, IInv, RowsStep
<1> QED
  BY <1>1, Invariance, RowsInvariance, TimeInvariance, PTL DEF Spec

CancelForward ==
    \A o \in Ops : row'[o].status = "canceled"
                     => row'[o].updatedAt >= row[o].updatedAt

CancelsGoForward == [][CancelForward]_vars

\* A retry that is about to commit has read the attempt its row has.
RetrySeesTheRow ==
    \A q \in Requests : \A o \in DOMAIN read[q] :
      pc[q] = "retrying" /\ Retries(q, o) => read[q][o].attempt = row[o].attempt

\* What a request has read of an operation that was over after an attempt: it
\* was taken up since only if updatedAt is later.
PastInv ==
    \A q \in Requests, o \in Ops :
      o \in DOMAIN read[q] =>
        LET s == read[q][o]  r == row[o] IN
        s.status \in {"failed", "canceled"} /\ s.attempt > 0 =>
          /\ s.attempt <= r.attempt
          /\ s.updatedAt <= r.updatedAt
          /\ r.attempt = s.attempt => r.status # "running"
          /\ r.attempt > s.attempt => r.updatedAt > s.updatedAt

LEMMA PastKept ==
    ASSUME IInv, RowsInv, TimeInv, PastInv, Next, CancelForward
    PROVE  PastInv'
<1> SUFFICES ASSUME NEW q \in Requests, NEW o \in Ops, o \in DOMAIN read'[q],
                    read'[q][o].status \in {"failed", "canceled"},
                    read'[q][o].attempt > 0
             PROVE  LET s == read'[q][o]  n == row'[o] IN
                    /\ s.attempt <= n.attempt
                    /\ s.updatedAt <= n.updatedAt
                    /\ n.attempt = s.attempt => n.status # "running"
                    /\ n.attempt > s.attempt => n.updatedAt > s.updatedAt
  BY DEF PastInv
<1>0. /\ TypeOK /\ q \in Actors /\ HydratableRow(row[o])
      /\ row[o].attempt \in Nat /\ row[o].updatedAt \in Nat
  BY DEF IInv, TypeOK, Row, Instant, Actors, RowsInv
<1>1. CASE read'[q] = read[q]
  <2> DEFINE s == read[q][o]  r == row[o]  n == row'[o]
  <2>1. /\ s.attempt \in Nat /\ s.updatedAt \in Nat
        /\ n.attempt \in Nat /\ n.updatedAt \in Nat
    <3>1. s \in Row
      BY <1>0, <1>1 DEF TypeOK
    <3>2. n \in Row
      BY NextRows, RowsTyped DEF IInv
    <3> QED
      BY <3>1, <3>2 DEF Row, Instant
  <2>2. /\ s.attempt <= r.attempt
        /\ s.updatedAt <= r.updatedAt
        /\ r.attempt = s.attempt => r.status # "running"
        /\ r.attempt > s.attempt => r.updatedAt > s.updatedAt
        /\ s.attempt > 0
    BY <1>1 DEF PastInv
  <2>3. n.updatedAt >= r.updatedAt
    BY TimeKept DEF Forward, CancelForward
  <2>4. CASE Taken(r, n)
    <3>1. n.attempt > s.attempt /\ n.status = "running"
      BY <1>0, <2>1, <2>2, <2>4 DEF Taken
    <3>2. n.updatedAt > s.updatedAt
      <4>1. CASE r.attempt > s.attempt
        BY <1>0, <2>1, <2>2, <2>3, <4>1
      <4>2. CASE r.attempt = s.attempt
        <5>1. r.status = "retrying"
          BY <1>0, <2>2, <2>4, <4>2
             DEF Taken, HydratableRow, Hydratable, StatusFields
        <5>2. n.updatedAt > r.updatedAt
          BY <3>1, <5>1, TimeKept DEF Forward
        <5> QED
          BY <1>0, <2>1, <2>2, <5>2
      <4> QED
        BY <1>0, <2>1, <2>2, <4>1, <4>2
    <3> QED
      BY <1>0, <1>1, <2>1, <2>2, <2>3, <3>1, <3>2
  <2>5. CASE n = r \/ Expired(r, n) \/ Carried(r, n) \/ Ended(r, n)
                   \/ Reopened(r, n)
    <3>1. n.attempt = r.attempt /\ (n.status = "running" => r.status = "running")
      BY <2>5 DEF Expired, Carried, Ended, Reopened
    <3> QED
      BY <1>0, <1>1, <2>1, <2>2, <2>3, <3>1
  <2> QED
    BY <2>4, <2>5, RowKinds
<1>2. CASE DOMAIN read'[q] = {}
  BY <1>2
<1>3. CASE row' = row /\ \A p \in DOMAIN read'[q] : read'[q][p] = row[p]
  BY <1>0, <1>3
<1> QED
  BY <1>0, <1>1, <1>2, <1>3, ReadsChange

(* A retry commits on the attempt it read, as long as no cancel sets the   *)
(* row's updatedAt back: comparing status and updatedAt is then as good as *)
(* comparing the attempt.  A stale retry needs a cancel that was computed  *)
(* from an older row.                                                      *)
THEOREM RetriesSeeTheirRow == Spec /\ CancelsGoForward => []RetrySeesTheRow
<1>1. Init => PastInv
  BY DEF Init, PastInv, NoRead, Actors
<1>2. IInv /\ RowsInv /\ TimeInv /\ PastInv /\ [Next]_vars
        /\ [CancelForward]_vars => PastInv'
  <2>1. ASSUME PastInv, UNCHANGED vars PROVE PastInv'
    BY <2>1 DEF PastInv, vars, db
  <2> QED
    BY <2>1, PastKept
<1>3. IInv /\ PastInv => RetrySeesTheRow
  <2> SUFFICES ASSUME IInv, PastInv, NEW q \in Requests,
                      NEW o \in DOMAIN read[q],
                      pc[q] = "retrying", Retries(q, o)
               PROVE  read[q][o].attempt = row[o].attempt
    BY DEF RetrySeesTheRow
  <2> DEFINE s == read[q][o]  r == row[o]
  <2>1. /\ o \in Ops /\ s \in Row /\ r \in Row
        /\ stamp[q] \in Nat
    BY DEF IInv, TypeOK, Actors, Instant
  <2>2. /\ s.status \in {"failed", "canceled"}
        /\ r.updatedAt = s.updatedAt
        /\ Hydratable(Retried(r, s, stamp[q]))
    BY DEF Retries, CanRetry, RetryFence
  <2>3. CASE s.attempt > 0
    BY <2>1, <2>2, <2>3 DEF PastInv, Row, Instant
  <2>4. CASE s.attempt = 0
    <3>1. /\ Retried(r, s, stamp[q]).status = "queued"
          /\ Retried(r, s, stamp[q]).attempt = r.attempt
      BY <2>1, <2>4, RetriedTimes, RetriedFields
    <3> QED
      BY <2>2, <2>4, <3>1 DEF Hydratable, StatusFields
  <2> QED
    BY <2>1, <2>3, <2>4 DEF Row
<1> QED
  BY <1>1, <1>2, <1>3, Invariance, RowsInvariance, TimeInvariance, PTL
     DEF Spec, CancelsGoForward

-----------------------------------------------------------------------------
(* The retries.  What a request read may be older than its row, but it is  *)
(* a state the row was in, and every budget it was in is the first one or  *)
(* one above the attempts made at most.                                    *)

\* The budget of a row after a retry that saw n attempts of it.
Granted(n) == IF n < MaxAttempts THEN MaxAttempts ELSE n + 1

Bounded(r) == MaxAttempts <= r.maxAttempts /\ r.maxAttempts <= Granted(r.attempt)

SeenInv ==
    /\ \A o \in Ops : Bounded(row[o]) /\ row[o].status # "waiting"
    /\ \A q \in Requests, o \in Ops :
         o \in DOMAIN read[q] =>
           read[q][o].attempt <= row[o].attempt /\ Bounded(read[q][o])

LEMMA GrantedIs ==
    ASSUME NEW s \in Row, Bounded(s), s.attempt <= s.maxAttempts
    PROVE  (IF s.attempt >= s.maxAttempts THEN s.attempt + 1 ELSE s.maxAttempts)
             = Granted(s.attempt)
BY NatAssumption DEF Bounded, Granted, Row

\* A retry grants from the attempts it saw: from those of the row, if it has
\* seen the row.
LEMMA ReopenedBudget ==
    ASSUME IInv, TimeInv, SeenInv, NEW o \in Ops, RowStep(o),
           row[o].status \in {"failed", "canceled"}, row'[o] # row[o]
    PROVE  \E seen \in 0..row[o].attempt :
             /\ row'[o].maxAttempts = Granted(seen)
             /\ RetrySeesTheRow => seen = row[o].attempt
<1>0. /\ row[o] \in Row /\ row[o].attempt \in Nat /\ 0..clock \subseteq Nat
  BY NatAssumption DEF IInv, TypeOK, Row
<1>1. RetryStep(o)
  BY DEF RowStep, ClaimStep, CanStart, ClaimFence, CloseStep, AdvanceStep,
         SucceedStep, FailStep, RenewStep, Renewable, CheckpointStep,
         CancelStep, CancelFence, Live
<1>2. PICK s \in Row, now \in 0..clock :
        /\ RetryRead(o, s, now) /\ CanRetry(s, now) /\ RetryFence(row[o], s)
        /\ Hydratable(Retried(row[o], s, now))
        /\ row'[o] = Retried(row[o], s, now)
  BY <1>1 DEF RetryStep
<1>3. PICK q \in Requests : /\ pc[q] = "retrying" /\ o \in DOMAIN read[q]
                            /\ s = read[q][o] /\ now = stamp[q]
  BY <1>2 DEF RetryRead
<1>4. Retries(q, o)
  BY <1>2, <1>3 DEF Retries
<1>5. s.attempt <= row[o].attempt /\ Bounded(s)
  BY <1>3 DEF SeenInv
<1>6. s.attempt <= s.maxAttempts
  BY <1>3 DEF TimeInv, ReadsHydratable, HydratableRow, Hydratable, Actors
<1>7. row'[o].maxAttempts = Granted(s.attempt)
  BY <1>0, <1>2, <1>5, <1>6, RetriedFields, GrantedIs
<1>8. RetrySeesTheRow => s.attempt = row[o].attempt
  BY <1>3, <1>4 DEF RetrySeesTheRow
<1>9. s.attempt \in 0..row[o].attempt
  BY <1>0, <1>5 DEF Row
<1> QED
  BY <1>7, <1>8, <1>9

LEMMA SeenKept ==
    ASSUME IInv, RowsInv, TimeInv, SeenInv, Next
    PROVE  SeenInv'
<1>0. TypeOK /\ RowsStep
  BY NextRows DEF IInv
<1>1. ASSUME NEW o \in Ops
      PROVE  /\ Bounded(row'[o]) /\ row[o].attempt <= row'[o].attempt
             /\ row'[o].status # "waiting"
  <2> DEFINE r == row[o]  n == row'[o]
  <2>1. /\ RowStep(o) /\ r \in Row /\ n \in Row
        /\ r.attempt \in Nat /\ r.maxAttempts \in Nat
        /\ n.attempt \in Nat /\ n.maxAttempts \in Nat
    BY <1>0, RowsTyped DEF RowsStep, TypeOK, Row
  <2>2. /\ MaxAttempts <= r.maxAttempts /\ r.maxAttempts <= Granted(r.attempt)
        /\ r.status # "waiting"
    BY DEF SeenInv, Bounded
  <2>3. CASE Taken(r, n)
    BY <2>1, <2>2, <2>3, NatAssumption DEF Taken, Bounded, Granted
  <2>4. CASE n = r \/ Expired(r, n) \/ Carried(r, n) \/ Ended(r, n)
    <3>1. /\ n.attempt = r.attempt /\ n.maxAttempts = r.maxAttempts
          /\ n.status # "waiting"
      BY <2>2, <2>4 DEF Expired, Carried, Ended
    <3> QED
      BY <2>1, <2>2, <3>1 DEF Bounded
  <2>5. CASE Reopened(r, n) /\ n # r
    <3>1. PICK seen \in 0..r.attempt : n.maxAttempts = Granted(seen)
      BY <2>1, <2>5, ReopenedBudget DEF Reopened
    <3>2. n.attempt = r.attempt /\ n.status # "waiting"
      BY <2>5 DEF Reopened
    <3> QED
      BY <2>1, <3>1, <3>2, NatAssumption DEF Bounded, Granted
  <2> QED
    BY <2>3, <2>4, <2>5, RowKinds
<1>2. ASSUME NEW q \in Requests, NEW o \in Ops, o \in DOMAIN read'[q]
      PROVE  read'[q][o].attempt <= row'[o].attempt /\ Bounded(read'[q][o])
  <2>0. q \in Actors /\ row[o].attempt \in Nat
    BY <1>0 DEF Actors, TypeOK, Row
  <2>1. CASE read'[q] = read[q]
    <3>1. /\ read[q][o].attempt <= row[o].attempt /\ Bounded(read[q][o])
          /\ read[q][o].attempt \in Nat
      BY <1>0, <1>2, <2>0, <2>1 DEF SeenInv, TypeOK, Row
    <3>2. row'[o].attempt \in Nat
      BY <1>0, RowsTyped DEF Row
    <3> QED
      BY <1>1, <2>0, <2>1, <3>1, <3>2
  <2>2. CASE DOMAIN read'[q] = {}
    BY <1>2, <2>2
  <2>3. CASE row' = row /\ \A p \in DOMAIN read'[q] : read'[q][p] = row[p]
    BY <1>1, <1>2, <2>0, <2>3
  <2> QED
    BY <1>0, <2>0, <2>1, <2>2, <2>3, ReadsChange
<1> QED
  BY <1>1, <1>2 DEF SeenInv, Bounded, Granted

LEMMA SeenInvariance == Spec => []SeenInv
<1>1. Init => SeenInv
  BY NatAssumption
     DEF Init, SeenInv, Bounded, Granted, NewOperation, NoRead, Actors
<1>2. IInv /\ RowsInv /\ TimeInv /\ SeenInv /\ [Next]_vars => SeenInv'
  <2>1. ASSUME SeenInv, UNCHANGED vars PROVE SeenInv'
    BY <2>1 DEF SeenInv, Bounded, Granted, vars, db
  <2> QED
    BY <2>1, SeenKept
<1> QED
  BY <1>1, <1>2, Invariance, RowsInvariance, TimeInvariance, PTL DEF Spec

-----------------------------------------------------------------------------
(* The refinement: every kind of step is a step of the lifecycle or none.  *)

LEMMA LifecycleSteps ==
    ASSUME IInv, RowsInv, BudgetInv, TimeInv, SeenInv, Next,
           NEW o \in Ops
    PROVE  [Lifecycle(o)!Next]_(Lifecycle(o)!lifecycle)
<1> DEFINE r == row[o]  n == row'[o]
<1>0. /\ TypeOK /\ RowStep(o) /\ HydratableRow(r) /\ HydratableRow(n)
      /\ r.attempt \in Nat /\ r.maxAttempts \in Nat
      /\ n \in Row
  BY NextRows, RowsTyped, HydratableStep DEF IInv, RowsStep, RowsInv, TypeOK, Row
<1>1. CASE n = r \/ Carried(r, n)
  <2>1. /\ LifecycleState(n) = LifecycleState(r)
        /\ n.attempt = r.attempt /\ n.maxAttempts = r.maxAttempts
        /\ n.leaseOwner = r.leaseOwner
    BY <1>1 DEF Carried, LifecycleState
  <2> QED
    BY <2>1 DEF Lifecycle!lifecycle, LifecycleState
<1>2. CASE Taken(r, n)
  <2>1. n.leaseOwner \in Workers
    BY <1>0, <1>2 DEF Taken, HydratableRow, Row
  <2>2. r.attempt < r.maxAttempts
    BY <1>0, <1>2 DEF Taken, HydratableRow, Hydratable
  <2>3. LifecycleState(r) \in {"open", "held"} /\ LifecycleState(n) = "held"
    BY <1>2 DEF Taken, LifecycleState
  <2>4. Lifecycle(o)!Take(n.leaseOwner)
    BY <1>2, <2>2, <2>3
       DEF Lifecycle!Take, Lifecycle!Over, LifecycleState, Taken
  <2> QED
    BY <2>1, <2>4 DEF Lifecycle!Next
<1>3. CASE Expired(r, n) \/ Ended(r, n)
  <2>1. /\ n.attempt = r.attempt /\ n.maxAttempts = r.maxAttempts
        /\ n.leaseOwner = NoWorker
        /\ n.status \in {"succeeded", "failed", "canceled", "retrying"}
        /\ n.status # "canceled" => r.status = "running"
        /\ r.status \in Live
    BY <1>0, <1>3 DEF Expired, Ended, HydratableRow, Live
  <2>2. n.status = "retrying" => r.attempt < r.maxAttempts
    BY <1>0, <2>1, Judgement
  <2>3. LifecycleState(r) \notin {"succeeded", "failed", "canceled"}
    BY <2>1 DEF LifecycleState, Live
  <2>4. CASE n.status = "succeeded"
    <3>1. Lifecycle(o)!Succeed
      BY <2>1, <2>4 DEF Lifecycle!Succeed, Lifecycle!Become, LifecycleState
    <3> QED
      BY <3>1 DEF Lifecycle!Next, Lifecycle!EndAttempt
  <2>5. CASE n.status = "failed"
    <3>1. Lifecycle(o)!Fail
      BY <2>1, <2>5 DEF Lifecycle!Fail, Lifecycle!Become, LifecycleState
    <3> QED
      BY <3>1 DEF Lifecycle!Next, Lifecycle!EndAttempt
  <2>6. CASE n.status = "retrying"
    <3>1. Lifecycle(o)!Yield
      BY <2>1, <2>2, <2>6 DEF Lifecycle!Yield, Lifecycle!Become, LifecycleState
    <3> QED
      BY <3>1 DEF Lifecycle!Next, Lifecycle!EndAttempt
  <2>7. CASE n.status = "canceled"
    <3>1. Lifecycle(o)!Cancel
      BY <2>1, <2>3, <2>7
         DEF Lifecycle!Cancel, Lifecycle!Become, Lifecycle!Over, LifecycleState
    <3> QED
      BY <3>1 DEF Lifecycle!Next
  <2> QED
    BY <2>1, <2>4, <2>5, <2>6, <2>7
<1>4. CASE Reopened(r, n)
  <2>1. n # r
    BY <1>4 DEF Reopened
  <2>2. PICK seen \in 0..r.attempt : n.maxAttempts = Granted(seen)
    BY <1>0, <1>4, <2>1, ReopenedBudget DEF Reopened
  <2>3. LifecycleState(r) \in {"failed", "canceled"} /\ LifecycleState(n) = "open"
    BY <1>4 DEF Reopened, LifecycleState
  <2>4. n.maxAttempts \in Nat /\ n.maxAttempts >= r.attempt
    BY <1>0, <1>4 DEF Row, Reopened, HydratableRow, Hydratable
  <2>5. Lifecycle(o)!Reopen
    BY <1>4, <2>2, <2>3, <2>4
       DEF Reopened, Lifecycle!Reopen, Lifecycle!Granted, Granted, LifecycleState
  <2> QED
    BY <2>5 DEF Lifecycle!Next
<1> QED
  BY <1>1, <1>2, <1>3, <1>4, RowKinds

(* The rows implement the lifecycle: every step of workers, claims,        *)
(* heartbeats, requests and crashes is, for each operation, a step of      *)
(* OperationLifecycle or none at all, retries of rows that were taken      *)
(* since they were read included.                                          *)
THEOREM LifecycleImplemented == Spec => ImplementsLifecycle
<1>1. Init => \A o \in Ops : Lifecycle(o)!Init
  BY DEF Init, Lifecycle!Init, LifecycleState, NewOperation
<1>2. IInv /\ RowsInv /\ BudgetInv /\ TimeInv /\ SeenInv /\ [Next]_vars
        => [\A o \in Ops : [Lifecycle(o)!Next]_(Lifecycle(o)!lifecycle)]_vars
  BY LifecycleSteps
<1> QED
  BY <1>1, <1>2, Invariance, RowsInvariance, BudgetInvariance,
     TimeInvariance, SeenInvariance, PTL
     DEF Spec, ImplementsLifecycle

(* The budget, after any number of claims, cancels and retries and         *)
(* whatever the retries had read: no attempt beyond it, never less than a  *)
(* new operation has, and one attempt above those made at most.            *)
THEOREM BudgetsAreBounded == Spec => []LifecycleHolds
<1>1. IInv /\ RowsInv /\ SeenInv => LifecycleHolds
  <2> SUFFICES ASSUME IInv, RowsInv, SeenInv, NEW o \in Ops
               PROVE  Lifecycle(o)!LifecycleTypeOK
    BY DEF LifecycleHolds
  <2> DEFINE r == row[o]
  <2>1. r \in Row /\ HydratableRow(r) /\ Bounded(r) /\ r.status # "waiting"
    BY DEF IInv, TypeOK, RowsInv, SeenInv
  <2>2. /\ LifecycleState(r) \in {"succeeded", "failed", "canceled", "open", "held"}
        /\ LifecycleState(r) = "held" <=> r.status = "running"
        /\ r.leaseOwner \in Workers \cup {NoWorker}
    BY <2>1 DEF LifecycleState, Row, Terminal, Live
  <2>3. /\ r.attempt \in Nat /\ r.attempt <= r.maxAttempts
        /\ r.maxAttempts \in MaxAttempts..Granted(r.attempt)
    BY <2>1, NatAssumption DEF Row, HydratableRow, Hydratable, Bounded, Granted
  <2>4. r.leaseOwner # NoWorker <=> LifecycleState(r) = "held"
    BY <2>1, <2>2 DEF HydratableRow
  <2> QED
    BY <2>2, <2>3, <2>4
       DEF Lifecycle!LifecycleTypeOK, Lifecycle!Over, Lifecycle!Granted, Granted
<1> QED
  BY <1>1, Invariance, RowsInvariance, SeenInvariance, PTL

-----------------------------------------------------------------------------
(* What one condition on the cancels gives.                                *)

NoneStranded == \A o \in Ops : ~Lifecycle(o)!Stranded

\* What is over is left with its attempts kept and exactly one to make, or
\* all of the first budget that are left.
RetryGrants ==
    \A o \in Ops :
      IsTerminal(row[o]) /\ row'[o] # row[o] =>
        /\ row'[o].attempt = row[o].attempt
        /\ row'[o].maxAttempts = Granted(row[o].attempt)

LEMMA RetriesKept ==
    ASSUME IInv, RowsInv, BudgetInv, TimeInv, SeenInv, RetrySeesTheRow, Next,
           NEW o \in Ops, RetryPossible(row[o])
    PROVE  RetryPossible(row'[o])
<1> SUFFICES ASSUME row'[o].status = "retrying", row'[o] # row[o]
             PROVE  row'[o].attempt < row'[o].maxAttempts
  BY DEF RetryPossible
<1>0. /\ TypeOK /\ RowStep(o) /\ HydratableRow(row'[o])
      /\ row[o].attempt \in Nat /\ row[o].maxAttempts \in Nat
  BY NextRows, HydratableStep DEF IInv, RowsStep, RowsInv, TypeOK, Row
<1>1. CASE Ended(row[o], row'[o])
  <2>1. row[o].status = "running"
    BY <1>1 DEF Ended
  <2>2. row[o].attempt < row[o].maxAttempts
    BY <1>0, <2>1, Judgement
  <2> QED
    BY <1>1, <2>2 DEF Ended
<1>2. CASE Reopened(row[o], row'[o])
  <2>1. row'[o].maxAttempts = Granted(row[o].attempt)
    BY <1>0, <1>2, ReopenedBudget DEF Reopened
  <2> QED
    BY <1>0, <1>2, <2>1, NatAssumption DEF Reopened, Granted
<1> QED
  BY <1>1, <1>2, RowKinds DEF Taken, Expired, Carried

(* Unless a cancel sets the updatedAt of a row back: what is dead-lettered *)
(* deserves it, a row that waits for a worker has an attempt left, so that *)
(* the lifecycle's own argument that it ends applies to it, and a retry    *)
(* grants an attempt if, and only if, none is left.                        *)
THEOREM RetriesGrantUnlessSetBack ==
    Spec /\ CancelsGoForward
      => []DeadLetterDeserved /\ []NoneStranded /\ [][RetryGrants]_vars
<1>1. Init => DeadLetterDeserved
  BY DEF Init, NewOperation, DeadLetterDeserved, FailureDeserved, RetryPossible
<1>2. IInv /\ RowsInv /\ BudgetInv /\ TimeInv /\ SeenInv /\ RetrySeesTheRow
        /\ DeadLetterDeserved /\ [Next]_vars => DeadLetterDeserved'
  <2>1. ASSUME DeadLetterDeserved, UNCHANGED vars PROVE DeadLetterDeserved'
    BY <2>1 DEF DeadLetterDeserved, vars, db
  <2>2. ASSUME IInv, RowsInv, BudgetInv, TimeInv, SeenInv, RetrySeesTheRow,
               DeadLetterDeserved, Next
        PROVE  DeadLetterDeserved'
    BY <2>2, FailuresKept, RetriesKept DEF DeadLetterDeserved
  <2> QED
    BY <2>1, <2>2
<1>3. IInv /\ RowsInv /\ DeadLetterDeserved => NoneStranded
  <2> SUFFICES ASSUME IInv, RowsInv, DeadLetterDeserved, NEW o \in Ops,
                      LifecycleState(row[o]) = "open"
               PROVE  row[o].attempt < row[o].maxAttempts
    BY DEF NoneStranded, Lifecycle!Stranded, IInv, TypeOK, Row
  <2>0. row[o].status \in Terminal \cup Live
    BY DEF IInv, TypeOK, Row
  <2>1. row[o].status \in {"queued", "retrying"} /\ HydratableRow(row[o])
    BY <2>0 DEF LifecycleState, RowsInv, Terminal, Live
  <2>2. CASE row[o].status = "queued"
    BY <2>1, <2>2 DEF HydratableRow, Hydratable, StatusFields
  <2>3. CASE row[o].status = "retrying"
    BY <2>3 DEF DeadLetterDeserved, RetryPossible
  <2> QED
    BY <2>1, <2>2, <2>3
<1>4. IInv /\ RowsInv /\ TimeInv /\ SeenInv /\ RetrySeesTheRow /\ [Next]_vars
        => [RetryGrants]_vars
  <2> SUFFICES ASSUME IInv, RowsInv, TimeInv, SeenInv, RetrySeesTheRow, Next,
                      NEW o \in Ops, IsTerminal(row[o]), row'[o] # row[o]
               PROVE  /\ row'[o].attempt = row[o].attempt
                      /\ row'[o].maxAttempts = Granted(row[o].attempt)
    BY DEF RetryGrants
  <2>1. RowStep(o)
    BY NextRows DEF IInv, RowsStep
  <2>2. Reopened(row[o], row'[o])
    BY RowKinds DEF IsTerminal, Terminal, Live, Taken, Expired, Carried, Ended
  <2> QED
    BY <2>1, <2>2, ReopenedBudget DEF Reopened
<1> QED
  BY <1>1, <1>2, <1>3, <1>4, RetriesSeeTheirRow, Invariance, RowsInvariance,
     BudgetInvariance, TimeInvariance, SeenInvariance, PTL DEF Spec
=============================================================================
