-------------------------- MODULE RenderOperations --------------------------
(***************************************************************************)
(* The durable artifact-render operations: the rows and transactions of    *)
(* infrastructure/prisma/public-operation-repository.ts, the worker of     *)
(* application/run-public-operation-worker.ts with the renderer it drives  *)
(* (application/render-authorized-input.ts), the output checkpoint, and    *)
(* the API's cancel and retry commands.                                    *)
(*                                                                         *)
(* A transaction runs under READ COMMITTED: it reads, computes, and then   *)
(* updates under a WHERE clause.  It is two actions here, Begin... (the    *)
(* read, kept in read[a]) and one of its outcomes (the update, at which    *)
(* the transaction commits), with any other step in between.  The instant  *)
(* a caller passes as "now" is stamped before the read.                    *)
(*                                                                         *)
(* A worker's heartbeats are statements of their own, in flight beside     *)
(* whatever its main thread does, and outlive the run that sent them.      *)
(***************************************************************************)
EXTENDS OperationRow, FiniteSets

CONSTANTS
    Requests,       \* cancel and retry requests to the API, each made once
    Faulty,         \* workers that may crash, be told to shut down, or lose
                    \* the database or its answer to a statement
    OpCount,        \* operations, numbered in claim order (createdAt, id)
    MaxAttempts,    \* maxAttempts of a new operation
    LeaseDuration,  \* leaseDurationMs
    BaseDelay,      \* retryBaseDelayMs
    MaxDelay,       \* retryMaxDelayMs
    ScanLimit,      \* how many candidates one claim looks at
    Lag,            \* how far a stamp may be behind the newest clock
    MaxClock        \* bound of the model: time stops here

ASSUME RequestsAssumption == Requests \cap Workers = {} /\ NoWorker \notin Requests
ASSUME FaultyAssumption == Faulty \subseteq Workers
ASSUME NatAssumption ==
    /\ OpCount \in Nat
    /\ MaxAttempts \in Nat \ {0}
    /\ LeaseDuration \in Nat \ {0}
    /\ BaseDelay \in Nat \ {0}
    /\ MaxDelay \in Nat \ {0}
    /\ ScanLimit \in Nat
    /\ Lag \in Nat
    /\ MaxClock \in Nat
ASSUME RenderPhasesAssumption == PhaseCount = 4

VARIABLES
    clock,       \* the newest of the machines' clocks
    row,         \* public_operations
    feed,        \* the newest status event of each operation in the outbox
    checkpoint,  \* attempt that recorded the output checkpoint, 0 if none
    output,      \* operations whose output file is at its final key
    beats,       \* heartbeat statements sent and not yet executed
    pc,          \* where a worker or a request is
    run,         \* a worker's local state for the operation it claimed
    stamp,       \* "now" of the open transaction
    read,        \* rows the open transaction read
    stopping     \* workers told to shut down

db == <<row, feed, checkpoint, output>>
vars == <<clock, row, feed, checkpoint, output, beats, pc, run, stamp, read,
          stopping>>

Ops == 1..OpCount
NoOp == 0
Actors == Workers \cup Requests

\* Indexes of the phases after materializing, the one a claim starts in.
Rendering == 1
Verifying == 2
Persisting == 3

NoRead == [o \in {} |-> 0]
NoRun == [op |-> NoOp, attempt |-> 0, budget |-> 0, goal |-> Rendering,
          staged |-> FALSE, failure |-> "none", lost |-> FALSE]
Run == [op : Ops \cup {NoOp}, attempt : Nat, budget : Nat,
        goal : {Rendering, Verifying, Persisting}, staged : BOOLEAN,
        failure : Failures \cup {"none"}, lost : BOOLEAN]
Beat == [op : Ops, owner : Workers, attempt : Nat, at : Instant]
StatusEvent == [from : Terminal \cup Live \cup {"none"}, to : Terminal \cup Live]

WorkerSteps == {"idle", "claiming", "advance", "advancing", "recover",
                "stage", "gate", "revalidate", "promote", "rename",
                "checkpoint", "settle", "settling", "failing", "recording", "dead"}
RequestSteps == {"new", "cancelling", "retrying", "answered", "refused"}

Init ==
    /\ clock = 0
    /\ row = [o \in Ops |-> NewOperation(MaxAttempts, 0)]
    /\ feed = [o \in Ops |-> [from |-> "none", to |-> "queued"]]
    /\ checkpoint = [o \in Ops |-> 0]
    /\ output = {}
    /\ beats = {}
    /\ pc = [a \in Actors |-> IF a \in Workers THEN "idle" ELSE "new"]
    /\ run = [w \in Workers |-> NoRun]
    /\ stamp = [a \in Actors |-> 0]
    /\ read = [a \in Actors |-> NoRead]
    /\ stopping = {}

-----------------------------------------------------------------------------
(* Shared parts of the actions.                                            *)

Stamps == {t \in 0..clock : t + Lag >= clock}

BeginTransaction(a, ops, step) ==
    /\ read' = [read EXCEPT ![a] = [o \in ops |-> row[o]]]
    /\ pc' = [pc EXCEPT ![a] = step]

EndTransaction(a, step) ==
    /\ read' = [read EXCEPT ![a] = NoRead]
    /\ stamp' = [stamp EXCEPT ![a] = 0]
    /\ pc' = [pc EXCEPT ![a] = step]

\* What w asked for is done, but w is told that it failed.
AnswerLost(w) == w \in Faulty

Goto(w, step) == pc' = [pc EXCEPT ![w] = step]

\* The worker's function returns: everything local to the run is gone.
EndRun(w) == run' = [run EXCEPT ![w] = NoRun]

\* persistOperationStatusEvents: only a change of status is announced.
Publish(o, from, to) ==
    feed' = IF from = to THEN feed
                         ELSE [feed EXCEPT ![o] = [from |-> from, to |-> to]]

Write(o, r, previousStatus) ==
    /\ row' = [row EXCEPT ![o] = r]
    /\ Publish(o, previousStatus, r.status)

\* What an update writes of the row computed from a read, next, and what it
\* leaves of the row r it finds.
Overwrite(r, next) ==
    [r EXCEPT !.status = next.status, !.progress = next.progress,
              !.error = next.error, !.completedAt = next.completedAt,
              !.nextAttemptAt = next.nextAttemptAt,
              !.deadLetteredAt = next.deadLetteredAt,
              !.updatedAt = next.updatedAt]

Lease(r, w, now) ==
    [r EXCEPT !.leaseOwner = w, !.leaseExpiresAt = now + LeaseDuration,
              !.heartbeatAt = now]

NoLease(r) ==
    [r EXCEPT !.leaseOwner = NoWorker, !.leaseExpiresAt = NoTime,
              !.heartbeatAt = NoTime]

RetryDelay(attempt) ==
    LET delay == BaseDelay * 2^(attempt - 1)
    IN  IF delay \in 1..MaxDelay THEN delay ELSE MaxDelay

-----------------------------------------------------------------------------
(* Claims.  The scan reads every candidate at once, then tries them in     *)
(* order: a candidate without attempts left is closed, the first one whose *)
(* compare-and-set succeeds is claimed, and one that throws takes the      *)
(* whole transaction down with it.                                         *)

IsCandidate(r, now) ==
    \/ r.status = "queued" /\ r.leaseOwner = NoWorker
    \/ /\ r.status = "retrying" /\ r.leaseOwner = NoWorker
       /\ r.nextAttemptAt <= now
    \/ r.status = "running" /\ r.leaseExpiresAt <= now

Scanned(now) ==
    LET candidates == {o \in Ops : IsCandidate(row[o], now)}
    IN  {o \in candidates :
            Cardinality({p \in candidates : p < o}) < ScanLimit}

BeginClaim(w) ==
    /\ pc[w] = "idle"
    /\ w \notin stopping
    /\ \E now \in Stamps :
         /\ stamp' = [stamp EXCEPT ![w] = now]
         /\ BeginTransaction(w, Scanned(now), "claiming")
    /\ UNCHANGED <<clock, db, beats, run, stopping>>

\* Mutant: trusts the scan that the lease had run out.
ClaimFence_TrustsScan(r, s, now) ==
    /\ r.status = s.status
    /\ r.attempt = s.attempt
    /\ r.updatedAt = s.updatedAt
    /\ r.leaseOwner = s.leaseOwner

\* The WHERE clause of a claim: r is the row, s what the scan read of it.
ClaimFence(r, s, now) ==
    /\ r.status = s.status
    /\ r.attempt = s.attempt
    /\ r.updatedAt = s.updatedAt
    /\ IF s.status = "running"
         THEN /\ r.progress = s.progress
              /\ r.leaseOwner = s.leaseOwner
              /\ r.leaseExpiresAt <= now
         ELSE r = NoLease(r)

\* Mutant: a takeover goes on with the attempt it finds.
Claimed_SameAttempt(r, s, w, now) ==
    LET next == Start(s, now) IN
    Lease([Overwrite(r, next) EXCEPT !.attempt = IF @ = 0 THEN 1 ELSE @,
                                     !.startedAt = next.startedAt], w, now)

Claimed(r, s, w, now) ==
    LET next == Start(s, now) IN
    Lease([Overwrite(r, next) EXCEPT !.attempt = next.attempt,
                                     !.startedAt = next.startedAt], w, now)

\* A last attempt whose lease ran out is closed by the scan itself.
Exhausted(r, now) ==
    NoLease([r EXCEPT !.status = "failed", !.updatedAt = now,
                      !.completedAt = now, !.nextAttemptAt = NoTime,
                      !.deadLetteredAt = now, !.error = "worker_lease_expired"])

\* Mutant: one attempt short.
HasAttempts_OneShort(s) == s.attempt + 1 < s.maxAttempts

HasAttempts(s) == s.attempt < s.maxAttempts

Wins(w, o) ==
    LET s == read[w][o] IN
    /\ HasAttempts(s)
    /\ CanStart(s, stamp[w])
    /\ ClaimFence(row[o], s, stamp[w])

Closes(w, o) ==
    LET s == read[w][o] IN
    /\ ~HasAttempts(s)
    /\ s.status = "running"
    /\ ClaimFence(row[o], s, stamp[w])

\* The domain refuses to start it, or the row as updated is not readable.
Chokes(w, o) ==
    LET s == read[w][o] IN
    \/ HasAttempts(s) /\ ~CanStart(s, stamp[w])
    \/ Wins(w, o) /\ ~Hydratable(Claimed(row[o], s, w, stamp[w]))
    \/ Closes(w, o) /\ ~Hydratable(Exhausted(row[o], stamp[w]))

Stops(w) == {o \in DOMAIN read[w] : Wins(w, o) \/ Chokes(w, o)}
IsFirst(o, S) == o \in S /\ \A p \in S : o <= p

\* What the scan leaves of the table when it stops at operation last.
Scan(w, last) ==
    [o \in Ops |->
        IF o \in DOMAIN read[w] /\ o < last /\ Closes(w, o)
          THEN Exhausted(row[o], stamp[w])
        ELSE IF o = last THEN Claimed(row[o], read[w][o], w, stamp[w])
        ELSE row[o]]

\* Mutant: a row the scan closes is not announced.
Commits_ClaimOnly(table) ==
    /\ row' = table
    /\ feed' = [o \in Ops |->
                  IF table[o].status \in {row[o].status, "failed"} THEN feed[o]
                  ELSE [from |-> row[o].status, to |-> table[o].status]]

Commits(table) ==
    /\ row' = table
    /\ feed' = [o \in Ops |->
                  IF table[o].status = row[o].status THEN feed[o]
                  ELSE [from |-> row[o].status, to |-> table[o].status]]

ClaimWins(w) ==
    /\ pc[w] = "claiming"
    /\ \E o \in Ops :
         /\ IsFirst(o, Stops(w))
         /\ ~Chokes(w, o)
         /\ Commits(Scan(w, o))
         /\ \/ /\ EndTransaction(w, "advance")
               /\ run' = [run EXCEPT ![w] =
                            [NoRun EXCEPT !.op = o,
                                          !.attempt = row[o].attempt + 1,
                                          !.budget = row[o].maxAttempts]]
            \/ AnswerLost(w) /\ EndTransaction(w, "idle") /\ run' = run
    /\ UNCHANGED <<clock, checkpoint, output, beats, stopping>>

ClaimThrows(w) ==
    /\ pc[w] = "claiming"
    /\ \E o \in Ops : IsFirst(o, Stops(w)) /\ Chokes(w, o)
    /\ EndTransaction(w, "idle")
    /\ UNCHANGED <<clock, db, beats, run, stopping>>

ClaimFindsNothing(w) ==
    /\ pc[w] = "claiming"
    /\ Stops(w) = {}
    /\ Commits(Scan(w, OpCount + 1))
    /\ EndTransaction(w, "idle")
    /\ UNCHANGED <<clock, checkpoint, output, beats, run, stopping>>

-----------------------------------------------------------------------------
(* transitionRunning: the worker's own transitions of the row it holds.    *)

Holds(r, w, now) ==
    /\ r.status = "running"
    /\ r.leaseOwner = w
    /\ r.attempt = run[w].attempt
    /\ r.leaseExpiresAt > now

\* The WHERE clause of the update.
TransitionFence(r, s, w, now) ==
    /\ Holds(r, w, now)
    /\ r.progress = s.progress
    /\ r.updatedAt = s.updatedAt

BeginTransition(w, from, to) ==
    /\ pc[w] = from
    /\ \E now \in Stamps : stamp' = [stamp EXCEPT ![w] = now]
    /\ BeginTransaction(w, {run[w].op}, to)
    /\ UNCHANGED <<clock, db, beats, stopping>>

Snapshot(w) == read[w][run[w].op]
\* Mutant: the lease outlives the running row.
Updated_KeepsLease(w, next) == Overwrite(row[run[w].op], next)

Updated(w, next) ==
    LET r == Overwrite(row[run[w].op], next) IN
    IF r.status = "running" THEN r ELSE NoLease(r)

\* The three outcomes of the transaction: can is whether the domain accepts
\* the transition of what was read, next the result.  Refused: the caller is
\* told that it lost its lease.  Throws: the transition or the database does,
\* or the row as updated is not readable.
Refused(w, can) ==
    \/ ~Holds(Snapshot(w), w, stamp[w])
    \/ can /\ ~TransitionFence(row[run[w].op], Snapshot(w), w, stamp[w])
Accepted(w, can, next) ==
    /\ Holds(Snapshot(w), w, stamp[w])
    /\ can
    /\ TransitionFence(row[run[w].op], Snapshot(w), w, stamp[w])
    /\ Hydratable(Updated(w, next))
Throws(w, can, next) ==
    \/ w \in Faulty
    \/ ~Refused(w, can) /\ ~Accepted(w, can, next)

\* Into the catch block, unless the run ended there because of a lost lease.
Fail(w, failure) ==
    /\ run' = [run EXCEPT ![w].failure = failure]
    /\ EndTransaction(w, "failing")

BeginAdvance(w) == BeginTransition(w, "advance", "advancing") /\ run' = run

CanAdvanceRun(w) == CanAdvance(Snapshot(w), run[w].goal, stamp[w])
Advanced(w) == Advance(Snapshot(w), run[w].goal, stamp[w])

\* Mutant: the checkpoint is recorded before the output is promoted.
AfterPhase_CheckpointFirst(goal) == CASE goal = Rendering -> "recover"
                                      [] goal = Verifying -> "revalidate"
                                      [] goal = Persisting -> "checkpoint"

AfterPhase(goal) == CASE goal = Rendering -> "recover"
                      [] goal = Verifying -> "revalidate"
                      [] goal = Persisting -> "promote"

AdvanceCommits(w) ==
    /\ pc[w] = "advancing"
    /\ Accepted(w, CanAdvanceRun(w), Advanced(w))
    /\ Write(run[w].op, Updated(w, Advanced(w)), Snapshot(w).status)
    /\ \/ EndTransaction(w, AfterPhase(run[w].goal)) /\ run' = run
       \/ AnswerLost(w) /\ Fail(w, "transient")
    /\ UNCHANGED <<clock, checkpoint, output, beats, stopping>>

AdvanceThrows(w) ==
    /\ pc[w] = "advancing"
    /\ Throws(w, CanAdvanceRun(w), Advanced(w))
    /\ Fail(w, "transient")
    /\ UNCHANGED <<clock, db, beats, stopping>>

\* The worker reports lease-lost and touches the operation no more.
AdvanceRefused(w) ==
    /\ pc[w] = "advancing"
    /\ Refused(w, CanAdvanceRun(w))
    /\ EndRun(w)
    /\ EndTransaction(w, "idle")
    /\ UNCHANGED <<clock, db, beats, stopping>>

-----------------------------------------------------------------------------
(* Heartbeats are sent by a timer, which runs from the first advance to    *)
(* the end of the render, and by the gates.  One at a time is in flight;   *)
(* a caller who finds one joins it.                                        *)

BeatInFlight(w) ==
    \E m \in beats : /\ m.owner = w /\ m.op = run[w].op
                     /\ m.attempt = run[w].attempt

SendBeat(w) ==
    \E now \in Stamps :
      beats' = IF BeatInFlight(w) THEN beats
               ELSE beats \cup {[op |-> run[w].op, owner |-> w,
                                attempt |-> run[w].attempt, at |-> now]}

TimerRuns(w) ==
    \/ pc[w] \in {"recover", "stage", "gate", "revalidate", "promote",
                  "rename", "checkpoint"}
    \/ pc[w] = "advancing" /\ run[w].goal # Rendering

TimerSendsBeat(w) ==
    /\ TimerRuns(w)
    /\ ~run[w].lost
    /\ ~BeatInFlight(w)
    /\ SendBeat(w)
    /\ UNCHANGED <<clock, db, pc, run, stamp, read, stopping>>

-----------------------------------------------------------------------------
(* The render: recover the output or stage one, then the first gate; a     *)
(* second materialization, then the second gate; the promotion.  A gate    *)
(* awaits a heartbeat and then advances the row.                           *)

Aborted(w) == w \in stopping \/ run[w].lost

ToGate(w, staged) ==
    /\ run' = [run EXCEPT ![w].staged = staged, ![w].goal = Verifying]
    /\ SendBeat(w)
    /\ Goto(w, "gate")

Recovers(w) ==
    /\ pc[w] = "recover"
    /\ ~Aborted(w)
    /\ run[w].op \in output
    /\ ToGate(w, FALSE)
    /\ UNCHANGED <<clock, db, stamp, read, stopping>>

FindsNoOutput(w) ==
    /\ pc[w] = "recover"
    /\ ~Aborted(w)
    /\ run[w].op \notin output
    /\ Goto(w, "stage")
    /\ UNCHANGED <<clock, db, beats, run, stamp, read, stopping>>

Stages(w) ==
    /\ pc[w] = "stage"
    /\ ~Aborted(w)
    /\ ToGate(w, TRUE)
    /\ UNCHANGED <<clock, db, stamp, read, stopping>>

Revalidated(w) ==
    /\ pc[w] = "revalidate"
    /\ ~Aborted(w)
    /\ run' = [run EXCEPT ![w].goal = Persisting]
    /\ SendBeat(w)
    /\ Goto(w, "gate")
    /\ UNCHANGED <<clock, db, stamp, read, stopping>>

GateOpens(w) ==
    /\ ~BeatInFlight(w)
    /\ ~run[w].lost
    /\ BeginTransition(w, "gate", "advancing")
    /\ run' = run

\* A recovered output is already at its key.  A staged one is renamed to it
\* unless a file is there, an output conflict; the rename itself replaces
\* whatever has come there since the look.
LooksAtKey(w) ==
    /\ pc[w] = "promote"
    /\ ~Aborted(w)
    /\ run[w].staged => run[w].op \notin output
    /\ Goto(w, IF run[w].staged THEN "rename" ELSE "checkpoint")
    /\ UNCHANGED <<clock, db, beats, run, stamp, read, stopping>>

Promote(w) ==
    /\ pc[w] = "rename"
    /\ output' = output \cup {run[w].op}
    /\ Goto(w, "checkpoint")
    /\ UNCHANGED <<clock, row, feed, checkpoint, beats, run, stamp, read,
                   stopping>>

\* Mutant: any running attempt will do.
CheckpointFence_AnyAttempt(r, w, now) ==
    r.status = "running" /\ r.progress = Persisting /\ r.updatedAt <= now

CheckpointFence(r, w, now) ==
    Holds(r, w, now) /\ r.progress = Persisting /\ r.updatedAt <= now

RecordCheckpoint(w) ==
    /\ pc[w] = "checkpoint"
    /\ LET o == run[w].op IN
       \E now \in Stamps :
         \/ /\ CheckpointFence(row[o], w, now)
            /\ row' = [row EXCEPT ![o].updatedAt = now]
            /\ checkpoint' = [checkpoint EXCEPT
                                ![o] = IF @ = 0 THEN run[w].attempt ELSE @]
            /\ run' = run
            /\ \/ Goto(w, "settle")
               \/ AnswerLost(w) /\ Goto(w, "failing")
         \/ /\ ~CheckpointFence(row[o], w, now)
            /\ EndRun(w)
            /\ Goto(w, "idle")
            /\ UNCHANGED <<row, checkpoint>>
    /\ UNCHANGED <<clock, feed, output, beats, stamp, read, stopping>>

-----------------------------------------------------------------------------
(* The end of an attempt.                                                  *)

BeginSettle(w) == BeginTransition(w, "settle", "settling") /\ run' = run

CanSettle(w) ==
    CanSucceed(Snapshot(w), stamp[w]) /\ checkpoint[run[w].op] # 0
Settled(w) == Succeed(Snapshot(w), stamp[w])

SettleCommits(w) ==
    /\ pc[w] = "settling"
    /\ Accepted(w, CanSettle(w), Settled(w))
    /\ Write(run[w].op, Updated(w, Settled(w)), Snapshot(w).status)
    /\ \/ EndTransaction(w, "idle") /\ EndRun(w)
       \/ AnswerLost(w) /\ Fail(w, "transient")
    /\ UNCHANGED <<clock, checkpoint, output, beats, stopping>>

SettleThrows(w) ==
    /\ pc[w] = "settling"
    /\ Throws(w, CanSettle(w), Settled(w))
    /\ Fail(w, "transient")
    /\ UNCHANGED <<clock, db, beats, stopping>>

SettleRefused(w) ==
    /\ pc[w] = "settling"
    /\ Refused(w, CanSettle(w))
    /\ EndRun(w)
    /\ EndTransaction(w, "idle")
    /\ UNCHANGED <<clock, db, beats, stopping>>

\* Mutant: an error reaches the record under a code that is not one of its.
CaughtFailures_Unmapped(w) ==
    CASE pc[w] = "failing" -> {"transient"}
      [] pc[w] \in {"stage", "revalidate", "rename", "checkpoint"}
            -> {"fatal", "ENOSPC"}
      [] OTHER -> {}

\* The catch block: what may have brought the run there ...
CaughtFailures(w) ==
    LET conflict == IF run[w].op \in output THEN {"output_conflict"} ELSE {}
    IN  CASE pc[w] \in {"failing", "rename"} -> {"transient"}
          [] pc[w] = "promote" /\ run[w].staged -> {"transient"} \cup conflict
          [] pc[w] = "promote" /\ Aborted(w) -> {"transient"}
          [] pc[w] = "stage" -> {"fatal", "transient"} \cup conflict
          [] pc[w] \in {"recover", "revalidate", "checkpoint"}
                -> {"fatal", "transient"}
          [] OTHER -> {}

\* ... and what it records, as a shutdown if the worker is stopping, ...
BeginRecording(w) ==
    /\ ~run[w].lost
    /\ \E failure \in CaughtFailures(w) :
         run' = [run EXCEPT ![w].failure =
                   IF w \in stopping THEN "worker_shutdown" ELSE failure]
    /\ BeginTransition(w, pc[w], "recording")

\* ... and nothing at all if the worker knows its lease is lost.
GiveUp(w) ==
    /\ run[w].lost
    /\ \/ CaughtFailures(w) # {}
       \/ pc[w] = "gate" /\ ~BeatInFlight(w)
    /\ EndRun(w)
    /\ Goto(w, "idle")
    /\ UNCHANGED <<clock, db, beats, stamp, read, stopping>>

NextAttemptAt(w) ==
    LET mine == run[w] IN
    IF mine.failure \in RetryableErrors /\ mine.attempt < mine.budget
      THEN stamp[w] + (IF mine.failure = "worker_shutdown"
                         THEN 1 ELSE RetryDelay(mine.attempt))
      ELSE NoTime

CanRecordFailure(w) ==
    CanFailOrRetry(Snapshot(w), run[w].failure, stamp[w], NextAttemptAt(w))
Failed(w) ==
    FailOrRetry(Snapshot(w), run[w].failure, stamp[w], NextAttemptAt(w))

FailureCommits(w) ==
    /\ pc[w] = "recording"
    /\ Accepted(w, CanRecordFailure(w), Failed(w))
    /\ Write(run[w].op, Updated(w, Failed(w)), Snapshot(w).status)
    /\ EndRun(w)
    /\ EndTransaction(w, "idle")
    /\ UNCHANGED <<clock, checkpoint, output, beats, stopping>>

\* Refused, or thrown out of the worker's function to the loop around it.
FailureNotRecorded(w) ==
    /\ pc[w] = "recording"
    /\ \/ Refused(w, CanRecordFailure(w))
       \/ Throws(w, CanRecordFailure(w), Failed(w))
    /\ EndRun(w)
    /\ EndTransaction(w, "idle")
    /\ UNCHANGED <<clock, db, beats, stopping>>

-----------------------------------------------------------------------------
(* Heartbeats land.                                                        *)

\* Mutant: a heartbeat older than the row renews it.
Renewable_Late(r, m) ==
    /\ r.status = "running"
    /\ r.leaseOwner = m.owner
    /\ r.attempt = m.attempt
    /\ r.leaseExpiresAt > m.at
    /\ r.heartbeatAt <= m.at

Renewable(r, m) ==
    /\ r.status = "running"
    /\ r.leaseOwner = m.owner
    /\ r.attempt = m.attempt
    /\ r.leaseExpiresAt > m.at
    /\ r.heartbeatAt <= m.at
    /\ r.updatedAt <= m.at

\* The run that sent m, if it is still going on, learns its lease is lost.
LearnsLoss(m) ==
    run' = IF run[m.owner].op = m.op /\ run[m.owner].attempt = m.attempt
             THEN [run EXCEPT ![m.owner].lost = TRUE] ELSE run

BeatRenews(m) ==
    /\ Renewable(row[m.op], m)
    /\ row' = [row EXCEPT ![m.op].heartbeatAt = m.at,
                          ![m.op].leaseExpiresAt = m.at + LeaseDuration,
                          ![m.op].updatedAt = m.at]
    /\ beats' = beats \ {m}
    /\ \/ run' = run
       \/ AnswerLost(m.owner) /\ LearnsLoss(m)
    /\ UNCHANGED <<clock, feed, checkpoint, output, pc, stamp, read, stopping>>

MayBeLocked(o) ==
    \/ \E a \in Actors : o \in DOMAIN read[a]
    \/ \E w \in Workers : pc[w] = "checkpoint" /\ run[w].op = o

\* SKIP LOCKED: an open transaction has the row, and a read without a lock
\* says the lease is still this worker's.
BeatSkips(m) ==
    /\ Renewable(row[m.op], m)
    /\ MayBeLocked(m.op)
    /\ beats' = beats \ {m}
    /\ UNCHANGED <<clock, db, pc, run, stamp, read, stopping>>

BeatRefused(m) ==
    /\ ~Renewable(row[m.op], m)
    /\ LearnsLoss(m)
    /\ beats' = beats \ {m}
    /\ UNCHANGED <<clock, db, pc, stamp, read, stopping>>

\* The statement fails: the worker cannot tell, and gives the lease up.
BeatErrors(m) ==
    /\ m.owner \in Faulty
    /\ LearnsLoss(m)
    /\ beats' = beats \ {m}
    /\ UNCHANGED <<clock, db, pc, stamp, read, stopping>>

-----------------------------------------------------------------------------
(* The API's commands.                                                     *)

BeginCommand(q, step) ==
    /\ pc[q] = "new"
    /\ \E o \in Ops, now \in Stamps :
         /\ stamp' = [stamp EXCEPT ![q] = now]
         /\ BeginTransaction(q, {o}, step)
    /\ UNCHANGED <<clock, db, beats, run, stopping>>

BeginCancel(q) == BeginCommand(q, "cancelling")
BeginRetry(q) == BeginCommand(q, "retrying")

\* Mutant: trusts the read that the operation was not over.
CancelFence_TrustsRead(r) == TRUE

\* The update's WHERE names the live statuses and nothing of what was read.
CancelFence(r) == r.status \in Live

Canceled(r, s, requestedAt) ==
    NoLease(Cancel(r, CancellationInstant(s, requestedAt)))

CancelCommits(q) ==
    /\ pc[q] = "cancelling"
    /\ \E o \in DOMAIN read[q] :
         LET s == read[q][o]
             r == Canceled(row[o], s, stamp[q])
         IN  /\ ~IsTerminal(s)
             /\ CancelFence(row[o])
             /\ Hydratable(r)
             /\ Write(o, r, s.status)
    /\ EndTransaction(q, "answered")
    /\ UNCHANGED <<clock, checkpoint, output, beats, run, stopping>>

\* The row as updated does not pass its own assertions: rolled back.
CancelThrows(q) ==
    /\ pc[q] = "cancelling"
    /\ \E o \in DOMAIN read[q] :
         LET s == read[q][o] IN
         /\ ~IsTerminal(s)
         /\ CancelFence(row[o])
         /\ ~Hydratable(Canceled(row[o], s, stamp[q]))
    /\ EndTransaction(q, "refused")
    /\ UNCHANGED <<clock, db, beats, run, stopping>>

\* Terminal when read, or by the time of the update.
CancelFindsTerminal(q) ==
    /\ pc[q] = "cancelling"
    /\ \E o \in DOMAIN read[q] : IsTerminal(read[q][o]) \/ ~CancelFence(row[o])
    /\ EndTransaction(q, "answered")
    /\ UNCHANGED <<clock, db, beats, run, stopping>>

RetryFence(r, s) == r.status = s.status /\ r.updatedAt = s.updatedAt

\* Mutant: the update adds to the budget it finds, not to the one it read.
Retried_Increments(r, s, requestedAt) ==
    LET next == Retry(s, requestedAt) IN
    NoLease([Overwrite(r, next) EXCEPT
               !.progress = r.progress, !.startedAt = next.startedAt,
               !.maxAttempts = IF s.attempt >= s.maxAttempts THEN @ + 1 ELSE @])

Retried(r, s, requestedAt) ==
    LET next == Retry(s, requestedAt) IN
    NoLease([Overwrite(r, next) EXCEPT !.progress = r.progress,
                                       !.maxAttempts = next.maxAttempts,
                                       !.startedAt = next.startedAt])

Retries(q, o) ==
    /\ CanRetry(read[q][o], stamp[q])
    /\ RetryFence(row[o], read[q][o])
    /\ Hydratable(Retried(row[o], read[q][o], stamp[q]))

RetryCommits(q) ==
    /\ pc[q] = "retrying"
    /\ \E o \in DOMAIN read[q] :
         /\ Retries(q, o)
         /\ Write(o, Retried(row[o], read[q][o], stamp[q]), read[q][o].status)
    /\ EndTransaction(q, "answered")
    /\ UNCHANGED <<clock, checkpoint, output, beats, run, stopping>>

\* Not terminal, succeeded, stamped before the row, or changed since.
RetryDoesNothing(q) ==
    /\ pc[q] = "retrying"
    /\ \E o \in DOMAIN read[q] : ~Retries(q, o)
    /\ EndTransaction(q, "answered")
    /\ UNCHANGED <<clock, db, beats, run, stopping>>

-----------------------------------------------------------------------------
(* The environment.                                                        *)

Tick ==
    /\ clock < MaxClock
    /\ clock' = clock + 1
    /\ UNCHANGED <<db, beats, pc, run, stamp, read, stopping>>

Shutdown(w) ==
    /\ w \in Faulty /\ pc[w] # "dead"
    /\ w \notin stopping
    /\ stopping' = stopping \cup {w}
    /\ UNCHANGED <<clock, db, beats, pc, run, stamp, read>>

\* The process dies; an open transaction of it is rolled back.
Crash(w) ==
    /\ w \in Faulty /\ pc[w] # "dead"
    /\ EndTransaction(w, "dead")
    /\ EndRun(w)
    /\ UNCHANGED <<clock, db, beats, stopping>>

WorkerStep(w) ==
    \/ BeginClaim(w) \/ ClaimWins(w) \/ ClaimThrows(w) \/ ClaimFindsNothing(w)
    \/ BeginAdvance(w)
    \/ AdvanceCommits(w) \/ AdvanceThrows(w) \/ AdvanceRefused(w)
    \/ Recovers(w) \/ FindsNoOutput(w) \/ Stages(w) \/ Revalidated(w) \/ GateOpens(w)
    \/ LooksAtKey(w) \/ Promote(w) \/ RecordCheckpoint(w)
    \/ BeginSettle(w)
    \/ SettleCommits(w) \/ SettleThrows(w) \/ SettleRefused(w)
    \/ GiveUp(w) \/ BeginRecording(w)
    \/ FailureCommits(w) \/ FailureNotRecorded(w)

BeatLands(m) ==
    BeatRenews(m) \/ BeatSkips(m) \/ BeatRefused(m) \/ BeatErrors(m)

RequestStep(q) ==
    \/ BeginCancel(q)
    \/ CancelCommits(q) \/ CancelThrows(q) \/ CancelFindsTerminal(q)
    \/ BeginRetry(q) \/ RetryCommits(q) \/ RetryDoesNothing(q)

Next ==
    \/ \E w \in Workers :
         WorkerStep(w) \/ TimerSendsBeat(w) \/ Shutdown(w) \/ Crash(w)
    \/ \E m \in beats : BeatLands(m)
    \/ \E q \in Requests : RequestStep(q)
    \/ Tick

Spec == Init /\ [][Next]_vars

-----------------------------------------------------------------------------
(* Type invariant: no statement writes a row the table cannot hold, and an *)
(* open transaction's reads are rows of operations that exist.             *)
TypeOK ==
    /\ clock \in 0..MaxClock
    /\ row \in [Ops -> Row]
    /\ feed \in [Ops -> StatusEvent]
    /\ checkpoint \in [Ops -> Nat]
    /\ output \subseteq Ops
    /\ beats \subseteq Beat
    /\ pc \in [Actors -> WorkerSteps \cup RequestSteps]
    /\ run \in [Workers -> Run]
    /\ stamp \in [Actors -> Instant]
    /\ DOMAIN read = Actors
    /\ \A a \in Actors : /\ DOMAIN read[a] \subseteq Ops
                         /\ \A o \in DOMAIN read[a] : read[a][o] \in Row
    /\ stopping \subseteq Faulty

(* Every row can be read back: assertPublicOperation, which every read of  *)
(* the table runs, accepts it, and it has a lease exactly while it runs.   *)
(* One row that did not would throw in every claim whose scan meets it and *)
(* so stop all the operations behind it.                                   *)
HydratableRow(r) ==
    /\ Hydratable(r)
    /\ (r.leaseOwner # NoWorker) <=> r.status = "running"
    /\ (r.leaseExpiresAt # NoTime) <=> r.status = "running"
    /\ (r.heartbeatAt # NoTime) <=> r.status = "running"
HydratableRows == \A o \in Ops : HydratableRow(row[o])

(* The rule of the retry budget: a failure is final and dead-lettered only *)
(* when the attempts are used up, whoever closes the row, its worker or a  *)
(* claim; and a row that waits for a retry still has one to make.          *)
FailureDeserved(r) ==
    /\ r.deadLetteredAt # NoTime =>
         /\ r.attempt = r.maxAttempts
         /\ r.error \in RetryableErrors \cup {"worker_lease_expired"}
    /\ r.status = "failed" /\ r.error \notin FatalErrors =>
         r.deadLetteredAt # NoTime
RetryPossible(r) == r.status = "retrying" => r.attempt < r.maxAttempts
DeadLetterDeserved ==
    \A o \in Ops : FailureDeserved(row[o]) /\ RetryPossible(row[o])

(* Success is proven: an operation that succeeded has a checkpoint, which  *)
(* one of its own attempts recorded, and a checkpoint names an output that *)
(* is there.  This is the rename-before-checkpoint-before-success order of *)
(* ADR-015, across attempts, lost answers and crashes.                     *)
SuccessIsProven ==
    \A o \in Ops :
      /\ row[o].status = "succeeded" => checkpoint[o] # 0
      /\ checkpoint[o] # 0 => o \in output /\ checkpoint[o] <= row[o].attempt

(* The feed never lies about the present: the newest status event of an    *)
(* operation names the status its row has.                                 *)
FeedMatchesRow == \A o \in Ops : feed[o].to = row[o].status

(* A terminal operation stays as it is, first instants included, whatever  *)
(* late worker, heartbeat or cancel still comes; only a retry, and only of *)
(* a failure or a cancel, takes it back, without a lease (ADR-017).        *)
TerminalStable ==
    [][\A o \in Ops :
         IsTerminal(row[o]) /\ row'[o] # row[o] =>
           /\ row[o].status \in {"failed", "canceled"}
           /\ row'[o].status \in {"queued", "retrying"}
           /\ row'[o].leaseOwner = NoWorker]_vars

(* An attempt has one owner and a number of its own: the number never      *)
(* shrinks, and a row changes hands, or starts anew, only as the next      *)
(* attempt.  All fencing of late workers rests on this.                    *)
FreshAttemptPerOwner ==
    [][\A o \in Ops :
         LET r == row[o]  new == row'[o] IN
         /\ new.attempt \in {r.attempt, r.attempt + 1}
         /\ new.attempt > r.attempt <=>
              /\ new.status = "running"
              /\ \/ r.status # "running"
                 \/ new.leaseOwner # r.leaseOwner
                 \/ new.attempt # r.attempt]_vars

(* A lease is honoured until it runs out: no other worker takes a running  *)
(* operation over, or closes it as expired, before the instant its last    *)
(* renewal reached, even if the scan that found it expired is older.       *)
LeaseHonoured ==
    [][\A o \in Ops :
         /\ row[o].status = "running"
         /\ \/ row'[o].attempt # row[o].attempt
            \/ row'[o].error = "worker_lease_expired"
         => row[o].leaseExpiresAt <= clock]_vars

(* While an attempt runs its row only goes forward: the phase, the instant *)
(* every compare-and-set compares, and the lease, whichever of the owner's *)
(* own statements, or of its late heartbeats, comes last.                  *)
AttemptGoesForward ==
    [][\A o \in Ops :
         LET r == row[o]  new == row'[o] IN
         /\ r.status = "running" /\ new.status = "running"
         /\ new.attempt = r.attempt
         => /\ new.progress >= r.progress
            /\ new.updatedAt >= r.updatedAt
            /\ new.leaseExpiresAt >= r.leaseExpiresAt
            /\ new.heartbeatAt >= r.heartbeatAt]_vars

(* A checkpoint is the running attempt's, taken while it persists under a  *)
(* live lease, and final: a worker that lost its operation cannot record   *)
(* one for the attempt that replaced it.                                   *)
CheckpointByHolder ==
    [][\A o \in Ops :
         checkpoint'[o] # checkpoint[o] =>
           /\ checkpoint[o] = 0
           /\ row[o].status = "running"
           /\ row[o].progress = Persisting
           /\ checkpoint'[o] = row[o].attempt]_vars

(* The rows, whatever is interleaved on them, do what the API promises:    *)
(* each goes through the lifecycle of OperationLifecycle step by step.     *)
LifecycleState(r) == CASE r.status \in {"queued", "retrying"} -> "open"
                       [] r.status = "running" -> "held"
                       [] OTHER -> r.status

Lifecycle(o) == INSTANCE OperationLifecycle
                WITH state <- LifecycleState(row[o]),
                     attempt <- row[o].attempt,
                     budget <- row[o].maxAttempts,
                     holder <- row[o].leaseOwner,
                     Budgets <- Nat

\* \A o \in Ops : Lifecycle(o)!Safety, in the form TLC can check.
ImplementsLifecycle ==
    /\ \A o \in Ops : Lifecycle(o)!Init
    /\ [][\A o \in Ops : [Lifecycle(o)!Next]_(Lifecycle(o)!lifecycle)]_vars

(* The budget after any number of retries by the API, stale ones included: *)
(* no attempt is made beyond it, and it is never more than one above those *)
(* that were made, however often a client cancels and retries.  With the   *)
(* rest of the lifecycle's type: a row has an owner exactly while held.    *)
LifecycleHolds == \A o \in Ops : Lifecycle(o)!LifecycleTypeOK

-----------------------------------------------------------------------------
(* What the documents promise and the code does not keep.                  *)

(* ADR-015: an output left at its final key by an attempt that did not     *)
(* come to record it is recovered; it does not make the operation fail.    *)
NoOutputConflict == \A o \in Ops : row[o].error # "output_conflict"

(* ADR-018: a retry of an operation without attempts left adds one, so one *)
(* that waits for its retry can make it.  A claim would neither take nor   *)
(* close one that has none: it would wait forever.                         *)
RetryAddsAnAttempt == \A o \in Ops : RetryPossible(row[o])
=============================================================================
