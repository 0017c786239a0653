-------------------------- MODULE WebhookDeliveries --------------------------
(***************************************************************************)
(* The deliveries of one public event, one per webhook subscription: the   *)
(* rows of v2WebhookDelivery and v2WebhookDeliveryAttempt, the worker      *)
(* processes that claim, send and settle them, the clients that ask for a  *)
(* replay, and the receiver at the other end of the wire.                  *)
(*                                                                         *)
(* Time is relative.  An instant of a row is kept as its distance from the *)
(* present, which Tick shortens, down to Past, the oldest distance that    *)
(* still matters.  A command reads its clock before its transaction runs,  *)
(* and clocks of hosts differ: "now" is lag behind the present, for some   *)
(* lag in 0..Lag, so an instant t is at or before now iff t <= -lag.       *)
(***************************************************************************)
EXTENDS Integers, FiniteSets, Sequences

CONSTANTS
    Deliveries,     \* the subscriptions the event matched
    Workers,        \* worker processes
    NoWorker,       \* leaseOwner is null
    Requests,       \* replay requests a client sends, repeated ones included
    Keys,           \* idempotency keys
    NoRecord,       \* no row in v2IdempotencyRecord
    MaxAttempts,    \* maxAttempts given to a new delivery
    AttemptLimit,   \* the absolute limit of attempts (20 in the source)
    LeaseDuration,
    MaxRetryDelay,  \* backoff after a retryable failure is in 1..MaxRetryDelay
    Lag             \* how far a clock reading may be behind

ASSUME DeliveryAssumptions ==
    /\ NoWorker \notin Workers
    /\ NoRecord \notin [scope : SUBSET Deliveries, scheduled : SUBSET Deliveries]
    /\ MaxAttempts \in Nat \ {0}
    /\ AttemptLimit \in Nat /\ AttemptLimit >= MaxAttempts
    /\ LeaseDuration \in Nat \ {0}
    /\ MaxRetryDelay \in Nat \ {0}
    /\ Lag \in Nat

VARIABLES
    delivery,   \* the row of each delivery
    attempts,   \* the attempt rows of each delivery, by attempt number
    active,     \* is the delivery's subscription, and its endpoint, active?
    worker,     \* what each worker process is doing
    request,    \* what each replay request is doing
    record,     \* the idempotency record of each key
    acked       \* the attempts the receiver answered with a 2xx

vars == <<delivery, attempts, active, worker, request, record, acked>>

Past == -Lag
Terminal == {"succeeded", "dead-lettered"}
Waiting == {"pending", "retry-scheduled"}

\* How an attempt ends.  "retryable" stands for network errors, an
\* unavailable secret and responses 408, 425, 429 and 5xx; "fatal" for every
\* other response, a blocked target and a signing key mismatch.
Outcomes == {"succeeded", "retryable", "fatal"}
AttemptStatus == Outcomes \cup {"in-flight", "lease_expired"}

Max2(a, b) == IF a >= b THEN a ELSE b

NoRow == [status |-> "absent", count |-> 0, max |-> 0, due |-> Past,
          owner |-> NoWorker, lease |-> Past]

Idle == [pc |-> "idle"]
NotSent == [pc |-> "new"]

-----------------------------------------------------------------------------
TypeOK ==
    /\ delivery \in [Deliveries ->
         [status : Terminal \cup Waiting \cup {"absent", "in-flight"},
          count : 0..AttemptLimit, max : 0..AttemptLimit,
          due : Past..MaxRetryDelay, owner : Workers \cup {NoWorker},
          lease : Past..LeaseDuration]]
    /\ attempts \in [Deliveries -> Seq(AttemptStatus)]
    /\ active \in [Deliveries -> BOOLEAN]
    /\ worker \in [Workers ->
         {Idle} \cup [pc : {"claimed", "sending", "settling"},
                      d : Deliveries, n : 1..AttemptLimit,
                      outcome : Outcomes, beating : BOOLEAN]]
    /\ request \in [Requests ->
         {NotSent} \cup [pc : {"read", "scheduled", "replayed", "refused"},
                         key : Keys, scope : SUBSET Deliveries,
                         seen : [Deliveries -> Nat]]]
    /\ record \in [Keys -> {NoRecord} \cup
         [scope : SUBSET Deliveries, scheduled : SUBSET Deliveries]]
    /\ acked \in [Deliveries -> SUBSET (1..AttemptLimit)]

Init ==
    /\ delivery = [d \in Deliveries |-> NoRow]
    /\ attempts = [d \in Deliveries |-> <<>>]
    /\ active = [d \in Deliveries |-> TRUE]
    /\ worker = [w \in Workers |-> Idle]
    /\ request = [q \in Requests |-> NotSent]
    /\ record = [k \in Keys |-> NoRecord]
    /\ acked = [d \in Deliveries |-> {}]

-----------------------------------------------------------------------------
(* The fan-out creates the delivery, due at once; publishing the event a   *)
(* second time finds the row and leaves it alone (upsert, update: {}).     *)

Materialize(d) ==
    /\ delivery[d].status = "absent"
    /\ active[d]
    /\ \E lag \in 0..Lag :
         delivery' = [delivery EXCEPT ![d] =
           [NoRow EXCEPT !.status = "pending", !.max = MaxAttempts,
                         !.due = -lag]]
    /\ UNCHANGED <<attempts, active, worker, request, record, acked>>

-----------------------------------------------------------------------------
(* claimNext.  Each update of the transaction repeats the conditions under *)
(* which the candidate was read, so a candidate that changed in between is *)
(* skipped: which of the candidates the transaction reaches is left open.  *)

DueNow(d, lag) == delivery[d].status \in Waiting /\ delivery[d].due <= -lag

\* Mutant: a lease that ends at the next instant counts as over.
Expired_OneEarly(d, lag) ==
    delivery[d].status = "in-flight" /\ delivery[d].lease <= 1 - lag

Expired(d, lag) ==
    delivery[d].status = "in-flight" /\ delivery[d].lease <= -lag

\* Mutant: the query forgets the deliveries whose lease ran out.
Candidates_NoExpired(lag) == {d \in Deliveries : active[d] /\ DueNow(d, lag)}

Candidates(lag) ==
    {d \in Deliveries : active[d] /\ (DueNow(d, lag) \/ Expired(d, lag))}

\* Mutant: the last permitted attempt is taken to have been made already.
Exhausted_OneShort(d) ==
    delivery[d].status = "in-flight" /\ delivery[d].count + 1 >= delivery[d].max

Exhausted(d) ==
    delivery[d].status = "in-flight" /\ delivery[d].count >= delivery[d].max

\* Mutant: the attempt of the lost worker is left open.
Closed_LeftOpen(d) == attempts[d]

\* The attempt row whose worker let its lease run out.
Closed(d) ==
    IF delivery[d].status = "in-flight"
    THEN [attempts[d] EXCEPT ![delivery[d].count] = "lease_expired"]
    ELSE attempts[d]

\* Closing an attempt that is not in flight rolls the transaction back.
CanClose(d) ==
    delivery[d].status = "in-flight"
      => /\ delivery[d].count \in DOMAIN attempts[d]
         /\ attempts[d][delivery[d].count] = "in-flight"

DeadLettered(row) ==
    [row EXCEPT !.status = "dead-lettered", !.owner = NoWorker, !.lease = Past]

Claimed(row, w, lag) ==
    [row EXCEPT !.status = "in-flight", !.count = @ + 1, !.owner = w,
                !.lease = LeaseDuration - lag]

Claim(w) ==
    /\ worker[w] = Idle
    /\ \E lag \in 0..Lag :
       \E lost \in SUBSET {d \in Candidates(lag) : Exhausted(d)} :
       \E taken \in SUBSET {d \in Candidates(lag) : ~Exhausted(d)} :
         /\ Cardinality(taken) <= 1
         /\ lost \cup taken # {}
         /\ \A d \in lost \cup taken : CanClose(d)
         /\ delivery' = [d \in Deliveries |->
              IF d \in lost THEN DeadLettered(delivery[d])
              ELSE IF d \in taken THEN Claimed(delivery[d], w, lag)
              ELSE delivery[d]]
         /\ attempts' = [d \in Deliveries |->
              IF d \in lost THEN Closed(d)
              ELSE IF d \in taken THEN Append(Closed(d), "in-flight")
              ELSE attempts[d]]
         /\ \/ taken = {} /\ UNCHANGED worker
            \/ \E d \in taken :
                 worker' = [worker EXCEPT ![w] =
                   [pc |-> "claimed", d |-> d, n |-> delivery[d].count + 1,
                    outcome |-> "fatal", beating |-> TRUE]]
    /\ UNCHANGED <<active, request, record, acked>>

-----------------------------------------------------------------------------
(* The rest of a worker's run.  activeFence: the row must still be in      *)
(* flight under this worker's own attempt, and the lease not yet over.     *)
(* The random token of a claim is issued for one attempt, so the attempt   *)
(* number stands for both.                                                 *)

Fenced(w, lag) ==
    LET row == delivery[worker[w].d]
    IN /\ row.status = "in-flight"
       /\ row.owner = w
       /\ row.count = worker[w].n
       /\ row.lease > -lag

\* getDispatchTarget, then opening the signing secret.  A target that is not
\* active, or has no single active secret, blocks the attempt for good.
Resolve(w) ==
    /\ worker[w].pc = "claimed"
    /\ \E lag \in 0..Lag :
         IF ~Fenced(w, lag) THEN worker' = [worker EXCEPT ![w] = Idle]
         ELSE \/ /\ active[worker[w].d]
                 /\ worker' = [worker EXCEPT ![w].pc = "sending"]
              \/ \E outcome \in {"fatal", "retryable"} :
                   /\ outcome = "retryable" => active[worker[w].d]
                   /\ worker' = [worker EXCEPT ![w].pc = "settling",
                                               ![w].outcome = outcome]
    /\ UNCHANGED <<delivery, attempts, active, request, record, acked>>

\* The request goes out whether or not the lease still holds: a lost lease
\* stops the heartbeats, not the dispatch.  An answer may be lost on its way.
Send(w) ==
    /\ worker[w].pc = "sending"
    /\ \E outcome \in Outcomes, answered \in BOOLEAN :
         /\ answered => outcome # "fatal"
         /\ outcome = "succeeded" => answered
         /\ worker' = [worker EXCEPT ![w].pc = "settling",
                                     ![w].outcome = outcome]
         /\ acked' = [acked EXCEPT ![worker[w].d] =
              IF answered THEN @ \cup {worker[w].n} ELSE @]
    /\ UNCHANGED <<delivery, attempts, active, request, record>>

\* Mutant: the attempt just made is not counted against the maximum.
Settled_Uncounted(row, outcome, due) ==
    LET retry == outcome = "retryable" /\ row.count <= row.max
    IN [row EXCEPT
          !.status = IF outcome = "succeeded" THEN "succeeded"
                     ELSE IF retry THEN "retry-scheduled"
                     ELSE "dead-lettered",
          !.due = IF retry THEN due ELSE @,
          !.owner = NoWorker, !.lease = Past]

\* settle: the outcome is recorded under the fence, or dropped as stale.
Settled(row, outcome, due) ==
    LET retry == outcome = "retryable" /\ row.count < row.max
    IN [row EXCEPT
          !.status = IF outcome = "succeeded" THEN "succeeded"
                     ELSE IF retry THEN "retry-scheduled"
                     ELSE "dead-lettered",
          !.due = IF retry THEN due ELSE @,
          !.owner = NoWorker, !.lease = Past]

\* Mutant: without the fence, on whatever attempt is the latest.
Settle_NoFence(w) ==
    /\ worker[w].pc = "settling"
    /\ LET d == worker[w].d
       IN IF delivery[d].status = "in-flight"
          THEN /\ attempts' = [attempts EXCEPT ![d][delivery[d].count] =
                                 worker[w].outcome]
               /\ delivery' = [delivery EXCEPT ![d] =
                                 Settled(@, worker[w].outcome, 1)]
          ELSE UNCHANGED <<delivery, attempts>>
    /\ worker' = [worker EXCEPT ![w] = Idle]
    /\ UNCHANGED <<active, request, record, acked>>

Settle(w) ==
    /\ worker[w].pc = "settling"
    /\ LET d == worker[w].d
           n == worker[w].n
       IN \E lag \in 0..Lag :
            IF Fenced(w, lag)
            THEN /\ attempts[d][n] = "in-flight"
                 /\ attempts' = [attempts EXCEPT ![d][n] = worker[w].outcome]
                 /\ \E delay \in 1..MaxRetryDelay :
                      delivery' = [delivery EXCEPT ![d] =
                        Settled(@, worker[w].outcome, delay - lag)]
            ELSE UNCHANGED <<delivery, attempts>>
    /\ worker' = [worker EXCEPT ![w] = Idle]
    /\ UNCHANGED <<active, request, record, acked>>

\* One heartbeat.  After one that finds the fence broken, or fails, the
\* worker sends no more of them.
Beat(w) ==
    /\ worker[w] # Idle /\ worker[w].beating
    /\ \/ \E lag \in 0..Lag :
            IF Fenced(w, lag)
            THEN /\ delivery' = [delivery EXCEPT ![worker[w].d].lease =
                                   LeaseDuration - lag]
                 /\ UNCHANGED worker
            ELSE /\ worker' = [worker EXCEPT ![w].beating = FALSE]
                 /\ UNCHANGED delivery
       \/ worker' = [worker EXCEPT ![w].beating = FALSE] /\ UNCHANGED delivery
    /\ UNCHANGED <<attempts, active, request, record, acked>>

\* The process dies, or a database error ends this run of it.
Crash(w) ==
    /\ worker[w] # Idle
    /\ worker' = [worker EXCEPT ![w] = Idle]
    /\ UNCHANGED <<delivery, attempts, active, request, record, acked>>

-----------------------------------------------------------------------------
(* Replays: of one delivery (scope a singleton) or of the whole event      *)
(* (scope every delivery).  The transaction is serializable: it reads a    *)
(* snapshot, and commits only if no row it writes was written since.       *)

Created == {d \in Deliveries : delivery[d].status # "absent"}

Scopes == {{d} : d \in Created} \cup {Created}

\* A terminal row is written by nothing but a replay, and the claim after a
\* replay raises its count: a count names one version of a terminal row.
Eligible(d) ==
    /\ active[d]
    /\ delivery[d].status \in Terminal
    /\ delivery[d].count < AttemptLimit

Reopened(row) ==
    [row EXCEPT !.status = "retry-scheduled",
                !.max = Max2(@, row.count + 1),
                !.owner = NoWorker, !.lease = Past]

\* The answer a completed record gives to a request that uses its key.
FromRecord(q, key, scope) ==
    request' = [request EXCEPT ![q] =
      [pc |-> IF record[key].scope = scope THEN "replayed" ELSE "refused",
       key |-> key, scope |-> scope, seen |-> [d \in Deliveries |-> 0]]]

ReadForReplay(q) ==
    /\ request[q].pc = "new"
    /\ \E key \in Keys, scope \in Scopes :
         /\ scope # {}
         /\ \/ record[key] # NoRecord /\ FromRecord(q, key, scope)
            \/ /\ record[key] = NoRecord
               /\ request' = [request EXCEPT ![q] =
                    [pc |-> IF \E d \in scope : Eligible(d)
                            THEN "read" ELSE "refused",
                     key |-> key, scope |-> scope,
                     seen |-> [d \in Deliveries |->
                       IF d \in scope /\ Eligible(d)
                       THEN delivery[d].count ELSE 0]]]
    /\ UNCHANGED <<delivery, attempts, active, worker, record, acked>>

Scheduled(q) == {d \in request[q].scope : request[q].seen[d] > 0}

\* Mutant: the row is updated whatever became of it since it was read.
SnapshotHolds_TrustsRead(q) == request[q].pc = "read"

SnapshotHolds(q) ==
    \A d \in Scheduled(q) :
      /\ delivery[d].status \in Terminal
      /\ delivery[d].count = request[q].seen[d]

CommitReplay(q) ==
    /\ request[q].pc = "read"
    /\ record[request[q].key] = NoRecord
    /\ SnapshotHolds(q)
    /\ \E lag \in 0..Lag :
         delivery' = [d \in Deliveries |->
           IF d \in Scheduled(q)
           THEN [Reopened(delivery[d]) EXCEPT !.due = 1 - lag]
           ELSE delivery[d]]
    /\ record' = [record EXCEPT ![request[q].key] =
         [scope |-> request[q].scope, scheduled |-> Scheduled(q)]]
    /\ request' = [request EXCEPT ![q].pc = "scheduled"]
    /\ UNCHANGED <<attempts, active, worker, acked>>

\* The transaction lost a race: answer from the winner's record if it is
\* there, else run again, or give up after a bounded number of pauses.
LoseRace(q) ==
    /\ request[q].pc = "read"
    /\ record[request[q].key] # NoRecord \/ ~SnapshotHolds(q)
    /\ \/ /\ record[request[q].key] # NoRecord
          /\ FromRecord(q, request[q].key, request[q].scope)
       \/ /\ record[request[q].key] = NoRecord
          /\ \E next \in {NotSent, [request[q] EXCEPT !.pc = "refused"]} :
               request' = [request EXCEPT ![q] = next]
    /\ UNCHANGED <<delivery, attempts, active, worker, record, acked>>

-----------------------------------------------------------------------------
\* An administrator pauses or resumes the subscription, or its endpoint.
SetTarget(d) ==
    /\ active' = [active EXCEPT ![d] = ~@]
    /\ UNCHANGED <<delivery, attempts, worker, request, record, acked>>

Earlier(instant) == IF instant > Past THEN instant - 1 ELSE Past

Tick ==
    /\ delivery' = [d \in Deliveries |->
         [delivery[d] EXCEPT !.due = Earlier(@), !.lease = Earlier(@)]]
    /\ UNCHANGED <<attempts, active, worker, request, record, acked>>

WorkerStep(w) == Claim(w) \/ Resolve(w) \/ Send(w) \/ Settle(w)
ReplayStep(q) == ReadForReplay(q) \/ CommitReplay(q) \/ LoseRace(q)

Next ==
    \/ \E d \in Deliveries : Materialize(d) \/ SetTarget(d)
    \/ \E w \in Workers : WorkerStep(w) \/ Beat(w) \/ Crash(w)
    \/ \E q \in Requests : ReplayStep(q)
    \/ Tick

\* Time passes, a worker that is not stopped keeps polling, and a dispatch
\* ends: the transport has an absolute deadline.
Fairness ==
    /\ WF_vars(Tick)
    /\ \A w \in Workers : WF_vars(WorkerStep(w))

Spec == Init /\ [][Next]_vars
LiveSpec == Spec /\ Fairness

-----------------------------------------------------------------------------
(* The claim of every delivery stands on the attempt table: there is one   *)
(* attempt row per count, and only the last one of a delivery in flight is *)
(* open.  Were it ever otherwise, closing it would roll back the claim of  *)
(* claimNext on every poll, for every worker; and a row outside these      *)
(* counts is one createWebhookDelivery refuses to read.                    *)
AttemptLedger ==
    \A d \in Deliveries :
      LET row == delivery[d]
      IN /\ Len(attempts[d]) = row.count
         /\ \A n \in 1..row.count :
              attempts[d][n] = "in-flight"
                <=> row.status = "in-flight" /\ n = row.count
         /\ row.count <= row.max
         /\ row.status = "pending" => row.count = 0
         /\ row.status \in Terminal \cup {"in-flight", "retry-scheduled"}
              => row.count > 0
         /\ row.status = "retry-scheduled" => row.count < row.max
         /\ row.owner # NoWorker <=> row.status = "in-flight"

(* A delivery is recorded as succeeded only if the receiver answered that  *)
(* very attempt with a 2xx, whatever workers whose lease ran out report.   *)
RecordedSuccessIsReal ==
    \A d \in Deliveries :
      /\ \A n \in DOMAIN attempts[d] :
           attempts[d][n] = "succeeded" => n \in acked[d]
      /\ delivery[d].status = "succeeded"
           => attempts[d][delivery[d].count] = "succeeded"

(* A delivery is given up only for a final answer, or when its last        *)
(* permitted attempt failed or its worker vanished.                        *)
DeadLetterDeserved ==
    \A d \in Deliveries :
      delivery[d].status = "dead-lettered" =>
        LET last == attempts[d][delivery[d].count]
        IN \/ last = "fatal"
           \/ /\ last \in {"retryable", "lease_expired"}
              /\ delivery[d].count = delivery[d].max

(* The receiver is tried no more than the configured number of times, and  *)
(* once more for each replay a client was granted, never past the limit.   *)
AttemptBudget ==
    \A d \in Deliveries :
      LET grants == {k \in Keys : record[k] # NoRecord
                                    /\ d \in record[k].scheduled}
      IN delivery[d].count <= MaxAttempts + Cardinality(grants)

(* Until its lease is over by the present time, a delivery in flight       *)
(* changes only by its owner settling the attempt it claimed.              *)
LeaseHonoured ==
    [][\A d \in Deliveries :
         LET row == delivery[d]
         IN row.status = "in-flight" /\ row.lease > 0 /\ row # delivery'[d]
              => \/ /\ delivery'[d].status = "in-flight"
                    /\ delivery'[d].count = row.count
                    /\ delivery'[d].owner = row.owner
                 \/ LET w == row.owner
                    IN /\ worker[w].pc = "settling"
                       /\ worker[w].d = d /\ worker[w].n = row.count
                       /\ worker'[w] = Idle]_vars

(* However often a replay request is sent, and whoever competes with it,   *)
(* one key reopens a delivery once: a delivery leaves a terminal state     *)
(* only in the step that stores the record of a new key, a stored record   *)
(* never changes, and what it says was scheduled was terminal until then.  *)
OneReopeningPerKey ==
    [][/\ \A d \in Deliveries :
            delivery[d].status \in Terminal
              /\ delivery'[d].status \notin Terminal
              => \E k \in Keys : /\ record[k] = NoRecord
                                 /\ record'[k] # NoRecord
                                 /\ d \in record'[k].scheduled
       /\ \A k \in Keys : record'[k] # record[k] =>
            /\ record[k] = NoRecord
            /\ \A d \in record'[k].scheduled :
                 delivery[d].status \in Terminal]_vars

(* A delivery whose target stays active comes to an end, however many      *)
(* workers crash on the way: each crash costs an attempt, and there are    *)
(* only so many.                                                           *)
EveryDeliverySettles ==
    \A d \in Deliveries :
      delivery[d].status \in Waiting \cup {"in-flight"}
        ~> (delivery[d].status \in Terminal \/ ~active[d])

(* The two tables agree, row by row and count by count, and with what was  *)
(* granted: no interleaving of takeovers, late reports, replays and their  *)
(* repetitions makes an attempt appear, vanish or stay open.               *)
AttemptsAccounted == TypeOK /\ AttemptLedger /\ AttemptBudget

(* However a delivery ended, it deserved it: a success is the receiver's,  *)
(* and it is given up only for a final answer or for want of attempts.     *)
OutcomeDeserved == RecordedSuccessIsReal /\ DeadLetterDeserved
=============================================================================
