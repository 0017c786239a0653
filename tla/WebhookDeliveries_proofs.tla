----------------------- MODULE WebhookDeliveries_proofs -----------------------
(***************************************************************************)
(* What holds of WebhookDeliveries for every set of deliveries, workers,   *)
(* requests and keys, and all bounds on attempts, leases, delays and       *)
(* clocks.                                                                 *)
(*                                                                         *)
(* A delivery and its attempts are looked at together: RowOK is what is    *)
(* true of the row and the attempt rows, and there is a lemma for each of  *)
(* the ways the program changes the two.                                   *)
(***************************************************************************)
EXTENDS WebhookDeliveries, SequenceTheorems, FiniteSetTheorems, TLAPS

Row == [status : Terminal \cup Waiting \cup {"absent", "in-flight"},
        count : 0..AttemptLimit, max : 0..AttemptLimit,
        due : Past..MaxRetryDelay, owner : Workers \cup {NoWorker},
        lease : Past..LeaseDuration]

Counted(row) ==
    /\ row \in Row
    /\ row.count <= row.max
    /\ row.status = "absent" => row.count = 0 /\ row.max = 0
    /\ row.status = "pending" => row.count = 0
    /\ row.status \in Terminal \cup {"in-flight", "retry-scheduled"} => row.count > 0
    /\ row.status \in Waiting => row.count < row.max
    /\ row.owner # NoWorker <=> row.status = "in-flight"

Logged(row, s) ==
    /\ s \in Seq(AttemptStatus)
    /\ Len(s) = row.count
    /\ \A n \in 1..row.count :
         s[n] = "in-flight" <=> row.status = "in-flight" /\ n = row.count

Deserved(row, s) ==
    /\ row.status = "succeeded" => s[row.count] = "succeeded"
    /\ row.status = "dead-lettered" =>
         \/ s[row.count] = "fatal"
         \/ /\ s[row.count] \in {"retryable", "lease_expired"}
            /\ row.count = row.max

RowOK(row, s) == Counted(row) /\ Logged(row, s) /\ Deserved(row, s)

\* What is written over one entry leaves the rest of the sequence.
LEMMA Overwritten ==
    ASSUME NEW s \in Seq(AttemptStatus), NEW n \in 1..Len(s), NEW x \in AttemptStatus
    PROVE  /\ [s EXCEPT ![n] = x] \in Seq(AttemptStatus)
           /\ Len([s EXCEPT ![n] = x]) = Len(s)
           /\ \A m \in 1..Len(s) : [s EXCEPT ![n] = x][m] = IF m = n THEN x ELSE s[m]
BY ExceptSeq

\* The row of an attempt that ended: succeeded, due again or given up.
LEMMA SettledOK ==
    ASSUME NEW row, NEW s, RowOK(row, s), row.status = "in-flight",
           NEW outcome \in Outcomes, NEW due \in Past..MaxRetryDelay
    PROVE  RowOK(Settled(row, outcome, due), [s EXCEPT ![row.count] = outcome])
<1> DEFINE new == Settled(row, outcome, due)
           log == [s EXCEPT ![row.count] = outcome]
<1>1. row.count \in 1..Len(s) /\ outcome \in AttemptStatus /\ row \in Row
      /\ s \in Seq(AttemptStatus) /\ Len(s) = row.count /\ row.count <= row.max
  BY DEF RowOK, Counted, Logged, AttemptStatus, Row, Waiting
<1>2. /\ log \in Seq(AttemptStatus) /\ Len(log) = Len(s)
      /\ \A m \in 1..Len(s) : log[m] = IF m = row.count THEN outcome ELSE s[m]
  BY <1>1, Overwritten
<1>3. /\ new \in Row /\ new.count = row.count /\ new.max = row.max
      /\ new.owner = NoWorker
      /\ new.status = IF outcome = "succeeded" THEN "succeeded"
                      ELSE IF outcome = "retryable" /\ row.count < row.max
                      THEN "retry-scheduled" ELSE "dead-lettered"
  <2>1. PICK retry \in BOOLEAN : retry <=> outcome = "retryable" /\ row.count < row.max
    OBVIOUS
  <2>2. PICK st : st = IF outcome = "succeeded" THEN "succeeded"
                       ELSE IF retry THEN "retry-scheduled" ELSE "dead-lettered"
    OBVIOUS
  <2>3. PICK at : at = IF retry THEN due ELSE row.due
    OBVIOUS
  <2>4. new = [row EXCEPT !.status = st, !.due = at, !.owner = NoWorker, !.lease = Past]
    BY <2>1, <2>2, <2>3 DEF Settled
  <2>5. st \in Terminal \cup Waiting /\ at \in Past..MaxRetryDelay
    BY <1>1, <2>2, <2>3 DEF Terminal, Waiting, Row
  <2>6. Past \in Past..LeaseDuration
    BY DeliveryAssumptions DEF Past
  <2>7. new \in Row
    BY <1>1, <2>4, <2>5, <2>6 DEF Row
  <2>8. new.count = row.count /\ new.max = row.max /\ new.owner = NoWorker /\ new.status = st
    BY <1>1, <2>4 DEF Row
  <2> QED
    BY <2>1, <2>2, <2>7, <2>8
<1> HIDE DEF new, log
<1>4. Counted(new)
  BY <1>1, <1>3 DEF Counted, Terminal, Waiting, Row
<1>5. Logged(new, log)
  <2>1. \A n \in 1..row.count : log[n] # "in-flight"
    BY <1>1, <1>2 DEF RowOK, Logged, Outcomes
  <2>2. new.status # "in-flight"
    BY <1>3
  <2> QED
    BY <1>1, <1>2, <1>3, <2>1, <2>2 DEF Logged
<1>6. Deserved(new, log)
  <2>1. log[row.count] = outcome
    BY <1>1, <1>2
  <2> QED
    BY <1>1, <1>3, <2>1 DEF Deserved, Outcomes, Row
<1> QED
  BY <1>4, <1>5, <1>6 DEF RowOK, new, log

\* The row of an attempt whose worker is lost, when there are no more.
LEMMA DeadLetteredOK ==
    ASSUME NEW row, NEW s, RowOK(row, s), row.status = "in-flight", row.count >= row.max
    PROVE  /\ RowOK(DeadLettered(row), [s EXCEPT ![row.count] = "lease_expired"])
           /\ DeadLettered(row).count = row.count /\ DeadLettered(row).max = row.max
<1> DEFINE new == DeadLettered(row)
           log == [s EXCEPT ![row.count] = "lease_expired"]
<1>1. /\ row.count \in 1..Len(s) /\ row \in Row /\ row.count = row.max
      /\ s \in Seq(AttemptStatus) /\ Len(s) = row.count
  BY DEF RowOK, Counted, Logged, Row, Waiting
<1>2. /\ log \in Seq(AttemptStatus) /\ Len(log) = Len(s)
      /\ \A m \in 1..Len(s) : log[m] = IF m = row.count THEN "lease_expired" ELSE s[m]
  <2>1. "lease_expired" \in AttemptStatus
    BY DEF AttemptStatus
  <2> QED
    BY <1>1, <2>1, Overwritten
<1>3. /\ new \in Row /\ new.count = row.count /\ new.max = row.max
      /\ new.owner = NoWorker /\ new.status = "dead-lettered"
  <2>1. Past \in Past..LeaseDuration
    BY DeliveryAssumptions DEF Past
  <2> QED
    BY <1>1, <2>1 DEF DeadLettered, Row, Terminal
<1> HIDE DEF new, log
<1>4. Counted(new)
  BY <1>1, <1>3 DEF Counted, Terminal, Waiting, Row
<1>5. Logged(new, log)
  <2>1. \A n \in 1..row.count : log[n] # "in-flight"
    BY <1>1, <1>2 DEF RowOK, Logged
  <2> QED
    BY <1>1, <1>2, <1>3, <2>1 DEF Logged
<1>6. Deserved(new, log)
  BY <1>1, <1>2, <1>3 DEF Deserved
<1> QED
  BY <1>3, <1>4, <1>5, <1>6 DEF RowOK, new, log

\* A new attempt, after the one before it has ended or was closed.
LEMMA ClaimedOK ==
    ASSUME NEW row, NEW s, NEW w \in Workers, NEW lag \in 0..Lag, Counted(row),
           row.status \in Waiting \cup {"in-flight"}, row.count < row.max,
           s \in Seq(AttemptStatus), Len(s) = row.count,
           \A n \in 1..row.count : s[n] # "in-flight"
    PROVE  /\ RowOK(Claimed(row, w, lag), Append(s, "in-flight"))
           /\ Claimed(row, w, lag).count = row.count + 1
           /\ Claimed(row, w, lag).max = row.max
<1> DEFINE new == Claimed(row, w, lag)
           log == Append(s, "in-flight")
<1> PICK c : c = row.count + 1
  OBVIOUS
<1>1. row \in Row /\ c \in 1..AttemptLimit /\ c <= row.max /\ row.count = c - 1
  BY DeliveryAssumptions DEF Counted, Row
<1>2. /\ log \in Seq(AttemptStatus) /\ Len(log) = c /\ log[c] = "in-flight"
      /\ \A n \in 1..row.count : log[n] = s[n]
  BY AppendProperties DEF AttemptStatus
<1>3. /\ new \in Row /\ new.count = c /\ new.max = row.max
      /\ new.owner = w /\ new.status = "in-flight"
  <2> PICK l : l = LeaseDuration - lag
    OBVIOUS
  <2>1. l \in Past..LeaseDuration
    BY DeliveryAssumptions DEF Past
  <2>2. new = [row EXCEPT !.status = "in-flight", !.count = c, !.owner = w, !.lease = l]
    BY DEF Claimed
  <2>3. c \in 0..AttemptLimit
    BY <1>1
  <2> QED
    BY <1>1, <2>1, <2>2, <2>3 DEF Row
<1> HIDE DEF new, log
<1>4. Counted(new)
  BY <1>1, <1>3, DeliveryAssumptions DEF Counted, Terminal, Waiting, Row
<1>5. Logged(new, log)
  <2>1. ASSUME NEW n \in 1..c PROVE log[n] = "in-flight" <=> n = c
    <3>1. CASE n = c
      BY <1>2, <3>1
    <3>2. CASE n # c
      <4>1. n \in 1..row.count
        BY <1>1, <3>2 DEF Row
      <4> QED
        BY <1>2, <3>2, <4>1
    <3> QED
      BY <3>1, <3>2
  <2> QED
    BY <1>2, <1>3, <2>1 DEF Logged
<1>6. Deserved(new, log)
  BY <1>3 DEF Deserved
<1> QED
  BY <1>1, <1>3, <1>4, <1>5, <1>6 DEF RowOK, new, log

\* A delivery that is over is opened again for one more attempt, or for
\* those it had left.
LEMMA ReopenedOK ==
    ASSUME NEW row, NEW s, NEW due \in Past..MaxRetryDelay, RowOK(row, s),
           row.status \in Terminal, row.count < AttemptLimit
    PROVE  /\ RowOK([Reopened(row) EXCEPT !.due = due], s)
           /\ [Reopened(row) EXCEPT !.due = due].max <= row.max + 1
           /\ [Reopened(row) EXCEPT !.due = due].count = row.count
<1> DEFINE new == [Reopened(row) EXCEPT !.due = due]
<1> PICK m : m = Max2(row.max, row.count + 1)
  OBVIOUS
<1>1. row \in Row /\ row.count <= row.max /\ row.count > 0
  BY DEF RowOK, Counted
<1>2. m \in 0..AttemptLimit /\ row.count < m /\ m <= row.max + 1
  BY <1>1, DeliveryAssumptions DEF Max2, Row
<1>3. /\ new \in Row /\ new.count = row.count /\ new.max = m
      /\ new.owner = NoWorker /\ new.status = "retry-scheduled"
  <2>1. Past \in Past..LeaseDuration
    BY DeliveryAssumptions DEF Past
  <2>2. new = [row EXCEPT !.status = "retry-scheduled", !.max = m, !.owner = NoWorker,
                          !.lease = Past, !.due = due]
    BY DEF Reopened
  <2> QED
    BY <1>1, <1>2, <2>1, <2>2 DEF Row, Waiting
<1> HIDE DEF new
<1>4. Counted(new)
  BY <1>1, <1>2, <1>3 DEF Counted, Terminal, Waiting, Row
<1>5. Logged(new, s)
  BY <1>3 DEF RowOK, Logged, Terminal
<1>6. Deserved(new, s)
  BY <1>3 DEF Deserved
<1> QED
  BY <1>2, <1>3, <1>4, <1>5, <1>6 DEF RowOK, new

\* Instants alone do not matter to a delivery and its attempts.
LEMMA TimedOK ==
    ASSUME NEW row, NEW s, RowOK(row, s), NEW new \in Row,
           new.status = row.status, new.count = row.count, new.max = row.max,
           new.owner = row.owner
    PROVE  RowOK(new, s)
BY DEF RowOK, Counted, Logged, Deserved

-----------------------------------------------------------------------------
(* The invariant of the whole: every delivery is in order with its         *)
(* attempts, a success was answered, a request reopens only what it may,   *)
(* and a maximum is backed by the grants.                                  *)

Grants(d) == {k \in Keys : record[k] # NoRecord /\ d \in record[k].scheduled}

Ledger == \A d \in Deliveries : RowOK(delivery[d], attempts[d])

Acked ==
    /\ \A d \in Deliveries : \A n \in 1..delivery[d].count :
         attempts[d][n] = "succeeded" => n \in acked[d]
    /\ \A w \in Workers :
         worker[w].pc = "settling" /\ worker[w].outcome = "succeeded"
           => worker[w].n \in acked[worker[w].d]

MayReopen ==
    \A q \in Requests : request[q].pc = "read" =>
      \A d \in Deliveries : request[q].seen[d] > 0
        => request[q].seen[d] < AttemptLimit /\ d \in request[q].scope

Granted ==
    \A d \in Deliveries :
      /\ IsFiniteSet(Grants(d))
      /\ delivery[d].max <= MaxAttempts + Cardinality(Grants(d))

IInv == TypeOK /\ Ledger /\ Acked /\ MayReopen /\ Granted

Working == [pc : {"claimed", "sending", "settling"}, d : Deliveries, n : 1..AttemptLimit,
            outcome : Outcomes, beating : BOOLEAN]
Asking == [pc : {"read", "scheduled", "replayed", "refused"}, key : Keys,
           scope : SUBSET Deliveries, seen : [Deliveries -> Nat]]
Record == [scope : SUBSET Deliveries, scheduled : SUBSET Deliveries]

LEMMA Typed ==
    TypeOK <=>
      /\ delivery \in [Deliveries -> Row]
      /\ attempts \in [Deliveries -> Seq(AttemptStatus)]
      /\ active \in [Deliveries -> BOOLEAN]
      /\ worker \in [Workers -> {Idle} \cup Working]
      /\ request \in [Requests -> {NotSent} \cup Asking]
      /\ record \in [Keys -> {NoRecord} \cup Record]
      /\ acked \in [Deliveries -> SUBSET (1..AttemptLimit)]
BY DEF TypeOK, Row, Working, Asking, Record

LEMMA TypedNext ==
    ASSUME delivery' \in [Deliveries -> Row],
           attempts' \in [Deliveries -> Seq(AttemptStatus)],
           active' \in [Deliveries -> BOOLEAN],
           worker' \in [Workers -> {Idle} \cup Working],
           request' \in [Requests -> {NotSent} \cup Asking],
           record' \in [Keys -> {NoRecord} \cup Record],
           acked' \in [Deliveries -> SUBSET (1..AttemptLimit)]
    PROVE  TypeOK'
BY DEF TypeOK, Row, Working, Asking, Record

LEMMA Initially == Init => IInv
<1> SUFFICES ASSUME Init PROVE IInv
  OBVIOUS
<1>1. NoRow \in Row
  BY DeliveryAssumptions DEF NoRow, Row, Past
<1>2. <<>> \in Seq(AttemptStatus) /\ Len(<<>>) = 0
  OBVIOUS
<1>3. RowOK(NoRow, <<>>)
  <2>1. Counted(NoRow)
    BY <1>1 DEF Counted, NoRow, Terminal, Waiting
  <2>2. Logged(NoRow, <<>>) /\ Deserved(NoRow, <<>>)
    BY <1>2 DEF Logged, Deserved, NoRow
  <2> QED
    BY <2>1, <2>2 DEF RowOK
<1>4. TypeOK
  BY <1>1, <1>2, Typed DEF Init
<1>5. Ledger
  BY <1>3 DEF Init, Ledger
<1>6. Acked /\ MayReopen
  BY DEF Init, Acked, MayReopen, NoRow, Idle, NotSent
<1>7. Granted
  <2>1. ASSUME NEW d \in Deliveries PROVE Grants(d) = {}
    BY DEF Init, Grants
  <2> QED
    <3>1. IsFiniteSet({}) /\ Cardinality({}) = 0
      BY FS_EmptySet
    <3>2. ASSUME NEW d \in Deliveries PROVE delivery[d].max = 0
      BY DEF Init, NoRow
    <3> QED
      BY <2>1, <3>1, <3>2, DeliveryAssumptions DEF Granted
<1> QED
  BY <1>4, <1>5, <1>6, <1>7 DEF IInv

\* What a step must keep of the records when it does not touch them.
LEMMA RecordsKept ==
    ASSUME IInv, UNCHANGED record,
           \A d \in Deliveries : delivery'[d].max = delivery[d].max
                                 \/ delivery'[d].max = MaxAttempts,
           delivery' \in [Deliveries -> Row]
    PROVE  Granted'
<1> SUFFICES ASSUME NEW d \in Deliveries
             PROVE  /\ IsFiniteSet(Grants(d))'
                    /\ delivery'[d].max <= MaxAttempts + Cardinality(Grants(d)')
  BY DEF Granted
<1>1. Grants(d)' = Grants(d)
  BY DEF Grants
<1>2. IsFiniteSet(Grants(d)) /\ delivery[d].max <= MaxAttempts + Cardinality(Grants(d))
  BY DEF IInv, Granted
<1>3. Cardinality(Grants(d)) \in Nat /\ delivery'[d].max \in Nat
  BY <1>2, FS_CardinalityType DEF Row
<1> QED
  BY <1>1, <1>2, <1>3, DeliveryAssumptions

\* Three kinds of step: of the workers alone, of the requests alone, and of
\* the deliveries with the workers.
LEMMA WorkersMove ==
    ASSUME IInv, UNCHANGED <<delivery, attempts, active, request, record>>,
           worker' \in [Workers -> {Idle} \cup Working],
           acked' \in [Deliveries -> SUBSET (1..AttemptLimit)],
           \A d \in Deliveries : acked[d] \subseteq acked'[d],
           \A w \in Workers : worker'[w].pc = "settling" /\ worker'[w].outcome = "succeeded"
                                => worker'[w].n \in acked'[worker'[w].d]
    PROVE  IInv'
<1>1. TypeOK'
  BY Typed, TypedNext DEF IInv
<1>2. Ledger' /\ MayReopen'
  BY DEF IInv, Ledger, MayReopen
<1>3. Acked'
  BY DEF IInv, Acked
<1>4. Granted'
  BY DEF IInv, Granted, Grants
<1> QED
  BY <1>1, <1>2, <1>3, <1>4 DEF IInv

LEMMA RequestsMove ==
    ASSUME IInv, UNCHANGED <<delivery, attempts, active, worker, record, acked>>,
           request' \in [Requests -> {NotSent} \cup Asking], MayReopen'
    PROVE  IInv'
<1>1. TypeOK'
  BY Typed, TypedNext DEF IInv
<1>2. Ledger' /\ Acked'
  BY DEF IInv, Ledger, Acked
<1>3. Granted'
  BY DEF IInv, Granted, Grants
<1> QED
  BY <1>1, <1>2, <1>3 DEF IInv

LEMMA DeliveriesMove ==
    ASSUME IInv, UNCHANGED <<active, request, record, acked>>,
           worker' \in [Workers -> {Idle} \cup Working],
           \A w \in Workers : worker'[w].pc = "settling" /\ worker'[w].outcome = "succeeded"
                                => worker[w] = worker'[w],
           delivery' \in [Deliveries -> Row],
           attempts' \in [Deliveries -> Seq(AttemptStatus)],
           \A d \in Deliveries :
             /\ RowOK(delivery'[d], attempts'[d])
             /\ delivery'[d].max = delivery[d].max
             /\ \A n \in 1..delivery'[d].count :
                  attempts'[d][n] = "succeeded" => n \in acked[d]
    PROVE  IInv'
<1>1. TypeOK'
  BY Typed, TypedNext DEF IInv
<1>2. Ledger' /\ MayReopen'
  BY DEF IInv, Ledger, MayReopen
<1>3. Acked'
  BY DEF IInv, Acked
<1>4. Granted'
  BY RecordsKept
<1> QED
  BY <1>1, <1>2, <1>3, <1>4 DEF IInv

\* A new delivery is in order with no attempts.
LEMMA MaterializeKeeps ==
    ASSUME IInv, NEW d \in Deliveries, Materialize(d) PROVE IInv'
<1> PICK lag \in 0..Lag :
      delivery' = [delivery EXCEPT ![d] = [NoRow EXCEPT !.status = "pending",
                                             !.max = MaxAttempts, !.due = -lag]]
  BY DEF Materialize
<1> PICK due : due = -lag
  OBVIOUS
<1> PICK row : row = [NoRow EXCEPT !.status = "pending", !.max = MaxAttempts, !.due = due]
  OBVIOUS
<1>1. UNCHANGED <<attempts, active, worker, request, record, acked>>
      /\ delivery' = [delivery EXCEPT ![d] = row] /\ delivery[d].status = "absent"
  BY DEF Materialize
<1>2. row \in Row /\ row.status = "pending" /\ row.count = 0 /\ row.max = MaxAttempts
      /\ row.owner = NoWorker
  <2>1. due \in Past..MaxRetryDelay /\ Past \in Past..LeaseDuration
    BY DeliveryAssumptions DEF Past
  <2>2. MaxAttempts \in 0..AttemptLimit /\ 0 \in 0..AttemptLimit
    BY DeliveryAssumptions
  <2> QED
    BY <2>1, <2>2 DEF NoRow, Row, Waiting
<1>3. attempts[d] \in Seq(AttemptStatus) /\ Len(attempts[d]) = 0
  BY <1>1 DEF IInv, Ledger, RowOK, Counted, Logged
<1>4. RowOK(row, attempts[d])
  BY <1>2, <1>3, DeliveryAssumptions
     DEF RowOK, Counted, Logged, Deserved, Terminal, Waiting
<1>5. TypeOK'
  BY <1>1, <1>2, Typed, TypedNext DEF IInv
<1>6. Ledger' /\ Acked' /\ MayReopen'
  BY <1>1, <1>2, <1>4, Typed DEF IInv, Ledger, Acked, MayReopen
<1>7. Granted'
  BY <1>1, <1>2, <1>5, RecordsKept, Typed DEF IInv
<1> QED
  BY <1>5, <1>6, <1>7 DEF IInv

\* A worker that is not idle holds a record of its attempt.
LEMMA AtWork ==
    ASSUME TypeOK, NEW w \in Workers, worker[w] # Idle
    PROVE  worker[w] \in Working
BY Typed

LEMMA ResolveKeeps == ASSUME IInv, NEW w \in Workers, Resolve(w) PROVE IInv'
<1>1. worker[w] \in Working /\ worker \in [Workers -> {Idle} \cup Working]
      /\ acked \in [Deliveries -> SUBSET (1..AttemptLimit)]
  BY Typed, AtWork DEF IInv, Resolve, Idle
<1>2. \/ worker' = [worker EXCEPT ![w] = Idle]
      \/ worker' = [worker EXCEPT ![w].pc = "sending"]
      \/ \E outcome \in {"fatal", "retryable"} :
           worker' = [worker EXCEPT ![w].pc = "settling", ![w].outcome = outcome]
  BY DEF Resolve
<1>3. UNCHANGED <<delivery, attempts, active, request, record, acked>>
  BY DEF Resolve
<1>4. \A v \in Workers : worker[v].pc = "settling" /\ worker[v].outcome = "succeeded"
                            => worker[v].n \in acked[worker[v].d]
  BY DEF IInv, Acked
<1>5. CASE worker' = [worker EXCEPT ![w] = Idle]
  BY <1>1, <1>3, <1>4, <1>5, WorkersMove DEF Idle
<1>6. CASE worker' = [worker EXCEPT ![w].pc = "sending"]
  <2>1. worker' \in [Workers -> {Idle} \cup Working] /\ worker'[w].pc = "sending"
    BY <1>1, <1>6 DEF Working
  <2>2. \A v \in Workers : v # w => worker'[v] = worker[v]
    BY <1>1, <1>6
  <2> QED
    BY <1>1, <1>3, <1>4, <2>1, <2>2, WorkersMove
<1>7. CASE \E outcome \in {"fatal", "retryable"} :
             worker' = [worker EXCEPT ![w].pc = "settling", ![w].outcome = outcome]
  <2> PICK outcome \in {"fatal", "retryable"} :
        worker' = [worker EXCEPT ![w].pc = "settling", ![w].outcome = outcome]
    BY <1>7
  <2>1. worker' \in [Workers -> {Idle} \cup Working] /\ worker'[w].outcome = outcome
    BY <1>1 DEF Working, Outcomes
  <2>2. \A v \in Workers : v # w => worker'[v] = worker[v]
    BY <1>1
  <2> QED
    BY <1>1, <1>3, <1>4, <2>1, <2>2, WorkersMove
<1> QED
  BY <1>2, <1>5, <1>6, <1>7

LEMMA SendKeeps == ASSUME IInv, NEW w \in Workers, Send(w) PROVE IInv'
<1>1. worker[w] \in Working /\ worker \in [Workers -> {Idle} \cup Working]
      /\ acked \in [Deliveries -> SUBSET (1..AttemptLimit)]
  BY Typed, AtWork DEF IInv, Send, Idle
<1> PICK outcome \in Outcomes, answered \in BOOLEAN :
      /\ outcome = "succeeded" => answered
      /\ worker' = [worker EXCEPT ![w].pc = "settling", ![w].outcome = outcome]
      /\ acked' = [acked EXCEPT ![worker[w].d] =
           IF answered THEN @ \cup {worker[w].n} ELSE @]
  BY DEF Send
<1> PICK d \in Deliveries, n \in 1..AttemptLimit : d = worker[w].d /\ n = worker[w].n
  BY <1>1 DEF Working
<1> PICK more \in SUBSET (1..AttemptLimit) :
      more = IF answered THEN acked[d] \cup {n} ELSE acked[d]
  BY <1>1
<1>2. UNCHANGED <<delivery, attempts, active, request, record>>
  BY DEF Send
<1>3. acked' = [acked EXCEPT ![d] = more] /\ acked[d] \subseteq more
  BY <1>1
<1>4. acked' \in [Deliveries -> SUBSET (1..AttemptLimit)]
      /\ \A e \in Deliveries : acked[e] \subseteq acked'[e]
  BY <1>1, <1>3
<1>5. worker' \in [Workers -> {Idle} \cup Working] /\ worker'[w].outcome = outcome
      /\ worker'[w].d = d /\ worker'[w].n = n
  BY <1>1 DEF Working
<1>6. ASSUME NEW v \in Workers, worker'[v].pc = "settling", worker'[v].outcome = "succeeded"
      PROVE  worker'[v].n \in acked'[worker'[v].d]
  <2>1. CASE v = w
    BY <1>1, <1>3, <1>5, <1>6, <2>1
  <2>2. CASE v # w
    <3>1. worker'[v] = worker[v]
      BY <1>1, <2>2
    <3>2. worker[v].n \in acked[worker[v].d] /\ worker[v].d \in Deliveries
      <4>1. worker[v].n \in acked[worker[v].d]
        BY <1>6, <3>1 DEF IInv, Acked
      <4>2. worker[v] \in Working
        BY <1>6, <3>1, AtWork DEF IInv, Idle
      <4> QED
        BY <4>1, <4>2 DEF Working
    <3> QED
      BY <1>4, <3>1, <3>2
  <2> QED
    BY <2>1, <2>2
<1> QED
  BY <1>2, <1>4, <1>5, <1>6, WorkersMove

LEMMA CrashKeeps == ASSUME IInv, NEW w \in Workers, Crash(w) PROVE IInv'
<1>1. /\ worker \in [Workers -> {Idle} \cup Working]
      /\ acked \in [Deliveries -> SUBSET (1..AttemptLimit)]
      /\ worker' = [worker EXCEPT ![w] = Idle]
      /\ UNCHANGED <<delivery, attempts, active, request, record, acked>>
  BY Typed DEF IInv, Crash
<1>2. ASSUME NEW v \in Workers, worker'[v].pc = "settling", worker'[v].outcome = "succeeded"
      PROVE  worker'[v].n \in acked'[worker'[v].d]
  BY <1>1, <1>2 DEF IInv, Acked, Idle
<1> QED
  BY <1>1, <1>2, WorkersMove

LEMMA BeatKeeps == ASSUME IInv, NEW w \in Workers, Beat(w) PROVE IInv'
<1>1. /\ worker \in [Workers -> {Idle} \cup Working] /\ worker[w] \in Working
      /\ delivery \in [Deliveries -> Row] /\ attempts \in [Deliveries -> Seq(AttemptStatus)]
      /\ acked \in [Deliveries -> SUBSET (1..AttemptLimit)]
      /\ UNCHANGED <<attempts, active, request, record, acked>>
  BY Typed, AtWork DEF IInv, Beat
<1>2. CASE worker' = [worker EXCEPT ![w].beating = FALSE] /\ UNCHANGED delivery
  <2>1. worker' \in [Workers -> {Idle} \cup Working]
    BY <1>1, <1>2 DEF Working
  <2>2. \A v \in Workers : /\ worker'[v].pc = worker[v].pc \/ v # w
                           /\ v # w => worker'[v] = worker[v]
    BY <1>1, <1>2 DEF Working
  <2>3. /\ worker'[w].pc = worker[w].pc /\ worker'[w].outcome = worker[w].outcome
        /\ worker'[w].d = worker[w].d /\ worker'[w].n = worker[w].n
    BY <1>1, <1>2 DEF Working
  <2>4. ASSUME NEW v \in Workers, worker'[v].pc = "settling", worker'[v].outcome = "succeeded"
        PROVE  worker'[v].n \in acked'[worker'[v].d]
    <3>1. worker[v].pc = "settling" /\ worker[v].outcome = "succeeded"
          /\ worker'[v].n = worker[v].n /\ worker'[v].d = worker[v].d
      BY <2>2, <2>3, <2>4
    <3> QED
      BY <1>1, <3>1 DEF IInv, Acked
  <2> QED
    BY <1>1, <1>2, <2>1, <2>4, WorkersMove
<1>3. CASE \E lag \in 0..Lag :
             /\ Fenced(w, lag)
             /\ delivery' = [delivery EXCEPT ![worker[w].d].lease = LeaseDuration - lag]
             /\ UNCHANGED worker
  <2> PICK lag \in 0..Lag :
        delivery' = [delivery EXCEPT ![worker[w].d].lease = LeaseDuration - lag]
    BY <1>3
  <2> PICK l : l = LeaseDuration - lag
    OBVIOUS
  <2> PICK d \in Deliveries : d = worker[w].d
    BY <1>1 DEF Working
  <2> PICK new : new = [delivery[d] EXCEPT !.lease = l]
    OBVIOUS
  <2>1. l \in Past..LeaseDuration
    BY DeliveryAssumptions DEF Past
  <2>2. /\ new \in Row /\ new.status = delivery[d].status /\ new.count = delivery[d].count
        /\ new.max = delivery[d].max /\ new.owner = delivery[d].owner
    BY <1>1, <2>1 DEF Row
  <2>3. delivery' = [delivery EXCEPT ![d] = new] /\ UNCHANGED worker
    BY <1>3
  <2>4. RowOK(new, attempts[d])
    BY <2>2, TimedOK DEF IInv, Ledger
  <2>5. ASSUME NEW e \in Deliveries
        PROVE  /\ RowOK(delivery'[e], attempts'[e])
               /\ delivery'[e].max = delivery[e].max /\ delivery'[e].count = delivery[e].count
    BY <1>1, <2>2, <2>3, <2>4 DEF IInv, Ledger
  <2>6. \A e \in Deliveries : \A n \in 1..delivery'[e].count :
          attempts'[e][n] = "succeeded" => n \in acked[e]
    BY <1>1, <2>5 DEF IInv, Acked
  <2>7. delivery' \in [Deliveries -> Row] /\ worker' = worker /\ attempts' = attempts
    BY <1>1, <2>2, <2>3
  <2> QED
    BY <1>1, <2>5, <2>6, <2>7, DeliveriesMove
<1>4. \/ worker' = [worker EXCEPT ![w].beating = FALSE] /\ UNCHANGED delivery
      \/ \E lag \in 0..Lag :
             /\ Fenced(w, lag)
             /\ delivery' = [delivery EXCEPT ![worker[w].d].lease = LeaseDuration - lag]
             /\ UNCHANGED worker
  BY DEF Beat
<1> QED
  BY <1>2, <1>3, <1>4

LEMMA TickKeeps == ASSUME IInv, Tick PROVE IInv'
<1>1. /\ worker \in [Workers -> {Idle} \cup Working]
      /\ delivery \in [Deliveries -> Row] /\ attempts \in [Deliveries -> Seq(AttemptStatus)]
      /\ UNCHANGED <<attempts, active, worker, request, record, acked>>
      /\ delivery' = [d \in Deliveries |->
           [delivery[d] EXCEPT !.due = Earlier(@), !.lease = Earlier(@)]]
  BY Typed DEF IInv, Tick
<1>2. ASSUME NEW d \in Deliveries
      PROVE  /\ delivery'[d] \in Row /\ RowOK(delivery'[d], attempts[d])
             /\ delivery'[d].max = delivery[d].max /\ delivery'[d].count = delivery[d].count
  <2> PICK row \in Row : row = delivery[d]
    BY <1>1
  <2> PICK due : due = Earlier(row.due)
    OBVIOUS
  <2> PICK lease : lease = Earlier(row.lease)
    OBVIOUS
  <2> PICK new : new = [row EXCEPT !.due = due, !.lease = lease]
    OBVIOUS
  <2>1. due \in Past..MaxRetryDelay /\ lease \in Past..LeaseDuration
    BY DeliveryAssumptions DEF Row, Earlier, Past
  <2>2. /\ new \in Row /\ new.status = row.status /\ new.count = row.count
        /\ new.max = row.max /\ new.owner = row.owner
    BY <2>1 DEF Row
  <2>3. delivery'[d] = new
    BY <1>1
  <2> QED
    BY <2>2, <2>3, TimedOK DEF IInv, Ledger
<1>3. \A d \in Deliveries : \A n \in 1..delivery'[d].count :
        attempts'[d][n] = "succeeded" => n \in acked[d]
  BY <1>1, <1>2 DEF IInv, Acked
<1>4. delivery' \in [Deliveries -> Row] /\ worker' = worker /\ attempts' = attempts
  BY <1>1, <1>2
<1> QED
  BY <1>1, <1>2, <1>3, <1>4, DeliveriesMove

LEMMA SettleKeeps == ASSUME IInv, NEW w \in Workers, Settle(w) PROVE IInv'
<1> PICK d \in Deliveries, n \in 1..AttemptLimit, outcome \in Outcomes :
      /\ d = worker[w].d /\ n = worker[w].n /\ outcome = worker[w].outcome
  <2>1. worker[w] \in Working
    BY AtWork DEF IInv, Settle, Idle
  <2> QED
    BY <2>1 DEF Working
<1>1. /\ worker \in [Workers -> {Idle} \cup Working] /\ worker[w].pc = "settling"
      /\ delivery \in [Deliveries -> Row] /\ attempts \in [Deliveries -> Seq(AttemptStatus)]
      /\ worker' = [worker EXCEPT ![w] = Idle]
      /\ UNCHANGED <<active, request, record, acked>>
  BY Typed DEF IInv, Settle
<1>2. /\ worker' \in [Workers -> {Idle} \cup Working]
      /\ \A v \in Workers : worker'[v].pc = "settling" /\ worker'[v].outcome = "succeeded"
                             => worker[v] = worker'[v]
  BY <1>1 DEF Idle
<1>3. CASE UNCHANGED <<delivery, attempts>>
  BY <1>1, <1>2, <1>3, DeliveriesMove DEF IInv, Ledger, Acked
<1>4. CASE \E lag \in 0..Lag : /\ Fenced(w, lag)
             /\ attempts' = [attempts EXCEPT ![d][n] = outcome]
             /\ \E delay \in 1..MaxRetryDelay :
                  delivery' = [delivery EXCEPT ![d] = Settled(@, outcome, delay - lag)]
  <2> PICK lag \in 0..Lag, delay \in 1..MaxRetryDelay :
        /\ Fenced(w, lag)
        /\ attempts' = [attempts EXCEPT ![d][n] = outcome]
        /\ delivery' = [delivery EXCEPT ![d] = Settled(@, outcome, delay - lag)]
    BY <1>4
  <2> PICK due : due = delay - lag
    OBVIOUS
  <2> PICK row, s : row = delivery[d] /\ s = attempts[d]
    OBVIOUS
  <2> PICK new, log : new = Settled(row, outcome, due) /\ log = [s EXCEPT ![row.count] = outcome]
    OBVIOUS
  <2>1. due \in Past..MaxRetryDelay
    BY DeliveryAssumptions DEF Past
  <2>2. row.status = "in-flight" /\ row.count = n /\ RowOK(row, s) /\ row \in Row
    BY <1>1 DEF Fenced, IInv, Ledger
  <2>3. RowOK(new, log)
    BY <2>1, <2>2, SettledOK
  <2>4. new \in Row /\ log \in Seq(AttemptStatus)
    BY <2>3 DEF RowOK, Counted, Logged
  <2>5. new.max = row.max /\ new.count = row.count
    BY <2>2 DEF Settled, Row
  <2>6. delivery' = [delivery EXCEPT ![d] = new] /\ attempts' = [attempts EXCEPT ![d] = log]
    BY <2>2
  <2>7. n \in 1..Len(s) /\ s \in Seq(AttemptStatus) /\ outcome \in AttemptStatus
        /\ Len(s) = row.count
    BY <2>2 DEF RowOK, Logged, Row, AttemptStatus
  <2>8. \A m \in 1..Len(s) : log[m] = IF m = n THEN outcome ELSE s[m]
    BY <2>2, <2>7, Overwritten
  <2>9. outcome = "succeeded" => n \in acked[d]
    BY <1>1 DEF IInv, Acked
  <2>10. \A m \in 1..new.count : log[m] = "succeeded" => m \in acked[d]
    BY <2>5, <2>7, <2>8, <2>9 DEF IInv, Acked
  <2>11. ASSUME NEW e \in Deliveries
         PROVE  /\ RowOK(delivery'[e], attempts'[e])
                /\ delivery'[e].max = delivery[e].max
                /\ \A m \in 1..delivery'[e].count :
                     attempts'[e][m] = "succeeded" => m \in acked[e]
    <3>1. CASE e = d
      <4>1. delivery'[e] = new /\ attempts'[e] = log
        BY <1>1, <2>6, <3>1
      <4> QED
        BY <2>3, <2>5, <2>10, <3>1, <4>1
    <3>2. CASE e # d
      <4>1. delivery'[e] = delivery[e] /\ attempts'[e] = attempts[e]
        BY <1>1, <2>6, <3>2
      <4> QED
        BY <4>1 DEF IInv, Ledger, Acked
    <3> QED
      BY <3>1, <3>2
  <2>12. delivery' \in [Deliveries -> Row] /\ attempts' \in [Deliveries -> Seq(AttemptStatus)]
    <3>1. /\ delivery \in [Deliveries -> Row] /\ new \in Row
          /\ delivery' = [delivery EXCEPT ![d] = new]
      BY <1>1, <2>4, <2>6
    <3>2. delivery' \in [Deliveries -> Row]
      BY <3>1
    <3>3. /\ attempts \in [Deliveries -> Seq(AttemptStatus)] /\ log \in Seq(AttemptStatus)
          /\ attempts' = [attempts EXCEPT ![d] = log]
      BY <1>1, <2>4, <2>6
    <3>4. attempts' \in [Deliveries -> Seq(AttemptStatus)]
      BY <3>3
    <3> QED
      BY <3>2, <3>4
  <2> QED
    BY <1>1, <1>2, <2>11, <2>12, DeliveriesMove
<1> QED
  BY <1>3, <1>4 DEF Settle

\* The attempts of a delivery that is claimed, with none of them open.
LEMMA ClosedOK ==
    ASSUME NEW d \in Deliveries, RowOK(delivery[d], attempts[d]),
           delivery[d].status \in Waiting \cup {"in-flight"}
    PROVE  /\ Closed(d) \in Seq(AttemptStatus) /\ Len(Closed(d)) = delivery[d].count
           /\ \A n \in 1..delivery[d].count :
                /\ Closed(d)[n] # "in-flight"
                /\ Closed(d)[n] = "succeeded" => attempts[d][n] = "succeeded"
<1> PICK row, s : row = delivery[d] /\ s = attempts[d]
  OBVIOUS
<1>1. s \in Seq(AttemptStatus) /\ Len(s) = row.count /\ row \in Row
      /\ \A n \in 1..row.count : s[n] = "in-flight"
           <=> row.status = "in-flight" /\ n = row.count
  BY DEF RowOK, Logged, Counted
<1>2. CASE row.status = "in-flight"
  <2>1. row.count \in 1..Len(s) /\ "lease_expired" \in AttemptStatus
    BY <1>1, <1>2 DEF RowOK, Counted, Row, AttemptStatus
  <2>2. Closed(d) = [s EXCEPT ![row.count] = "lease_expired"]
    BY <1>2 DEF Closed
  <2>3. /\ Closed(d) \in Seq(AttemptStatus) /\ Len(Closed(d)) = Len(s)
        /\ \A m \in 1..Len(s) : Closed(d)[m] = IF m = row.count THEN "lease_expired" ELSE s[m]
    BY <1>1, <2>1, <2>2, Overwritten
  <2> QED
    BY <1>1, <2>3
<1>3. CASE row.status # "in-flight"
  BY <1>1, <1>3 DEF Closed
<1> QED
  BY <1>2, <1>3

\* One claim gives up the deliveries in lost, and takes those in taken.
LEMMA ClaimKeeps == ASSUME IInv, NEW w \in Workers, Claim(w) PROVE IInv'
<1> PICK lag \in 0..Lag :
       \E lost \in SUBSET {d \in Candidates(lag) : Exhausted(d)} :
       \E taken \in SUBSET {d \in Candidates(lag) : ~Exhausted(d)} :
         /\ Cardinality(taken) <= 1
         /\ lost \cup taken # {}
         /\ \A d \in lost \cup taken : CanClose(d)
         /\ delivery' = [d \in Deliveries |->
              IF d \in lost THEN DeadLettered(delivery[d])
              ELSE IF d \in taken THEN Claimed(delivery[d], w, lag)
              ELSE delivery[d]]
         /\ attempts' = [d \in Deliveries |->
              IF d \in lost THEN Closed(d)
              ELSE IF d \in taken THEN Append(Closed(d), "in-flight")
              ELSE attempts[d]]
         /\ \/ taken = {} /\ UNCHANGED worker
            \/ \E d \in taken :
                 worker' = [worker EXCEPT ![w] =
                   [pc |-> "claimed", d |-> d, n |-> delivery[d].count + 1,
                    outcome |-> "fatal", beating |-> TRUE]]
  BY DEF Claim
<1> PICK lost \in SUBSET {d \in Candidates(lag) : Exhausted(d)},
         taken \in SUBSET {d \in Candidates(lag) : ~Exhausted(d)} :
      /\ delivery' = [d \in Deliveries |->
           IF d \in lost THEN DeadLettered(delivery[d])
           ELSE IF d \in taken THEN Claimed(delivery[d], w, lag)
           ELSE delivery[d]]
      /\ attempts' = [d \in Deliveries |->
           IF d \in lost THEN Closed(d)
           ELSE IF d \in taken THEN Append(Closed(d), "in-flight")
           ELSE attempts[d]]
      /\ \/ taken = {} /\ UNCHANGED worker
         \/ \E d \in taken :
              worker' = [worker EXCEPT ![w] =
                [pc |-> "claimed", d |-> d, n |-> delivery[d].count + 1,
                 outcome |-> "fatal", beating |-> TRUE]]
  OBVIOUS
<1>1. /\ worker \in [Workers -> {Idle} \cup Working]
      /\ delivery \in [Deliveries -> Row] /\ attempts \in [Deliveries -> Seq(AttemptStatus)]
      /\ UNCHANGED <<active, request, record, acked>>
  BY Typed DEF IInv, Claim
<1>2. ASSUME NEW d \in taken
      PROVE  /\ d \in Deliveries /\ delivery[d].status \in Waiting \cup {"in-flight"}
             /\ delivery[d].count < delivery[d].max /\ RowOK(delivery[d], attempts[d])
  <2>1. /\ d \in Deliveries /\ delivery[d].status \in Waiting \cup {"in-flight"} /\ ~Exhausted(d)
    BY DEF Candidates, DueNow, Expired
  <2>2. RowOK(delivery[d], attempts[d]) /\ delivery[d] \in Row
    BY <1>1, <2>1 DEF IInv, Ledger
  <2> QED
    BY <2>1, <2>2 DEF Exhausted, RowOK, Counted, Row
<1>3. ASSUME NEW d \in lost
      PROVE  /\ d \in Deliveries /\ delivery[d].status = "in-flight"
             /\ delivery[d].count >= delivery[d].max /\ RowOK(delivery[d], attempts[d])
  BY DEF Candidates, Exhausted, IInv, Ledger
<1>4. ASSUME NEW d \in Deliveries
      PROVE  /\ RowOK(delivery'[d], attempts'[d])
             /\ delivery'[d].max = delivery[d].max
             /\ \A n \in 1..delivery'[d].count :
                  attempts'[d][n] = "succeeded" => n \in acked[d]
  <2>1. CASE d \in lost
    <3>1. delivery'[d] = DeadLettered(delivery[d]) /\ attempts'[d] = Closed(d)
      BY <2>1
    <3>2. Closed(d) = [attempts[d] EXCEPT ![delivery[d].count] = "lease_expired"]
      BY <1>3, <2>1 DEF Closed
    <3>3. RowOK(delivery'[d], attempts'[d])
          /\ delivery'[d].max = delivery[d].max /\ delivery'[d].count = delivery[d].count
      <4> PICK row, s : row = delivery[d] /\ s = attempts[d]
        OBVIOUS
      <4>1. row.status = "in-flight" /\ row.count >= row.max /\ RowOK(row, s)
        BY <1>3, <2>1
      <4>2. /\ RowOK(DeadLettered(row), [s EXCEPT ![row.count] = "lease_expired"])
            /\ DeadLettered(row).count = row.count /\ DeadLettered(row).max = row.max
        BY <4>1, DeadLetteredOK
      <4> QED
        BY <3>1, <3>2, <4>2
    <3>5. \A n \in 1..delivery[d].count :
            Closed(d)[n] = "succeeded" => attempts[d][n] = "succeeded"
      BY <1>3, <2>1, ClosedOK
    <3> QED
      BY <3>1, <3>3, <3>5 DEF IInv, Acked
  <2>2. CASE d \in taken /\ d \notin lost
    <3> PICK row, s : row = delivery[d] /\ s = Closed(d)
      OBVIOUS
    <3>1. delivery'[d] = Claimed(row, w, lag) /\ attempts'[d] = Append(s, "in-flight")
      BY <2>2
    <3>2. /\ s \in Seq(AttemptStatus) /\ Len(s) = row.count
          /\ \A n \in 1..row.count :
               s[n] # "in-flight" /\ (s[n] = "succeeded" => attempts[d][n] = "succeeded")
      BY <1>2, <2>2, ClosedOK
    <3>3. RowOK(delivery'[d], attempts'[d])
          /\ delivery'[d].max = row.max /\ delivery'[d].count = row.count + 1
      <4> PICK log, new : log = Append(s, "in-flight") /\ new = Claimed(row, w, lag)
        OBVIOUS
      <4>1. /\ Counted(row) /\ row.status \in Waiting \cup {"in-flight"}
            /\ row.count < row.max
        BY <1>2, <2>2 DEF RowOK
      <4>2. RowOK(new, log) /\ new.max = row.max /\ new.count = row.count + 1
        BY <3>2, <4>1, ClaimedOK
      <4> QED
        BY <3>1, <4>2
    <3>4. row.count \in Nat
      BY <1>2, <2>2 DEF RowOK, Counted, Row
    <3>5. /\ Append(s, "in-flight")[row.count + 1] = "in-flight"
          /\ \A n \in 1..row.count : Append(s, "in-flight")[n] = s[n]
      BY <3>2, AppendProperties DEF AttemptStatus
    <3>6. ASSUME NEW n \in 1..delivery'[d].count, attempts'[d][n] = "succeeded"
          PROVE  n \in acked[d]
      <4>1. n # row.count + 1
        BY <3>1, <3>5, <3>6
      <4>2. n \in 1..row.count
        BY <3>3, <3>4, <4>1
      <4>3. attempts[d][n] = "succeeded"
        BY <3>1, <3>2, <3>5, <3>6, <4>2
      <4> QED
        BY <4>2, <4>3 DEF IInv, Acked
    <3> QED
      BY <3>3, <3>6
  <2>3. CASE d \notin lost /\ d \notin taken
    <3>1. delivery'[d] = delivery[d] /\ attempts'[d] = attempts[d]
      BY <2>3
    <3> QED
      BY <3>1 DEF IInv, Ledger, Acked
  <2> QED
    BY <2>1, <2>2, <2>3
<1>5. delivery' \in [Deliveries -> Row]
  <2>1. \A d \in Deliveries : delivery'[d] \in Row
    BY <1>4 DEF RowOK, Counted
  <2>2. delivery' = [d \in Deliveries |-> delivery'[d]]
    OBVIOUS
  <2> QED
    BY <2>1, <2>2
<1>6. attempts' \in [Deliveries -> Seq(AttemptStatus)]
  <2>1. \A d \in Deliveries : attempts'[d] \in Seq(AttemptStatus)
    BY <1>4 DEF RowOK, Logged
  <2>2. attempts' = [d \in Deliveries |-> attempts'[d]]
    OBVIOUS
  <2> QED
    BY <2>1, <2>2
<1>7. /\ worker' \in [Workers -> {Idle} \cup Working]
      /\ \A v \in Workers : worker'[v].pc = "settling" => worker[v] = worker'[v]
  <2>1. CASE UNCHANGED worker
    BY <1>1, <2>1
  <2>2. CASE \E d \in taken :
               worker' = [worker EXCEPT ![w] =
                 [pc |-> "claimed", d |-> d, n |-> delivery[d].count + 1,
                  outcome |-> "fatal", beating |-> TRUE]]
    <3> PICK d \in taken :
          worker' = [worker EXCEPT ![w] =
            [pc |-> "claimed", d |-> d, n |-> delivery[d].count + 1,
             outcome |-> "fatal", beating |-> TRUE]]
      BY <2>2
    <3> PICK n : n = delivery[d].count + 1
      OBVIOUS
    <3> PICK new : new = [pc |-> "claimed", d |-> d, n |-> n, outcome |-> "fatal", beating |-> TRUE]
      OBVIOUS
    <3>2. d \in Deliveries /\ n \in 1..AttemptLimit
      <4> PICK row : row = delivery[d]
        OBVIOUS
      <4>1. d \in Deliveries /\ row.count < row.max /\ row \in Row
        BY <1>2 DEF RowOK, Counted
      <4> QED
        BY <4>1, DeliveryAssumptions DEF Row
    <3>3. new \in Working /\ new.pc = "claimed"
      BY <3>2 DEF Working, Outcomes
    <3>4. worker' = [worker EXCEPT ![w] = new]
      OBVIOUS
    <3> QED
      BY <1>1, <3>3, <3>4
  <2> QED
    BY <2>1, <2>2
<1> QED
  BY <1>1, <1>4, <1>5, <1>6, <1>7, DeliveriesMove

\* A request that is answered, or starts again, holds nothing to reopen.
LEMMA AnsweredKeeps ==
    ASSUME IInv, NEW q \in Requests, NEW answer \in {NotSent} \cup Asking,
           answer.pc # "read", request' = [request EXCEPT ![q] = answer],
           UNCHANGED <<delivery, attempts, active, worker, record, acked>>
    PROVE  IInv'
<1>1. request \in [Requests -> {NotSent} \cup Asking]
  BY Typed DEF IInv
<1>2. MayReopen'
  BY <1>1 DEF IInv, MayReopen
<1> QED
  BY <1>1, <1>2, RequestsMove

\* An answer from a record is one of the answers a request may hold.
LEMMA FromRecordKeeps ==
    ASSUME IInv, NEW q \in Requests, NEW key \in Keys, NEW scope \in SUBSET Deliveries,
           FromRecord(q, key, scope),
           UNCHANGED <<delivery, attempts, active, worker, record, acked>>
    PROVE  IInv'
<1> PICK pc : pc = IF record[key].scope = scope THEN "replayed" ELSE "refused"
  OBVIOUS
<1> PICK seen : seen = [d \in Deliveries |-> 0]
  OBVIOUS
<1> PICK answer : answer = [pc |-> pc, key |-> key, scope |-> scope, seen |-> seen]
  OBVIOUS
<1>1. request' = [request EXCEPT ![q] = answer]
  BY DEF FromRecord
<1>2. seen \in [Deliveries -> Nat] /\ pc \in {"replayed", "refused"}
  OBVIOUS
<1>3. answer \in Asking /\ answer.pc # "read"
  BY <1>2 DEF Asking
<1> QED
  BY <1>1, <1>3, AnsweredKeeps

LEMMA ReadForReplayKeeps == ASSUME IInv, NEW q \in Requests, ReadForReplay(q) PROVE IInv'
<1> PICK key \in Keys, scope \in Scopes :
      \/ record[key] # NoRecord /\ FromRecord(q, key, scope)
      \/ request' = [request EXCEPT ![q] =
            [pc |-> IF \E d \in scope : Eligible(d) THEN "read" ELSE "refused",
             key |-> key, scope |-> scope,
             seen |-> [d \in Deliveries |->
               IF d \in scope /\ Eligible(d) THEN delivery[d].count ELSE 0]]]
  BY DEF ReadForReplay
<1>1. UNCHANGED <<delivery, attempts, active, worker, record, acked>>
  BY DEF ReadForReplay
<1>2. scope \in SUBSET Deliveries
  BY DEF Scopes, Created
<1>3. CASE FromRecord(q, key, scope)
  BY <1>1, <1>2, <1>3, FromRecordKeeps
<1>4. CASE request' = [request EXCEPT ![q] =
            [pc |-> IF \E d \in scope : Eligible(d) THEN "read" ELSE "refused",
             key |-> key, scope |-> scope,
             seen |-> [d \in Deliveries |->
               IF d \in scope /\ Eligible(d) THEN delivery[d].count ELSE 0]]]
  <2> PICK pc : pc = IF \E d \in scope : Eligible(d) THEN "read" ELSE "refused"
    OBVIOUS
  <2> PICK seen : seen = [d \in Deliveries |->
                    IF d \in scope /\ Eligible(d) THEN delivery[d].count ELSE 0]
    OBVIOUS
  <2> PICK new : new = [pc |-> pc, key |-> key, scope |-> scope, seen |-> seen]
    OBVIOUS
  <2>1. request' = [request EXCEPT ![q] = new]
    BY <1>4
  <2>2. request \in [Requests -> {NotSent} \cup Asking] /\ delivery \in [Deliveries -> Row]
    BY Typed DEF IInv
  <2>3. seen \in [Deliveries -> Nat] /\ pc \in {"read", "refused"}
    <3>1. \A d \in Deliveries : delivery[d].count \in Nat
      BY <2>2, DeliveryAssumptions DEF Row
    <3> QED
      BY <3>1
  <2>4. new \in Asking
    BY <1>2, <2>3 DEF Asking
  <2>5. \A d \in Deliveries : seen[d] > 0 => seen[d] < AttemptLimit /\ d \in scope
    BY DEF Eligible
  <2>6. new.seen = seen /\ new.scope = scope
    OBVIOUS
  <2>7. MayReopen'
    <3> SUFFICES ASSUME NEW r \in Requests, request'[r].pc = "read", NEW d \in Deliveries,
                        request'[r].seen[d] > 0
                 PROVE  request'[r].seen[d] < AttemptLimit /\ d \in request'[r].scope
      BY DEF MayReopen
    <3>1. CASE r = q
      BY <2>1, <2>2, <2>5, <2>6, <3>1
    <3>2. CASE r # q
      <4>1. request'[r] = request[r]
        BY <2>1, <2>2, <3>2
      <4> QED
        BY <4>1 DEF IInv, MayReopen
    <3> QED
      BY <3>1, <3>2
  <2>8. request' \in [Requests -> {NotSent} \cup Asking]
    BY <2>1, <2>2, <2>4
  <2> QED
    BY <1>1, <2>7, <2>8, RequestsMove
<1> QED
  BY <1>3, <1>4

LEMMA LoseRaceKeeps == ASSUME IInv, NEW q \in Requests, LoseRace(q) PROVE IInv'
<1>1. UNCHANGED <<delivery, attempts, active, worker, record, acked>>
  BY DEF LoseRace
<1>2. request[q] \in Asking
  BY Typed DEF IInv, LoseRace, NotSent
<1>3. CASE FromRecord(q, request[q].key, request[q].scope)
  <2>1. request[q].key \in Keys /\ request[q].scope \in SUBSET Deliveries
    BY <1>2 DEF Asking
  <2> QED
    BY <1>1, <1>3, <2>1, FromRecordKeeps
<1>4. CASE \E next \in {NotSent, [request[q] EXCEPT !.pc = "refused"]} :
             request' = [request EXCEPT ![q] = next]
  <2> PICK refused : refused = [request[q] EXCEPT !.pc = "refused"]
    OBVIOUS
  <2> PICK next \in {NotSent, refused} : request' = [request EXCEPT ![q] = next]
    BY <1>4
  <2>1. refused \in Asking /\ refused.pc = "refused"
    BY <1>2 DEF Asking
  <2>2. NotSent.pc = "new"
    BY DEF NotSent
  <2> QED
    BY <1>1, <2>1, <2>2, AnsweredKeeps
<1> QED
  BY <1>3, <1>4 DEF LoseRace

\* The commit of a replay: what it reopens was terminal and below the limit,
\* and one new grant backs one more attempt of each.
LEMMA CommitReplayKeeps == ASSUME IInv, NEW q \in Requests, CommitReplay(q) PROVE IInv'
<1> PICK lag \in 0..Lag :
      delivery' = [d \in Deliveries |->
        IF d \in Scheduled(q) THEN [Reopened(delivery[d]) EXCEPT !.due = 1 - lag]
        ELSE delivery[d]]
  BY DEF CommitReplay
<1> PICK due : due = 1 - lag
  OBVIOUS
<1> PICK reopened : reopened = Scheduled(q)
  OBVIOUS
<1> PICK key : key = request[q].key
  OBVIOUS
<1> PICK new : new = [scope |-> request[q].scope, scheduled |-> reopened]
  OBVIOUS
<1>1. /\ record' = [record EXCEPT ![key] = new]
      /\ request' = [request EXCEPT ![q].pc = "scheduled"]
      /\ UNCHANGED <<attempts, active, worker, acked>>
      /\ request[q].pc = "read" /\ record[key] = NoRecord
      /\ delivery' = [d \in Deliveries |->
           IF d \in reopened THEN [Reopened(delivery[d]) EXCEPT !.due = due]
           ELSE delivery[d]]
  BY DEF CommitReplay
<1>2. /\ delivery \in [Deliveries -> Row] /\ record \in [Keys -> {NoRecord} \cup Record]
      /\ request \in [Requests -> {NotSent} \cup Asking]
      /\ attempts \in [Deliveries -> Seq(AttemptStatus)]
  BY Typed DEF IInv
<1>3. request[q] \in Asking
  BY <1>1, <1>2 DEF NotSent
<1>4. key \in Keys /\ reopened \in SUBSET Deliveries /\ new \in Record /\ new # NoRecord
  <2>1. request[q].scope \in SUBSET Deliveries /\ key \in Keys
    BY <1>3 DEF Asking
  <2>2. reopened \in SUBSET Deliveries
    BY <2>1 DEF Scheduled
  <2>3. new \in Record
    BY <2>1, <2>2 DEF Record
  <2> QED
    BY <2>1, <2>2, <2>3, DeliveryAssumptions DEF Record
<1>5. due \in Past..MaxRetryDelay
  BY DeliveryAssumptions DEF Past
<1>6. ASSUME NEW d \in reopened
      PROVE  /\ delivery[d].status \in Terminal /\ delivery[d].count < AttemptLimit
             /\ RowOK(delivery[d], attempts[d])
  <2>1. d \in Deliveries /\ request[q].seen[d] > 0
        /\ delivery[d].status \in Terminal /\ delivery[d].count = request[q].seen[d]
    BY <1>4 DEF CommitReplay, SnapshotHolds, Scheduled
  <2>2. request[q].seen[d] < AttemptLimit
    BY <1>1, <2>1 DEF IInv, MayReopen
  <2> QED
    BY <2>1, <2>2 DEF IInv, Ledger
<1>7. ASSUME NEW d \in Deliveries
      PROVE  /\ RowOK(delivery'[d], attempts[d]) /\ delivery'[d].count = delivery[d].count
             /\ d \in reopened => delivery'[d].max <= delivery[d].max + 1
             /\ d \notin reopened => delivery'[d].max = delivery[d].max
  <2>1. CASE d \in reopened
    <3>1. delivery'[d] = [Reopened(delivery[d]) EXCEPT !.due = due]
      BY <1>1, <2>1
    <3>2. RowOK(delivery'[d], attempts[d]) /\ delivery'[d].max <= delivery[d].max + 1
          /\ delivery'[d].count = delivery[d].count
      BY <1>5, <1>6, <2>1, <3>1, ReopenedOK
    <3> QED
      BY <2>1, <3>2
  <2>2. CASE d \notin reopened
    <3>1. delivery'[d] = delivery[d]
      BY <1>1, <2>2
    <3> QED
      BY <2>2, <3>1 DEF IInv, Ledger
  <2> QED
    BY <2>1, <2>2
<1>8. delivery' \in [Deliveries -> Row]
  <2>1. \A d \in Deliveries : delivery'[d] \in Row
    BY <1>7 DEF RowOK, Counted
  <2>2. delivery' = [d \in Deliveries |-> delivery'[d]]
    BY <1>1
  <2> QED
    BY <2>1, <2>2
<1>9. request' \in [Requests -> {NotSent} \cup Asking] /\ request'[q].pc = "scheduled"
  <2>1. [request[q] EXCEPT !.pc = "scheduled"] \in Asking
    BY <1>3 DEF Asking
  <2>2. request' = [request EXCEPT ![q] = [request[q] EXCEPT !.pc = "scheduled"]]
    BY <1>1
  <2> QED
    BY <1>2, <1>3, <2>1, <2>2 DEF Asking
<1>10. TypeOK'
  BY <1>1, <1>2, <1>4, <1>8, <1>9, Typed, TypedNext DEF IInv
<1>11. Ledger'
  BY <1>1, <1>7 DEF Ledger
<1>12. Acked'
  BY <1>1, <1>7 DEF IInv, Acked
<1>13. MayReopen'
  BY <1>1, <1>2, <1>9 DEF IInv, MayReopen
<1>14. Granted'
  <2> SUFFICES ASSUME NEW d \in Deliveries
               PROVE  /\ IsFiniteSet(Grants(d)')
                      /\ delivery'[d].max <= MaxAttempts + Cardinality(Grants(d)')
    BY DEF Granted
  <2>1. /\ IsFiniteSet(Grants(d)) /\ delivery[d].max <= MaxAttempts + Cardinality(Grants(d))
        /\ Cardinality(Grants(d)) \in Nat /\ delivery[d].max \in Nat
        /\ delivery'[d].max \in Nat
    BY <1>2, <1>8, FS_CardinalityType DEF IInv, Granted, Row
  <2>2. key \notin Grants(d)
    BY <1>1 DEF Grants
  <2>3. \A k \in Keys : k # key => record'[k] = record[k]
    BY <1>1, <1>2
  <2>4. record'[key] = new /\ new.scheduled = reopened
    BY <1>1, <1>2, <1>4
  <2>5. CASE d \in reopened
    <3> PICK old, more : old = Grants(d) /\ more = old \cup {key}
      OBVIOUS
    <3>1. Grants(d)' = more
      BY <1>4, <2>3, <2>4, <2>5 DEF Grants
    <3>2. IsFiniteSet(more) /\ Cardinality(more) = Cardinality(old) + 1
      BY <2>1, <2>2, FS_AddElement
    <3>3. delivery'[d].max <= MaxAttempts + Cardinality(more)
      <4> PICK m, n, c : m = delivery[d].max /\ n = delivery'[d].max /\ c = Cardinality(old)
        OBVIOUS
      <4>1. m \in Nat /\ n \in Nat /\ c \in Nat /\ m <= MaxAttempts + c
        BY <2>1
      <4>2. n <= m + 1
        BY <1>7, <2>5
      <4>3. n <= MaxAttempts + (c + 1)
        BY <4>1, <4>2, DeliveryAssumptions
      <4> QED
        BY <3>2, <4>3
    <3> QED
      BY <3>1, <3>2, <3>3
  <2>6. CASE d \notin reopened
    <3>1. Grants(d)' = Grants(d)
      BY <1>1, <1>4, <2>3, <2>4, <2>6 DEF Grants
    <3> QED
      BY <1>7, <2>1, <2>6, <3>1
  <2> QED
    BY <2>5, <2>6
<1> QED
  BY <1>10, <1>11, <1>12, <1>13, <1>14 DEF IInv

LEMMA SetTargetKeeps == ASSUME IInv, NEW d \in Deliveries, SetTarget(d) PROVE IInv'
<1>1. /\ active' = [active EXCEPT ![d] = ~@]
      /\ UNCHANGED <<delivery, attempts, worker, request, record, acked>>
  BY DEF SetTarget
<1>2. active' \in [Deliveries -> BOOLEAN]
  BY <1>1, Typed DEF IInv
<1>3. TypeOK'
  BY <1>1, <1>2, Typed, TypedNext DEF IInv
<1> QED
  BY <1>1, <1>3 DEF IInv, Ledger, Acked, MayReopen, Granted, Grants

LEMMA StutterKeeps == ASSUME IInv, UNCHANGED vars PROVE IInv'
<1>1. TypeOK'
  BY Typed, TypedNext DEF IInv, vars
<1> QED
  BY <1>1 DEF IInv, vars, Ledger, Acked, MayReopen, Granted, Grants

LEMMA Invariance == Spec => []IInv
<1>1. ASSUME IInv, [Next]_vars PROVE IInv'
  <2>1. CASE \E d \in Deliveries : Materialize(d) \/ SetTarget(d)
    BY <1>1, <2>1, MaterializeKeeps, SetTargetKeeps
  <2>2. CASE \E w \in Workers : WorkerStep(w) \/ Beat(w) \/ Crash(w)
    BY <1>1, <2>2, ClaimKeeps, ResolveKeeps, SendKeeps, SettleKeeps, BeatKeeps, CrashKeeps
       DEF WorkerStep
  <2>3. CASE \E q \in Requests : ReplayStep(q)
    BY <1>1, <2>3, ReadForReplayKeeps, CommitReplayKeeps, LoseRaceKeeps DEF ReplayStep
  <2>4. CASE Tick
    BY <1>1, <2>4, TickKeeps
  <2>5. CASE UNCHANGED vars
    BY <1>1, <2>5, StutterKeeps
  <2> QED
    BY <1>1, <2>1, <2>2, <2>3, <2>4, <2>5 DEF Next
<1> QED
  BY <1>1, Initially, PTL DEF Spec

\* For every number of deliveries, workers and replays, the rows and their
\* attempts agree, and no more attempts are made than were granted.
THEOREM Accounts == Spec => []AttemptsAccounted
<1>1. ASSUME IInv PROVE AttemptsAccounted
  <2>1. AttemptLedger
    <3> SUFFICES ASSUME NEW d \in Deliveries
                 PROVE  LET row == delivery[d]
                        IN /\ Len(attempts[d]) = row.count
                           /\ \A n \in 1..row.count :
                                attempts[d][n] = "in-flight"
                                  <=> row.status = "in-flight" /\ n = row.count
                           /\ row.count <= row.max
                           /\ row.status = "pending" => row.count = 0
                           /\ row.status \in Terminal \cup {"in-flight", "retry-scheduled"}
                                => row.count > 0
                           /\ row.status = "retry-scheduled" => row.count < row.max
                           /\ row.owner # NoWorker <=> row.status = "in-flight"
      BY DEF AttemptLedger
    <3>1. Counted(delivery[d]) /\ Logged(delivery[d], attempts[d])
      BY <1>1 DEF IInv, Ledger, RowOK
    <3> QED
      BY <3>1 DEF Counted, Logged, Waiting
  <2>2. AttemptBudget
    <3> SUFFICES ASSUME NEW d \in Deliveries
                 PROVE  delivery[d].count <= MaxAttempts + Cardinality(Grants(d))
      BY DEF AttemptBudget, Grants
    <3> PICK c : c = Cardinality(Grants(d))
      OBVIOUS
    <3>1. delivery[d].count <= delivery[d].max /\ delivery[d] \in Row
      BY <1>1 DEF IInv, Ledger, RowOK, Counted
    <3>2. delivery[d].max <= MaxAttempts + c /\ c \in Nat
      BY <1>1, FS_CardinalityType DEF IInv, Granted
    <3>3. delivery[d].count \in Nat /\ delivery[d].max \in Nat
      BY <3>1 DEF Row
    <3> QED
      BY <3>1, <3>2, <3>3, DeliveryAssumptions
  <2> QED
    BY <1>1, <2>1, <2>2 DEF AttemptsAccounted, IInv
<1> QED
  BY <1>1, Invariance, PTL

\* However its workers die and overtake one another, what a delivery is said
\* to have come to is what its attempts and the receiver show.
THEOREM Deserves == Spec => []OutcomeDeserved
<1>1. ASSUME IInv PROVE OutcomeDeserved
  <2>1. ASSUME NEW d \in Deliveries
        PROVE  /\ Logged(delivery[d], attempts[d]) /\ Deserved(delivery[d], attempts[d])
               /\ delivery[d] \in Row /\ attempts[d] \in Seq(AttemptStatus)
    BY <1>1 DEF IInv, Ledger, RowOK, Counted, Logged
  <2>2. ASSUME NEW d \in Deliveries PROVE DOMAIN attempts[d] = 1..delivery[d].count
    BY <2>1 DEF Logged
  <2>3. RecordedSuccessIsReal
    BY <1>1, <2>1, <2>2 DEF RecordedSuccessIsReal, IInv, Acked, Deserved
  <2>4. DeadLetterDeserved
    BY <2>1 DEF DeadLetterDeserved, Deserved
  <2> QED
    BY <2>3, <2>4 DEF OutcomeDeserved
<1> QED
  BY <1>1, Invariance, PTL

-----------------------------------------------------------------------------
(* What one step may do to a delivery, by the kind of step.                *)

LEMMA ClaimSteps ==
    ASSUME IInv, NEW w \in Workers, Claim(w), NEW d \in Deliveries,
           delivery'[d] # delivery[d]
    PROVE  /\ delivery[d].status \in Waiting \cup {"in-flight"}
           /\ delivery[d].status = "in-flight" => delivery[d].lease <= 0
<1> PICK lag \in 0..Lag :
       \E lost \in SUBSET {e \in Candidates(lag) : Exhausted(e)} :
       \E taken \in SUBSET {e \in Candidates(lag) : ~Exhausted(e)} :
         /\ Cardinality(taken) <= 1
         /\ lost \cup taken # {}
         /\ \A e \in lost \cup taken : CanClose(e)
         /\ delivery' = [e \in Deliveries |->
              IF e \in lost THEN DeadLettered(delivery[e])
              ELSE IF e \in taken THEN Claimed(delivery[e], w, lag)
              ELSE delivery[e]]
         /\ attempts' = [e \in Deliveries |->
              IF e \in lost THEN Closed(e)
              ELSE IF e \in taken THEN Append(Closed(e), "in-flight")
              ELSE attempts[e]]
         /\ \/ taken = {} /\ UNCHANGED worker
            \/ \E e \in taken :
                 worker' = [worker EXCEPT ![w] =
                   [pc |-> "claimed", d |-> e, n |-> delivery[e].count + 1,
                    outcome |-> "fatal", beating |-> TRUE]]
  BY DEF Claim
<1>1. d \in Candidates(lag)
  OBVIOUS
<1>2. delivery[d].lease \in Int
  <2>1. delivery[d] \in Row
    BY Typed DEF IInv
  <2> QED
    BY <2>1, DeliveryAssumptions DEF Row, Past
<1>3. DueNow(d, lag) \/ Expired(d, lag)
  BY <1>1 DEF Candidates
<1> QED
  BY <1>2, <1>3, DeliveryAssumptions DEF DueNow, Expired, Waiting

LEMMA SettleSteps ==
    ASSUME IInv, NEW w \in Workers, Settle(w), NEW d \in Deliveries,
           delivery'[d] # delivery[d]
    PROVE  /\ delivery[d].status = "in-flight" /\ delivery[d].owner = w
           /\ worker[w].pc = "settling" /\ worker[w].d = d
           /\ worker[w].n = delivery[d].count /\ worker'[w] = Idle
<1>1. delivery \in [Deliveries -> Row] /\ worker \in [Workers -> {Idle} \cup Working]
  BY Typed DEF IInv
<1>2. worker[w].pc = "settling" /\ worker' = [worker EXCEPT ![w] = Idle]
  BY DEF Settle
<1>3. \E lag \in 0..Lag : Fenced(w, lag)
  BY DEF Settle
<1>4. \E new : delivery' = [delivery EXCEPT ![worker[w].d] = new]
  BY <1>3 DEF Settle
<1>5. worker[w].d = d
  BY <1>1, <1>4
<1> QED
  BY <1>1, <1>2, <1>3, <1>5 DEF Fenced

LEMMA BeatSteps ==
    ASSUME IInv, NEW w \in Workers, Beat(w), NEW d \in Deliveries
    PROVE  /\ delivery'[d].status = delivery[d].status
           /\ delivery'[d].count = delivery[d].count
           /\ delivery'[d].owner = delivery[d].owner
<1>1. delivery \in [Deliveries -> Row]
  BY Typed DEF IInv
<1>2. CASE UNCHANGED delivery
  BY <1>2
<1>3. CASE \E l : delivery' = [delivery EXCEPT ![worker[w].d].lease = l]
  BY <1>1, <1>3 DEF Row
<1> QED
  BY <1>2, <1>3 DEF Beat

LEMMA TickSteps ==
    ASSUME IInv, Tick, NEW d \in Deliveries
    PROVE  /\ delivery'[d].status = delivery[d].status
           /\ delivery'[d].count = delivery[d].count
           /\ delivery'[d].owner = delivery[d].owner
<1>1. delivery \in [Deliveries -> Row]
  BY Typed DEF IInv
<1>2. \E due, lease : delivery'[d] = [delivery[d] EXCEPT !.due = due, !.lease = lease]
  BY DEF Tick
<1> QED
  BY <1>1, <1>2 DEF Row

LEMMA MaterializeSteps ==
    ASSUME IInv, NEW e \in Deliveries, Materialize(e), NEW d \in Deliveries,
           delivery'[d] # delivery[d]
    PROVE  delivery[d].status = "absent"
<1>1. delivery \in [Deliveries -> Row] /\ delivery[e].status = "absent"
  BY Typed DEF IInv, Materialize
<1>2. \E new : delivery' = [delivery EXCEPT ![e] = new]
  BY DEF Materialize
<1> QED
  BY <1>1, <1>2

LEMMA CommitReplaySteps ==
    ASSUME IInv, NEW q \in Requests, CommitReplay(q)
    PROVE  /\ \A d \in Deliveries : delivery'[d] # delivery[d]
                => d \in Scheduled(q) /\ delivery[d].status \in Terminal
           /\ \A d \in Scheduled(q) : delivery[d].status \in Terminal
           /\ request[q].key \in Keys /\ record[request[q].key] = NoRecord
           /\ record'[request[q].key] # NoRecord
           /\ record'[request[q].key].scheduled = Scheduled(q)
           /\ \A k \in Keys : k # request[q].key => record'[k] = record[k]
<1> PICK key, new : key = request[q].key
                    /\ new = [scope |-> request[q].scope, scheduled |-> Scheduled(q)]
  OBVIOUS
<1>1. request[q] \in Asking /\ record \in [Keys -> {NoRecord} \cup Record]
  BY Typed DEF IInv, CommitReplay, NotSent
<1>2. key \in Keys /\ record[key] = NoRecord /\ record' = [record EXCEPT ![key] = new]
  BY <1>1 DEF CommitReplay, Asking
<1>3. request[q].scope \in SUBSET Deliveries /\ Scheduled(q) \in SUBSET Deliveries
  BY <1>1 DEF Scheduled, Asking
<1>4. new # NoRecord /\ new.scheduled = Scheduled(q)
  BY <1>3, DeliveryAssumptions
<1>5. \A d \in Scheduled(q) : delivery[d].status \in Terminal
  BY DEF CommitReplay, SnapshotHolds
<1>6. \A d \in Deliveries : d \notin Scheduled(q) => delivery'[d] = delivery[d]
  BY DEF CommitReplay
<1> QED
  BY <1>1, <1>2, <1>4, <1>5, <1>6

-----------------------------------------------------------------------------
HonouredStep ==
    \A d \in Deliveries :
      LET row == delivery[d]
      IN row.status = "in-flight" /\ row.lease > 0 /\ row # delivery'[d]
           => \/ /\ delivery'[d].status = "in-flight"
                 /\ delivery'[d].count = row.count
                 /\ delivery'[d].owner = row.owner
              \/ LET w == row.owner
                 IN /\ worker[w].pc = "settling"
                    /\ worker[w].d = d /\ worker[w].n = row.count
                    /\ worker'[w] = Idle

\* A lease that is not over by the present time is honoured, for all
\* workers, with clocks up to Lag behind.
THEOREM Honours == Spec => LeaseHonoured
<1>1. ASSUME IInv, [Next]_vars PROVE [HonouredStep]_vars
  <2> SUFFICES ASSUME NEW d \in Deliveries, delivery[d].status = "in-flight",
                      delivery[d].lease > 0, delivery[d] # delivery'[d]
               PROVE  \/ /\ delivery'[d].status = "in-flight"
                         /\ delivery'[d].count = delivery[d].count
                         /\ delivery'[d].owner = delivery[d].owner
                      \/ LET w == delivery[d].owner
                         IN /\ worker[w].pc = "settling"
                            /\ worker[w].d = d /\ worker[w].n = delivery[d].count
                            /\ worker'[w] = Idle
    BY DEF HonouredStep
  <2>1. CASE \E e \in Deliveries : Materialize(e)
    BY <1>1, <2>1, MaterializeSteps
  <2>2. CASE \E w \in Workers : Claim(w)
    <3>1. delivery[d].lease <= 0
      BY <1>1, <2>2, ClaimSteps
    <3>2. delivery[d].lease \in Int
      <4>1. delivery[d] \in Row
        BY <1>1, Typed DEF IInv
      <4> QED
        BY <4>1, DeliveryAssumptions DEF Row, Past
    <3> QED
      BY <3>1, <3>2
  <2>3. CASE \E w \in Workers : Settle(w)
    BY <1>1, <2>3, SettleSteps
  <2>4. CASE \E w \in Workers : Beat(w)
    BY <1>1, <2>4, BeatSteps
  <2>5. CASE \E q \in Requests : CommitReplay(q)
    BY <1>1, <2>5, CommitReplaySteps DEF Terminal
  <2>6. CASE Tick
    BY <1>1, <2>6, TickSteps
  <2>7. CASE UNCHANGED delivery
    BY <2>7
  <2> QED
    BY <1>1, <2>1, <2>2, <2>3, <2>4, <2>5, <2>6, <2>7
       DEF Next, WorkerStep, ReplayStep, vars, Resolve, Send, Crash, ReadForReplay,
           LoseRace, SetTarget
<1> QED
  BY <1>1, Invariance, PTL DEF Spec, LeaseHonoured, HonouredStep

ReopeningStep ==
    /\ \A d \in Deliveries :
         delivery[d].status \in Terminal /\ delivery'[d].status \notin Terminal
           => \E k \in Keys : /\ record[k] = NoRecord
                              /\ record'[k] # NoRecord
                              /\ d \in record'[k].scheduled
    /\ \A k \in Keys : record'[k] # record[k] =>
         /\ record[k] = NoRecord
         /\ \A d \in record'[k].scheduled : delivery[d].status \in Terminal

\* One key reopens a delivery once, for all requests that carry it.
THEOREM ReopensOnce == Spec => OneReopeningPerKey
<1>1. ASSUME IInv, [Next]_vars PROVE [ReopeningStep]_vars
  <2>1. CASE \E q \in Requests : CommitReplay(q)
    BY <1>1, <2>1, CommitReplaySteps DEF ReopeningStep
  <2>2. CASE UNCHANGED record
    <3> SUFFICES ASSUME NEW d \in Deliveries, delivery[d].status \in Terminal,
                        delivery'[d].status \notin Terminal, ~(\E q \in Requests : CommitReplay(q))
                 PROVE  FALSE
      BY <2>1, <2>2 DEF ReopeningStep
    <3>1. CASE \E e \in Deliveries : Materialize(e)
      BY <1>1, <3>1, MaterializeSteps DEF Terminal
    <3>2. CASE \E w \in Workers : Claim(w)
      BY <1>1, <3>2, ClaimSteps DEF Terminal, Waiting
    <3>3. CASE \E w \in Workers : Settle(w)
      BY <1>1, <3>3, SettleSteps DEF Terminal
    <3>4. CASE \E w \in Workers : Beat(w)
      BY <1>1, <3>4, BeatSteps
    <3>5. CASE Tick
      BY <1>1, <3>5, TickSteps
    <3>6. CASE UNCHANGED delivery
      BY <3>6
    <3> QED
      BY <1>1, <3>1, <3>2, <3>3, <3>4, <3>5, <3>6
         DEF Next, WorkerStep, ReplayStep, vars, Resolve, Send, Crash, ReadForReplay,
             LoseRace, SetTarget
  <2> QED
    BY <1>1, <2>1, <2>2
       DEF Next, WorkerStep, ReplayStep, vars, Materialize, Claim, Resolve, Send, Settle,
           Beat, Crash, ReadForReplay, LoseRace, SetTarget, Tick
<1> QED
  BY <1>1, Invariance, PTL DEF Spec, OneReopeningPerKey, ReopeningStep
=============================================================================
