------------------------- MODULE SecretRotation_proofs -------------------------
(***************************************************************************)
(* What holds of SecretRotation for all workers, requests and keys, every  *)
(* time to live, overlap and lag, and every bound on versions and time.    *)
(***************************************************************************)
EXTENDS SecretRotation, TLAPS

\* What has become of a secret is what its status says.
SecretsKept ==
    \A v \in Secrets :
      /\ secret[v].status = "active" => secret[v].payload
      /\ secret[v].status = "retired" /\ ~secret[v].payload
           => secret[v].usableUntil <= now
      /\ secret[v].status = "revoked" => endpoint.status = "revoked"

\* A captured secret is there, and if it was replaced since it was captured
\* it stays usable for the overlap, less what the clock may have been behind.
Captures ==
    \A w \in Workers : worker[w] # Idle =>
      /\ worker[w].at <= now
      /\ worker[w].version \in Secrets
      /\ secret[worker[w].version].status = "retired"
           => worker[w].at + Overlap <= secret[worker[w].version].usableUntil + Lag

IInv ==
    /\ TypeOK /\ OneActiveSecret /\ EnvelopeOnlyStaged /\ OnlyLatestStaged
    /\ OneStagePerKey /\ SecretsKept /\ Captures

-----------------------------------------------------------------------------
(* What a row is.                                                          *)

LEMMA SecretIs ==
  ASSUME TypeOK, NEW v \in Secrets
  PROVE /\ v \in Versions
        /\ secret[v] \in Secret
        /\ secret[v].status \in {"active", "retired", "revoked"}
        /\ secret[v].usableUntil \in Nat
        /\ secret[v].payload \in BOOLEAN
BY DEF TypeOK, Secrets, Secret

LEMMA RotationIs ==
  ASSUME TypeOK, NEW v \in Rotations
  PROVE /\ v \in Versions
        /\ rotation[v] \in Rotation
        /\ rotation[v].status \in {"staged", "activated", "cancelled", "expired"}
        /\ rotation[v].previous \in Versions
BY DEF TypeOK, Rotations, Rotation

\* A rotation closed is the same one, without its envelope.
LEMMA ClosedIs ==
  ASSUME NEW row \in Rotation, NEW status \in {"activated", "cancelled", "expired"}
  PROVE /\ Closed(row, status) \in Rotation
        /\ Closed(row, status) # NoRotation
        /\ Closed(row, status).status = status
        /\ Closed(row, status).envelope = FALSE
        /\ Closed(row, status).key = row.key
<1>1. Closed(row, status) = [row EXCEPT !.status = status, !.envelope = FALSE]
  BY DEF Closed
<1>2. Closed(row, status) \in Rotation
  BY <1>1 DEF Rotation
<1> QED
  BY <1>1, <1>2, AbsenceAssumption DEF Rotation

-----------------------------------------------------------------------------
(* The steps that leave every row alone.                                   *)

LEMMA RowsKept ==
  ASSUME IInv, TypeOK', UNCHANGED <<endpoint, secret, rotation>>,
         now <= now', Captures'
  PROVE IInv'
<1> USE DEF IInv
<1>1. /\ Secrets' = Secrets /\ Rotations' = Rotations
      /\ Active' = Active /\ Staged' = Staged
  BY DEF Secrets, Rotations, Active, Staged
<1>2. SecretsKept'
  <2>1. now \in Nat /\ now' \in Nat
    BY DEF TypeOK, Times
  <2> QED
    BY <1>1, <2>1, SecretIs DEF SecretsKept
<1>3. OneActiveSecret'
  BY <1>1 DEF OneActiveSecret
<1>4. EnvelopeOnlyStaged'
  BY <1>1 DEF EnvelopeOnlyStaged
<1>5. OnlyLatestStaged' /\ OneStagePerKey'
  BY <1>1 DEF OnlyLatestStaged, OneStagePerKey
<1> QED
  BY <1>2, <1>3, <1>4, <1>5

\* The captures are judged by the secrets and the clock.
LEMMA CapturesKept ==
  ASSUME IInv, UNCHANGED <<secret, worker>>, TypeOK', now <= now'
  PROVE Captures'
<1>1. now \in Nat /\ now' \in Nat
  BY DEF IInv, TypeOK, Times
<1>2. Secrets' = Secrets
  BY DEF Secrets
<1>3. \A w \in Workers : worker[w] # Idle => worker[w].at \in Nat
  BY DEF IInv, TypeOK, Times
<1> QED
  BY <1>1, <1>2, <1>3 DEF IInv, Captures

LEMMA StutterKeeps == IInv /\ UNCHANGED vars => IInv'
<1> SUFFICES ASSUME IInv, UNCHANGED vars PROVE IInv'
  OBVIOUS
<1>1. TypeOK' /\ now <= now'
  BY DEF IInv, TypeOK, Times, vars
<1>2. Captures'
  BY <1>1, CapturesKept DEF vars
<1> QED
  BY <1>1, <1>2, RowsKept DEF vars

LEMMA TickKeeps == IInv /\ Tick => IInv'
<1> SUFFICES ASSUME IInv, Tick PROVE IInv'
  OBVIOUS
<1>1. TypeOK' /\ now <= now'
  BY RotationAssumptions DEF IInv, TypeOK, Times, Tick
<1>2. Captures'
  BY <1>1, CapturesKept DEF Tick
<1> QED
  BY <1>1, <1>2, RowsKept DEF Tick

LEMMA LookKeeps == ASSUME IInv, NEW r \in Requests, Look(r) PROVE IInv'
<1>1. TypeOK'
  <2>1. PICK p \in Active, v \in 2..(MaxVersion + 1) :
          /\ Active = {p} /\ IsNext(v)
          /\ request' = [request EXCEPT ![r] =
               [base |-> endpoint, previous |-> p, version |-> v, at |-> now]]
    BY DEF Look
  <2>2. p \in Versions
    BY DEF Active, Secrets
  <2>3. [base |-> endpoint, previous |-> p, version |-> v, at |-> now] \in Draft
    BY <2>2 DEF IInv, TypeOK, Draft
  <2>4. request' \in [Requests -> {Idle} \cup Draft]
    BY <2>1, <2>3 DEF IInv, TypeOK
  <2> QED
    BY <2>4 DEF IInv, TypeOK, Look
<1>2. now <= now'
  BY DEF IInv, TypeOK, Times, Look
<1>3. Captures'
  BY <1>1, <1>2, CapturesKept DEF Look
<1> QED
  BY <1>1, <1>2, <1>3, RowsKept DEF Look

LEMMA CaptureKeeps == ASSUME IInv, NEW w \in Workers, Capture(w) PROVE IInv'
<1>1. PICK v \in Active :
        /\ Active = {v}
        /\ worker' = [worker EXCEPT ![w] = [version |-> v, at |-> now]]
  BY DEF Capture
<1>2. v \in Secrets /\ v \in Versions /\ secret[v].status = "active"
  BY DEF Active, Secrets
<1>3. TypeOK'
  <2>1. [version |-> v, at |-> now] \in [version : Versions, at : Times]
    BY <1>2 DEF IInv, TypeOK
  <2>2. worker' \in [Workers -> {Idle} \cup [version : Versions, at : Times]]
    BY <1>1, <2>1 DEF IInv, TypeOK
  <2> QED
    BY <2>2 DEF IInv, TypeOK, Capture
<1>4. now \in Nat /\ now <= now' /\ Secrets' = Secrets
  BY DEF IInv, TypeOK, Times, Capture, Secrets
<1>5. Captures'
  <2> SUFFICES ASSUME NEW x \in Workers, worker'[x] # Idle
               PROVE /\ worker'[x].at <= now
                     /\ worker'[x].version \in Secrets
                     /\ secret[worker'[x].version].status = "retired"
                          => worker'[x].at + Overlap
                               <= secret[worker'[x].version].usableUntil + Lag
    BY <1>4 DEF Captures, Capture
  <2>1. CASE x = w
    <3>1. worker'[w] = [version |-> v, at |-> now]
      BY <1>1 DEF IInv, TypeOK
    <3> QED
      BY <2>1, <3>1, <1>2, <1>4
  <2>2. CASE x # w
    <3>1. worker'[x] = worker[x]
      BY <2>2, <1>1 DEF IInv, TypeOK
    <3> QED
      BY <3>1 DEF IInv, Captures
  <2> QED
    BY <2>1, <2>2
<1> QED
  BY <1>3, <1>4, <1>5, RowsKept DEF Capture

LEMMA OpenKeeps == ASSUME IInv, NEW w \in Workers, Open(w) PROVE IInv'
<1>1. TypeOK' /\ now <= now' /\ Secrets' = Secrets
  BY DEF IInv, TypeOK, Times, Open, Secrets
<1>2. Captures'
  <2> SUFFICES ASSUME NEW x \in Workers, worker'[x] # Idle
               PROVE worker'[x] = worker[x]
    BY <1>1 DEF IInv, Captures, Open
  <2> QED
    BY DEF IInv, TypeOK, Open
<1> QED
  BY <1>1, <1>2, RowsKept DEF Open

-----------------------------------------------------------------------------
(* A rotation is staged, or closed without becoming a secret.              *)

\* Rows of rotations that are closed, and nothing else about any row.
LEMMA ClosingKeeps ==
  ASSUME IInv, TypeOK', now' = now, UNCHANGED endpoint, Secrets' = Secrets,
         NEW closed \in SUBSET Staged,
         \A v \in Versions \ closed : rotation'[v] = rotation[v],
         \A v \in closed : /\ rotation'[v] # NoRotation
                           /\ rotation'[v].status \in {"cancelled", "expired"}
                           /\ rotation'[v].envelope = FALSE
                           /\ rotation'[v].key = rotation[v].key
  PROVE EnvelopeOnlyStaged' /\ OnlyLatestStaged' /\ OneStagePerKey'
<1>1. Rotations' = Rotations
  BY DEF Rotations, Staged
<1>2. Staged' = Staged \ closed
  BY <1>1 DEF Staged, Rotations
<1>3. \A v \in Rotations : rotation'[v].key = rotation[v].key
  BY DEF Rotations
<1>4. EnvelopeOnlyStaged'
  <2> SUFFICES ASSUME NEW v \in Rotations
               PROVE /\ rotation'[v].envelope <=> v \in Staged'
                     /\ v \in Secrets <=> rotation'[v].status = "activated"
    BY <1>1 DEF EnvelopeOnlyStaged
  <2>1. CASE v \in closed
    <3>1. v \notin Secrets
      BY <2>1 DEF IInv, EnvelopeOnlyStaged, Staged
    <3> QED
      BY <2>1, <3>1, <1>2
  <2>2. CASE v \notin closed
    <3>1. rotation'[v] = rotation[v]
      BY <2>2 DEF Rotations
    <3> QED
      BY <2>2, <3>1, <1>2 DEF IInv, EnvelopeOnlyStaged
  <2> QED
    BY <2>1, <2>2
<1>5. OnlyLatestStaged'
  BY <1>1, <1>2 DEF IInv, OnlyLatestStaged
<1>6. OneStagePerKey'
  BY <1>1, <1>3 DEF IInv, OneStagePerKey
<1> QED
  BY <1>4, <1>5, <1>6

LEMMA CancelKeeps == ASSUME IInv, NEW v \in Versions, Cancel(v) PROVE IInv'
<1>1. PICK t \in ClockReading :
        /\ CancelAnswer(v, t) \in {"cancelled", "expired"}
        /\ rotation' = Canceled(v, CancelAnswer(v, t))
  BY DEF Cancel
<1>2. PICK status \in {"cancelled", "expired"} : status = CancelAnswer(v, t)
  BY <1>1
<1>3. v \in Rotations /\ rotation[v] \in Rotation /\ v \in Staged
  <2>1. v \in Rotations
    BY DEF Cancel
  <2>2. /\ rotation[v] \in Rotation
        /\ rotation[v].status \in {"staged", "activated", "cancelled", "expired"}
    BY <2>1, RotationIs DEF IInv
  <2>3. rotation[v].status = "staged"
    BY <1>1, <2>2 DEF CancelAnswer
  <2> QED
    BY <2>1, <2>2, <2>3 DEF Staged
<1>4. PICK row : row = [Closed(rotation[v], status) EXCEPT !.canceled = TRUE]
  OBVIOUS
<1>5. rotation' = [rotation EXCEPT ![v] = row]
  BY <1>1, <1>2, <1>4 DEF Canceled
<1>6. /\ row \in Rotation /\ row # NoRotation
      /\ row.status = status /\ row.envelope = FALSE
      /\ row.key = rotation[v].key
  <2>1. PICK base : base = Closed(rotation[v], status)
    OBVIOUS
  <2>2. PICK held \in Rotation : held = rotation[v]
    BY <1>3
  <2>3. /\ base \in Rotation /\ base.status = status /\ base.envelope = FALSE
        /\ base.key = held.key
    <3>1. status \in {"activated", "cancelled", "expired"}
      BY <1>2
    <3>2. base = Closed(held, status)
      BY <2>1, <2>2
    <3> QED
      BY <3>1, <3>2, ClosedIs
  <2>4. row = [base EXCEPT !.canceled = TRUE]
    BY <1>4, <2>1
  <2>5. row \in Rotation
    BY <2>3, <2>4 DEF Rotation
  <2> QED
    BY <2>2, <2>3, <2>4, <2>5, AbsenceAssumption DEF Rotation
<1>7. TypeOK'
  BY <1>5, <1>6 DEF IInv, TypeOK, Cancel
<1>8. \A u \in Versions : rotation'[u] = IF u = v THEN row ELSE rotation[u]
  BY <1>5 DEF IInv, TypeOK
<1>9. /\ now' = now /\ UNCHANGED <<endpoint, secret, worker>>
      /\ Secrets' = Secrets /\ Active' = Active
  BY DEF Cancel, Secrets, Active
<1>10. EnvelopeOnlyStaged' /\ OnlyLatestStaged' /\ OneStagePerKey'
  <2>1. {v} \in SUBSET Staged
    BY <1>3
  <2>2. \A u \in Versions \ {v} : rotation'[u] = rotation[u]
    BY <1>8
  <2>3. \A u \in {v} : /\ rotation'[u] # NoRotation
                       /\ rotation'[u].status \in {"cancelled", "expired"}
                       /\ rotation'[u].envelope = FALSE
                       /\ rotation'[u].key = rotation[u].key
    BY <1>6, <1>8
  <2> QED
    BY <1>7, <1>9, <2>1, <2>2, <2>3, ClosingKeeps
<1>11. OneActiveSecret' /\ SecretsKept'
  BY <1>9 DEF IInv, OneActiveSecret, SecretsKept
<1>12. Captures'
  BY <1>9 DEF IInv, Captures
<1> QED
  BY <1>7, <1>10, <1>11, <1>12 DEF IInv

\* What a hygiene run, and a stage, do to the rotations they find overdue.
LEMMA ExpiredIs ==
  ASSUME IInv, NEW v \in Staged
  PROVE /\ v \in Versions
        /\ Closed(rotation[v], "expired") \in Rotation
        /\ Closed(rotation[v], "expired") # NoRotation
        /\ Closed(rotation[v], "expired").status = "expired"
        /\ Closed(rotation[v], "expired").envelope = FALSE
        /\ Closed(rotation[v], "expired").key = rotation[v].key
<1>1. v \in Versions /\ rotation[v] \in Rotation
  BY RotationIs DEF IInv, Staged
<1> QED
  BY <1>1, ClosedIs

LEMMA HygieneKeeps == ASSUME IInv, Hygiene PROVE IInv'
<1>1. PICK t \in ClockReading :
       \E overdue \in SUBSET Overdue(t), over \in SUBSET Over(t) :
         /\ overdue = {} => Overdue(t) = {}
         /\ over = {} => Over(t) = {}
         /\ Overdue(t) \cup Over(t) # {}
         /\ rotation' = [v \in Versions |->
              IF v \in overdue THEN Closed(rotation[v], "expired")
              ELSE rotation[v]]
         /\ secret' = [v \in Versions |->
              IF v \in over THEN [secret[v] EXCEPT !.payload = FALSE]
              ELSE secret[v]]
  BY DEF Hygiene
<1>2. PICK overdue \in SUBSET Overdue(t), over \in SUBSET Over(t) :
         /\ rotation' = [v \in Versions |->
              IF v \in overdue THEN Closed(rotation[v], "expired")
              ELSE rotation[v]]
         /\ secret' = [v \in Versions |->
              IF v \in over THEN [secret[v] EXCEPT !.payload = FALSE]
              ELSE secret[v]]
  BY <1>1
<1>3. overdue \in SUBSET Staged
  BY DEF Overdue
<1>4. t \in Nat /\ t <= now /\ now \in Nat
  BY DEF ClockReading, Times, IInv, TypeOK
<1>5. \A v \in over : /\ v \in Secrets /\ v \in Versions
                      /\ \/ secret[v].status = "retired" /\ secret[v].usableUntil <= t
                         \/ secret[v].status = "revoked"
  BY DEF Over, Secrets
<1>6. \A v \in over : /\ secret'[v] \in Secret /\ secret'[v] # NoSecret
                      /\ secret'[v].status = secret[v].status
                      /\ secret'[v].usableUntil = secret[v].usableUntil
  <2> SUFFICES ASSUME NEW v \in over
               PROVE /\ secret'[v] \in Secret /\ secret'[v] # NoSecret
                     /\ secret'[v].status = secret[v].status
                     /\ secret'[v].usableUntil = secret[v].usableUntil
    OBVIOUS
  <2>1. secret[v] \in Secret /\ v \in Versions
    BY <1>5, SecretIs DEF IInv
  <2>2. secret'[v] = [secret[v] EXCEPT !.payload = FALSE]
    BY <1>2, <2>1
  <2>3. secret'[v] \in Secret
    BY <2>1, <2>2 DEF Secret
  <2> QED
    BY <2>1, <2>2, <2>3, AbsenceAssumption DEF Secret
<1>7. \A v \in Versions \ over : secret'[v] = secret[v]
  BY <1>2
<1>8. \A v \in overdue : rotation'[v] = Closed(rotation[v], "expired")
  BY <1>2, <1>3, ExpiredIs
<1>9. \A v \in Versions \ overdue : rotation'[v] = rotation[v]
  BY <1>2
<1>10. TypeOK'
  <2>1. \A v \in Versions : secret'[v] \in {NoSecret} \cup Secret
    BY <1>6, <1>7 DEF IInv, TypeOK
  <2>2. \A v \in Versions : rotation'[v] \in {NoRotation} \cup Rotation
    BY <1>3, <1>8, <1>9, ExpiredIs DEF IInv, TypeOK
  <2>3. secret' \in [Versions -> {NoSecret} \cup Secret]
    BY <1>2, <2>1
  <2>4. rotation' \in [Versions -> {NoRotation} \cup Rotation]
    BY <1>2, <2>2
  <2> QED
    BY <2>3, <2>4 DEF IInv, TypeOK, Hygiene
<1>11. /\ now' = now /\ UNCHANGED <<endpoint, worker>>
  BY DEF Hygiene
<1>12. Secrets' = Secrets
  BY <1>5, <1>6, <1>7 DEF Secrets
<1>13. \A v \in Secrets : /\ secret'[v].status = secret[v].status
                          /\ secret'[v].usableUntil = secret[v].usableUntil
  BY <1>6, <1>7 DEF Secrets
<1>14. Active' = Active
  BY <1>12, <1>13 DEF Active
<1>15. EnvelopeOnlyStaged' /\ OnlyLatestStaged' /\ OneStagePerKey'
  <2>1. \A v \in overdue : /\ rotation'[v] # NoRotation
                           /\ rotation'[v].status \in {"cancelled", "expired"}
                           /\ rotation'[v].envelope = FALSE
                           /\ rotation'[v].key = rotation[v].key
    BY <1>3, <1>8, ExpiredIs
  <2> QED
    BY <1>3, <1>9, <1>10, <1>11, <1>12, <2>1, ClosingKeeps
<1>16. OneActiveSecret'
  BY <1>11, <1>14 DEF IInv, OneActiveSecret
<1>17. SecretsKept'
  <2> SUFFICES ASSUME NEW v \in Secrets
               PROVE /\ secret'[v].status = "active" => secret'[v].payload
                     /\ secret'[v].status = "retired" /\ ~secret'[v].payload
                          => secret'[v].usableUntil <= now
                     /\ secret'[v].status = "revoked" => endpoint.status = "revoked"
    BY <1>11, <1>12 DEF SecretsKept
  <2>1. v \in Versions /\ secret[v].usableUntil \in Nat
    BY SecretIs DEF IInv
  <2>2. CASE v \in over
    <3>1. secret[v].status = "retired" => secret[v].usableUntil <= now
      BY <2>1, <2>2, <1>4, <1>5
    <3>2. secret[v].status = "revoked" => endpoint.status = "revoked"
      BY DEF IInv, SecretsKept
    <3> QED
      BY <2>2, <3>1, <3>2, <1>5, <1>13
  <2>3. CASE v \notin over
    <3>1. secret'[v] = secret[v]
      BY <2>1, <2>3, <1>7
    <3> QED
      BY <3>1 DEF IInv, SecretsKept
  <2> QED
    BY <2>2, <2>3
<1>18. Captures'
  BY <1>11, <1>12, <1>13 DEF IInv, Captures
<1> QED
  BY <1>10, <1>15, <1>16, <1>17, <1>18 DEF IInv

\* A stage opens its candidate behind every version there is, and only when
\* no other is open that it does not close itself.
LEMMA StagedKeeps ==
  ASSUME IInv, NEW r \in Requests, NEW k \in Keys, request[r] \in Draft,
         CanStage(r, k),
         rotation' = [v \in Versions |->
                   IF v = request[r].version THEN Candidate(r, k)
                   ELSE IF v \in Overdue(request[r].at)
                   THEN Closed(rotation[v], "expired") ELSE rotation[v]],
         UNCHANGED secret
  PROVE /\ rotation' \in [Versions -> {NoRotation} \cup Rotation]
        /\ EnvelopeOnlyStaged' /\ OnlyLatestStaged' /\ OneStagePerKey'
<1>1. PICK n \in Versions : n = request[r].version
  BY DEF CanStage
<1>2. PICK row : row = Candidate(r, k)
  OBVIOUS
<1>3. /\ row \in Rotation /\ row # NoRotation
      /\ row.status = "staged" /\ row.envelope = TRUE /\ row.key = k
  <2>1. PICK draft \in Draft : draft = request[r]
    OBVIOUS
  <2>2. row = [status |-> "staged", previous |-> draft.previous,
               base |-> draft.base, key |-> k, createdAt |-> draft.at,
               expiresAt |-> draft.at + StageTtl,
               envelope |-> TRUE, canceled |-> FALSE]
    BY <1>2, <2>1 DEF Candidate
  <2>3. draft.previous \in Versions /\ draft.base \in Endpoint /\ draft.at \in Times
    BY DEF Draft
  <2>4. PICK e \in Nat : e = draft.at + StageTtl
    BY <2>3, RotationAssumptions DEF Times
  <2>5. row \in Rotation
    BY <2>2, <2>3, <2>4 DEF Rotation
  <2> QED
    BY <2>2, <2>5, AbsenceAssumption
<1>4. PICK overdue \in SUBSET Staged : overdue = Overdue(request[r].at)
  BY DEF Overdue
<1>5. Staged = overdue /\ ~KnownKey(k) /\ IsNext(n)
  BY <1>1, <1>4 DEF CanStage
<1>6. n \notin Rotations /\ n \notin Secrets /\ n \notin Staged
  <2>1. \A u \in Secrets \cup Rotations : u < n /\ u \in Nat
    BY <1>5 DEF IsNext, Secrets, Rotations, Versions
  <2> QED
    BY <2>1 DEF Staged
<1>7. /\ rotation'[n] = row
      /\ \A v \in overdue : rotation'[v] = Closed(rotation[v], "expired")
      /\ \A v \in Versions \ (overdue \cup {n}) : rotation'[v] = rotation[v]
  <2>1. \A v \in overdue : v # n /\ v \in Versions
    BY <1>4, <1>6 DEF Staged, Rotations
  <2> QED
    BY <1>1, <1>2, <1>4, <2>1
<1>8. rotation' \in [Versions -> {NoRotation} \cup Rotation]
  <2>1. \A v \in overdue : rotation'[v] \in Rotation
    BY <1>4, <1>7, ExpiredIs
  <2>2. \A v \in Versions \ (overdue \cup {n}) :
          rotation'[v] \in {NoRotation} \cup Rotation
    BY <1>7 DEF IInv, TypeOK
  <2>3. \A v \in Versions : rotation'[v] \in {NoRotation} \cup Rotation
    BY <1>3, <1>7, <2>1, <2>2
  <2> QED
    BY <2>3
<1>9. Rotations' = Rotations \cup {n}
  <2>1. \A v \in overdue : rotation'[v] # NoRotation /\ v \in Rotations
    BY <1>4, <1>7, ExpiredIs DEF Staged
  <2>2. \A v \in Versions \ (overdue \cup {n}) : rotation'[v] = rotation[v]
    BY <1>7
  <2> QED
    BY <1>1, <1>3, <1>7, <2>1, <2>2 DEF Rotations
<1>10. Staged' = {n}
  <2>1. \A v \in Rotations : v # n => rotation'[v].status # "staged"
    <3> SUFFICES ASSUME NEW v \in Rotations, v # n
                 PROVE rotation'[v].status # "staged"
      OBVIOUS
    <3>1. CASE v \in overdue
      BY <1>4, <1>7, <3>1, ExpiredIs
    <3>2. CASE v \notin overdue
      <4>1. rotation'[v] = rotation[v]
        BY <1>7, <3>2 DEF Rotations
      <4> QED
        BY <1>5, <3>2, <4>1 DEF Staged
    <3> QED
      BY <3>1, <3>2
  <2> QED
    BY <1>3, <1>7, <1>9, <2>1 DEF Staged
<1>11. Secrets' = Secrets
  BY DEF Secrets
<1>12. EnvelopeOnlyStaged'
  <2> SUFFICES ASSUME NEW v \in Rotations \cup {n}
               PROVE /\ rotation'[v].envelope <=> v = n
                     /\ v \in Secrets <=> rotation'[v].status = "activated"
    BY <1>9, <1>10, <1>11 DEF EnvelopeOnlyStaged
  <2>1. CASE v = n
    BY <1>3, <1>6, <1>7, <2>1
  <2>2. CASE v \in overdue
    <3>1. v # n /\ v \notin Secrets
      BY <1>4, <1>6, <2>2 DEF IInv, EnvelopeOnlyStaged, Staged
    <3> QED
      BY <1>4, <1>7, <2>2, <3>1, ExpiredIs
  <2>3. CASE v # n /\ v \notin overdue
    <3>1. v \in Rotations /\ rotation'[v] = rotation[v]
      BY <1>7, <2>3 DEF Rotations
    <3> QED
      BY <1>5, <2>3, <3>1 DEF IInv, EnvelopeOnlyStaged
  <2> QED
    BY <2>1, <2>2, <2>3
<1>13. OnlyLatestStaged'
  <2>1. \A u \in Rotations : u < n /\ u \in Nat
    BY <1>5 DEF IsNext, Rotations, Versions
  <2>2. n \in Nat
    BY DEF Versions
  <2>3. \A u \in Rotations \cup {n} : u <= n
    BY <2>1, <2>2
  <2> QED
    BY <1>9, <1>10, <2>3 DEF OnlyLatestStaged
<1>14. OneStagePerKey'
  <2>1. \A v \in Rotations : rotation'[v].key = rotation[v].key /\ v # n
    <3> SUFFICES ASSUME NEW v \in Rotations
                 PROVE rotation'[v].key = rotation[v].key /\ v # n
      OBVIOUS
    <3>1. v # n /\ v \in Versions
      BY <1>6 DEF Rotations
    <3>2. CASE v \in overdue
      BY <1>4, <1>7, <3>1, <3>2, ExpiredIs
    <3>3. CASE v \notin overdue
      BY <1>7, <3>1, <3>3
    <3> QED
      BY <3>1, <3>2, <3>3
  <2>2. \A v \in Rotations : rotation[v].key # k
    BY <1>5 DEF KnownKey
  <2> QED
    BY <1>3, <1>7, <1>9, <2>1, <2>2 DEF IInv, OneStagePerKey
<1> QED
  BY <1>8, <1>12, <1>13, <1>14

LEMMA StageKeeps == ASSUME IInv, NEW r \in Requests, Stage(r) PROVE IInv'
<1>1. request[r] \in Draft
  BY DEF IInv, TypeOK, Stage
<1>2. PICK k \in Keys :
         rotation' =
           IF CanStage(r, k)
           THEN [v \in Versions |->
                   IF v = request[r].version THEN Candidate(r, k)
                   ELSE IF v \in Overdue(request[r].at)
                   THEN Closed(rotation[v], "expired") ELSE rotation[v]]
           ELSE rotation
  BY DEF Stage
<1>3. /\ request' \in [Requests -> {Idle} \cup Draft]
      /\ now' = now /\ now <= now' /\ UNCHANGED <<endpoint, secret, worker>>
      /\ Secrets' = Secrets /\ Active' = Active
  BY DEF IInv, TypeOK, Times, Stage, Secrets, Active
<1>4. CASE CanStage(r, k)
  <2>1. /\ rotation' \in [Versions -> {NoRotation} \cup Rotation]
        /\ EnvelopeOnlyStaged' /\ OnlyLatestStaged' /\ OneStagePerKey'
    BY <1>1, <1>2, <1>3, <1>4, StagedKeeps
  <2>2. TypeOK'
    BY <1>3, <2>1 DEF IInv, TypeOK
  <2>3. OneActiveSecret' /\ SecretsKept' /\ Captures'
    BY <1>3 DEF IInv, OneActiveSecret, SecretsKept, Captures
  <2> QED
    BY <2>1, <2>2, <2>3 DEF IInv
<1>5. CASE ~CanStage(r, k)
  <2>1. rotation' = rotation
    BY <1>2, <1>5
  <2>2. TypeOK'
    BY <1>3, <2>1 DEF IInv, TypeOK
  <2>3. Captures'
    BY <1>3 DEF IInv, Captures
  <2> QED
    BY <1>3, <2>1, <2>2, <2>3, RowsKept
<1> QED
  BY <1>4, <1>5

-----------------------------------------------------------------------------
(* The secret to sign with changes.                                        *)

LEMMA ActivateKeeps == ASSUME IInv, NEW v \in Versions, Activate(v) PROVE IInv'
<1>1. PICK t \in ClockReading :
        /\ Activatable(v, t)
        /\ secret' = CutOver(v, t)
        /\ endpoint' = [endpoint EXCEPT !.updatedAt = t]
  BY DEF Activate
<1>2. /\ t \in Times /\ t \in Nat /\ now \in Nat
      /\ t <= now /\ now <= t + Lag
  BY DEF ClockReading, Times, IInv, TypeOK
<1>3. v \in Staged /\ v \in Rotations /\ rotation[v] \in Rotation
  BY <1>1, RotationIs DEF Activatable, Staged, IInv
<1>4. PICK p \in Versions : p = rotation[v].previous
  BY <1>3, RotationIs DEF IInv
<1>5. Active = {p} /\ p \in Secrets /\ secret[p] \in Secret /\ secret[p].status = "active"
  BY <1>1, <1>4, SecretIs DEF Activatable, Active, IInv
<1>6. v \notin Secrets
  <2>1. \A u \in Secrets : u < v /\ u \in Nat
    BY <1>1 DEF Activatable, Secrets, Versions
  <2> QED
    BY <2>1
<1>7. PICK old : old = [secret[p] EXCEPT !.status = "retired",
                                         !.usableUntil = t + Overlap]
  OBVIOUS
<1>8. /\ old \in Secret /\ old # NoSecret /\ old.status = "retired"
      /\ old.usableUntil = t + Overlap /\ old.payload = secret[p].payload
  <2>1. PICK e \in Nat : e = t + Overlap
    BY <1>2, RotationAssumptions
  <2>2. old = [secret[p] EXCEPT !.status = "retired", !.usableUntil = e]
    BY <1>7, <2>1
  <2>3. old \in Secret
    BY <1>5, <2>2 DEF Secret
  <2> QED
    BY <1>5, <2>1, <2>2, <2>3, AbsenceAssumption DEF Secret
<1>9. PICK new : new = Fresh
  OBVIOUS
<1>10. new \in Secret /\ new # NoSecret /\ new.status = "active" /\ new.payload
  <2>1. new = [status |-> "active", usableUntil |-> 0, payload |-> TRUE]
    BY <1>9 DEF Fresh
  <2>2. new \in Secret
    BY <2>1 DEF Secret
  <2> QED
    BY <2>1, <2>2, AbsenceAssumption
<1>11. /\ secret' = [u \in Versions |-> IF u = v THEN new
                                       ELSE IF u = p THEN old ELSE secret[u]]
       /\ v # p
  BY <1>1, <1>4, <1>5, <1>6, <1>7, <1>9 DEF CutOver
<1>12. /\ secret'[v] = new /\ secret'[p] = old
       /\ \A u \in Versions \ {v, p} : secret'[u] = secret[u]
  BY <1>11
<1>13. PICK row : row = Closed(rotation[v], "activated")
  OBVIOUS
<1>14. /\ row \in Rotation /\ row # NoRotation /\ row.status = "activated"
       /\ row.envelope = FALSE /\ row.key = rotation[v].key
  BY <1>3, <1>13, ClosedIs
<1>15. rotation' = [rotation EXCEPT ![v] = row]
  BY <1>13 DEF Activate
<1>16. \A u \in Versions : rotation'[u] = IF u = v THEN row ELSE rotation[u]
  BY <1>15 DEF IInv, TypeOK
<1>17. TypeOK'
  <2>1. secret' \in [Versions -> {NoSecret} \cup Secret]
    BY <1>8, <1>10, <1>11 DEF IInv, TypeOK
  <2>2. endpoint' \in Endpoint
    BY <1>1, <1>2 DEF IInv, TypeOK, Endpoint
  <2>3. rotation' \in [Versions -> {NoRotation} \cup Rotation]
    BY <1>14, <1>15 DEF IInv, TypeOK
  <2> QED
    BY <2>1, <2>2, <2>3 DEF IInv, TypeOK, Activate
<1>18. /\ endpoint.status = "active" /\ endpoint'.status = "active"
       /\ now' = now /\ worker' = worker
  BY <1>1 DEF IInv, TypeOK, Endpoint, Activatable, Activate
<1>19. Secrets' = Secrets \cup {v}
  BY <1>5, <1>8, <1>10, <1>12 DEF Secrets
<1>20. Active' = {v}
  <2>1. \A u \in Secrets : u \in Versions /\ (u # p => secret[u].status # "active")
    BY <1>5 DEF Active, Secrets
  <2> QED
    BY <1>5, <1>6, <1>8, <1>10, <1>12, <1>19, <2>1 DEF Active
<1>21. OneActiveSecret'
  BY <1>18, <1>20 DEF OneActiveSecret
<1>22. Rotations' = Rotations /\ Staged' = Staged \ {v}
  BY <1>3, <1>14, <1>16 DEF Rotations, Staged
<1>23. EnvelopeOnlyStaged'
  <2> SUFFICES ASSUME NEW u \in Rotations
               PROVE /\ rotation'[u].envelope <=> u \in Staged \ {v}
                     /\ u \in Secrets \cup {v} <=> rotation'[u].status = "activated"
    BY <1>19, <1>22 DEF EnvelopeOnlyStaged
  <2>1. CASE u = v
    BY <1>14, <1>16, <2>1
  <2>2. CASE u # v
    <3>1. rotation'[u] = rotation[u]
      BY <1>16, <2>2 DEF Rotations
    <3> QED
      BY <2>2, <3>1 DEF IInv, EnvelopeOnlyStaged
  <2> QED
    BY <2>1, <2>2
<1>24. OnlyLatestStaged'
  BY <1>22 DEF IInv, OnlyLatestStaged
<1>25. OneStagePerKey'
  <2>1. \A u \in Rotations : rotation'[u].key = rotation[u].key
    BY <1>14, <1>16 DEF Rotations
  <2> QED
    BY <1>22, <2>1 DEF IInv, OneStagePerKey
<1>26. SecretsKept'
  <2> SUFFICES ASSUME NEW u \in Secrets \cup {v}
               PROVE /\ secret'[u].status = "active" => secret'[u].payload
                     /\ secret'[u].status = "retired" /\ ~secret'[u].payload
                          => secret'[u].usableUntil <= now
                     /\ secret'[u].status # "revoked"
    BY <1>18, <1>19 DEF SecretsKept
  <2>1. CASE u = v
    BY <1>10, <1>12, <2>1
  <2>2. CASE u = p
    BY <1>5, <1>8, <1>12, <2>2 DEF IInv, SecretsKept
  <2>3. CASE u \notin {v, p}
    <3>1. secret'[u] = secret[u] /\ u \in Secrets
      BY <1>12, <2>3 DEF Secrets
    <3> QED
      BY <3>1, <1>18 DEF IInv, SecretsKept
  <2> QED
    BY <2>1, <2>2, <2>3
<1>27. Captures'
  <2> SUFFICES ASSUME NEW w \in Workers, worker[w] # Idle
               PROVE /\ worker[w].at <= now
                     /\ worker[w].version \in Secrets \cup {v}
                     /\ secret'[worker[w].version].status = "retired"
                          => worker[w].at + Overlap
                               <= secret'[worker[w].version].usableUntil + Lag
    BY <1>18, <1>19 DEF Captures
  <2>1. PICK c \in Secrets : c = worker[w].version
    BY DEF IInv, Captures
  <2>2. worker[w].at <= now
    BY DEF IInv, Captures
  <2>3. worker[w].at \in Nat
    BY DEF IInv, TypeOK, Times
  <2>4. CASE c = p
    <3>1. worker[w].at + Overlap <= (t + Overlap) + Lag
      BY <1>2, <2>2, <2>3, RotationAssumptions
    <3> QED
      BY <1>5, <1>8, <1>12, <2>1, <2>2, <2>4, <3>1
  <2>5. CASE c # p
    <3>1. secret'[c] = secret[c]
      BY <1>6, <1>12, <2>5 DEF Secrets
    <3> QED
      BY <2>1, <2>2, <3>1 DEF IInv, Captures
  <2> QED
    BY <2>4, <2>5
<1> QED
  BY <1>17, <1>21, <1>23, <1>24, <1>25, <1>26, <1>27 DEF IInv

\* Only an endpoint that is not revoked changes its status.
LEMMA SetStatusKeeps ==
  ASSUME IInv, NEW status \in {"active", "suspended", "revoked"}, SetStatus(status)
  PROVE IInv'
<1>1. PICK t \in ClockReading : endpoint' = [status |-> status, updatedAt |-> t]
  BY DEF SetStatus
<1>2. /\ endpoint.status \in {"active", "suspended"} /\ endpoint'.status = status
      /\ secret' = Revoked(status) /\ now' = now
      /\ UNCHANGED <<rotation, worker>>
  BY <1>1 DEF SetStatus, Allowed
<1>3. PICK p \in Versions : Active = {p}
  BY <1>2 DEF IInv, OneActiveSecret
<1>4. \A v \in Secrets : secret[v].status # "revoked"
  BY <1>2 DEF IInv, SecretsKept
<1>5. now \in Nat /\ t \in Times
  BY DEF ClockReading, IInv, TypeOK, Times
<1>6. CASE status = "revoked"
  <2>1. p \in Secrets /\ p \in Versions /\ secret[p] \in Secret
    BY <1>3, SecretIs DEF IInv, Active
  <2>2. PICK dead : dead = [secret[p] EXCEPT !.status = "revoked"]
    OBVIOUS
  <2>3. /\ dead \in Secret /\ dead # NoSecret /\ dead.status = "revoked"
    <3>1. dead \in Secret
      BY <2>1, <2>2 DEF Secret
    <3> QED
      BY <2>1, <2>2, <3>1, AbsenceAssumption DEF Secret
  <2>4. secret' = [v \in Versions |-> IF v = p THEN dead ELSE secret[v]]
    BY <1>2, <1>3, <1>6, <2>2 DEF Revoked
  <2>5. secret'[p] = dead /\ \A v \in Versions \ {p} : secret'[v] = secret[v]
    BY <2>1, <2>4
  <2>6. Secrets' = Secrets
    BY <2>1, <2>3, <2>5 DEF Secrets
  <2>7. \A v \in Secrets : v # p => secret'[v] = secret[v] /\ secret[v].status # "active"
    BY <1>3, <2>5 DEF Active, Secrets
  <2>8. Active' = {}
    BY <2>3, <2>5, <2>6, <2>7 DEF Active
  <2>9. TypeOK'
    <3>1. secret' \in [Versions -> {NoSecret} \cup Secret]
      BY <2>3, <2>4 DEF IInv, TypeOK
    <3>2. endpoint' \in Endpoint
      BY <1>1, <1>5, <1>6 DEF Endpoint
    <3> QED
      BY <3>1, <3>2 DEF IInv, TypeOK, SetStatus
  <2>10. OneActiveSecret'
    BY <1>2, <1>6, <2>8 DEF OneActiveSecret
  <2>11. SecretsKept'
    <3> SUFFICES ASSUME NEW v \in Secrets
                 PROVE /\ secret'[v].status = "active" => secret'[v].payload
                       /\ secret'[v].status = "retired" /\ ~secret'[v].payload
                            => secret'[v].usableUntil <= now
      BY <1>2, <1>6, <2>6 DEF SecretsKept
    <3>1. CASE v = p
      BY <2>3, <2>5, <3>1
    <3>2. CASE v # p
      BY <2>7, <3>2 DEF IInv, SecretsKept
    <3> QED
      BY <3>1, <3>2
  <2>12. Captures'
    <3> SUFFICES ASSUME NEW w \in Workers, worker[w] # Idle,
                        secret'[worker[w].version].status = "retired"
                 PROVE secret'[worker[w].version] = secret[worker[w].version]
      BY <1>2, <2>6 DEF IInv, Captures
    <3>1. worker[w].version \in Secrets
      BY DEF IInv, Captures
    <3> QED
      BY <2>3, <2>5, <2>7, <3>1
  <2>13. EnvelopeOnlyStaged' /\ OnlyLatestStaged' /\ OneStagePerKey'
    BY <1>2, <2>6 DEF IInv, EnvelopeOnlyStaged, OnlyLatestStaged, OneStagePerKey,
       Rotations, Staged
  <2> QED
    BY <2>9, <2>10, <2>11, <2>12, <2>13 DEF IInv
<1>7. CASE status # "revoked"
  <2>1. secret' = secret
    BY <1>2, <1>7 DEF Revoked, IInv, TypeOK
  <2>2. TypeOK'
    <3>1. endpoint' \in Endpoint
      BY <1>1, <1>5 DEF Endpoint
    <3> QED
      BY <2>1, <3>1 DEF IInv, TypeOK, SetStatus
  <2>3. /\ Secrets' = Secrets /\ Active' = Active
        /\ Rotations' = Rotations /\ Staged' = Staged
    BY <1>2, <2>1 DEF Secrets, Active, Rotations, Staged
  <2>4. OneActiveSecret'
    BY <1>2, <1>3, <1>7, <2>3 DEF OneActiveSecret
  <2>5. SecretsKept'
    BY <1>2, <1>4, <2>1, <2>3 DEF IInv, SecretsKept
  <2>6. Captures'
    BY <1>2, <2>1, <2>3 DEF IInv, Captures
  <2>7. EnvelopeOnlyStaged' /\ OnlyLatestStaged' /\ OneStagePerKey'
    BY <1>2, <2>3 DEF IInv, EnvelopeOnlyStaged, OnlyLatestStaged, OneStagePerKey
  <2> QED
    BY <2>2, <2>4, <2>5, <2>6, <2>7 DEF IInv
<1> QED
  BY <1>6, <1>7

-----------------------------------------------------------------------------
(* The invariant, and what follows from it.                                *)

LEMMA Initially == Init => IInv
<1> SUFFICES ASSUME Init PROVE IInv
  OBVIOUS
<1>1. 1 \in Versions /\ 0 \in Times
  BY RotationAssumptions DEF Versions, Times
<1>2. PICK new : new = Fresh
  OBVIOUS
<1>3. new \in Secret /\ new # NoSecret /\ new.status = "active" /\ new.payload
  <2>1. new = [status |-> "active", usableUntil |-> 0, payload |-> TRUE]
    BY <1>2 DEF Fresh
  <2>2. new \in Secret
    BY <2>1 DEF Secret
  <2> QED
    BY <2>1, <2>2, AbsenceAssumption
<1>4. secret = [v \in Versions |-> IF v = 1 THEN new ELSE NoSecret]
  BY <1>2 DEF Init
<1>5. /\ Secrets = {1} /\ Active = {1} /\ Rotations = {} /\ Staged = {}
      /\ secret[1] = new
  BY <1>1, <1>3, <1>4 DEF Init, Secrets, Active, Rotations, Staged
<1>6. TypeOK
  BY <1>1, <1>3, <1>4 DEF Init, TypeOK, Endpoint
<1>7. OneActiveSecret
  BY <1>1, <1>5 DEF Init, OneActiveSecret
<1>8. EnvelopeOnlyStaged /\ OnlyLatestStaged /\ OneStagePerKey
  BY <1>5 DEF EnvelopeOnlyStaged, OnlyLatestStaged, OneStagePerKey
<1>9. SecretsKept /\ Captures
  BY <1>3, <1>5 DEF Init, SecretsKept, Captures
<1> QED
  BY <1>6, <1>7, <1>8, <1>9 DEF IInv

LEMMA Invariance == Spec => []IInv
<1>1. Init => IInv
  BY Initially
<1>2. IInv /\ [Next]_vars => IInv'
  <2> SUFFICES ASSUME IInv, [Next]_vars PROVE IInv'
    OBVIOUS
  <2>1. ASSUME NEW r \in Requests, Look(r) PROVE IInv'
    BY <2>1, LookKeeps
  <2>2. ASSUME NEW r \in Requests, Stage(r) PROVE IInv'
    BY <2>2, StageKeeps
  <2>3. ASSUME NEW v \in Versions, Activate(v) PROVE IInv'
    BY <2>3, ActivateKeeps
  <2>4. ASSUME NEW v \in Versions, Cancel(v) PROVE IInv'
    BY <2>4, CancelKeeps
  <2>5. ASSUME NEW status \in {"active", "suspended", "revoked"}, SetStatus(status)
        PROVE IInv'
    BY <2>5, SetStatusKeeps
  <2>6. CASE Hygiene
    BY <2>6, HygieneKeeps
  <2>7. ASSUME NEW w \in Workers, Capture(w) PROVE IInv'
    BY <2>7, CaptureKeeps
  <2>8. ASSUME NEW w \in Workers, Open(w) PROVE IInv'
    BY <2>8, OpenKeeps
  <2>9. CASE Tick
    BY <2>9, TickKeeps
  <2>10. CASE UNCHANGED vars
    BY <2>10, StutterKeeps
  <2> QED
    BY <2>1, <2>2, <2>3, <2>4, <2>5, <2>6, <2>7, <2>8, <2>9, <2>10 DEF Next
<1> QED
  BY <1>1, <1>2, PTL DEF Spec

(* stage, activate and hygiene between them leave key material only where  *)
(* it is needed, and only the last candidate open.                         *)
THEOREM Sound == Spec => []RotationsSound
<1>1. IInv => RotationsSound
  BY DEF IInv, RotationsSound
<1> QED
  BY <1>1, Invariance, PTL

(* There is exactly one secret to sign with until the endpoint is revoked, *)
(* however the administrators' requests cross.                             *)
THEOREM SignsWithOne == Spec => []OneActiveSecret
<1>1. IInv => OneActiveSecret
  BY DEF IInv
<1> QED
  BY <1>1, Invariance, PTL

(* A stage request sent again stages nothing again.                        *)
THEOREM StagesOnce == Spec => []OneStagePerKey
<1>1. IInv => OneStagePerKey
  BY DEF IInv
<1> QED
  BY <1>1, Invariance, PTL

(* A captured secret is still there when the delivery opens it, for as     *)
(* long as the overlap promises.                                           *)
THEOREM StaysOpenable == Spec => []CaptureStaysOpenable
<1>1. ASSUME IInv PROVE CaptureStaysOpenable
  <2> SUFFICES ASSUME NEW w \in Workers, worker[w] # Idle,
                      endpoint.status # "revoked",
                      now + Lag < worker[w].at + Overlap
               PROVE Openable(worker[w].version, now)
    BY DEF CaptureStaysOpenable
  <2>1. PICK v \in Secrets : v = worker[w].version
    BY <1>1 DEF IInv, Captures
  <2>2. /\ secret[v].status \in {"active", "retired", "revoked"}
        /\ secret[v].usableUntil \in Nat
    BY <1>1, <2>1, SecretIs DEF IInv
  <2>3. secret[v].status # "revoked"
    BY <1>1, <2>1 DEF IInv, SecretsKept
  <2>4. CASE secret[v].status = "active"
    BY <1>1, <2>1, <2>4 DEF IInv, SecretsKept, Openable
  <2>5. CASE secret[v].status = "retired"
    <3>1. worker[w].at + Overlap <= secret[v].usableUntil + Lag
      BY <1>1, <2>1, <2>5 DEF IInv, Captures
    <3>2. worker[w].at \in Nat /\ now \in Nat
      BY <1>1 DEF IInv, TypeOK, Times
    <3>3. secret[v].usableUntil > now
      BY <2>2, <3>1, <3>2, RotationAssumptions
    <3>4. secret[v].payload
      BY <1>1, <2>1, <2>2, <2>5, <3>2, <3>3 DEF IInv, SecretsKept
    <3> QED
      BY <2>1, <2>5, <3>3, <3>4 DEF Openable
  <2> QED
    BY <2>2, <2>3, <2>4, <2>5
<1> QED
  BY <1>1, Invariance, PTL
================================================================================
