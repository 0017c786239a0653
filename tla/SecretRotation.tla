---------------------------- MODULE SecretRotation ----------------------------
(***************************************************************************)
(* The signing secrets of one webhook endpoint: a candidate is staged,     *)
(* then activated, canceled or left to expire; the secret it replaces      *)
(* stays usable for an overlap; the endpoint is suspended, resumed and     *)
(* revoked meanwhile, a hygiene run destroys what is no longer usable, and *)
(* delivery workers capture a secret and open it later.                    *)
(*                                                                         *)
(* Every transaction here is serializable, hence one step; what comes      *)
(* before it is a read of its own (a stage looks at its target first) and  *)
(* the clock, read up to Lag before the commit.                            *)
(***************************************************************************)
EXTENDS Integers

CONSTANTS
    Workers,        \* delivery workers
    Requests,       \* stage requests of the administrators
    Keys,           \* idempotency keys; a request sent again has its key
    NoRotation,     \* no rotation has this version as its candidate
    NoSecret,       \* no secret has this version
    Idle,           \* a worker or a request with nothing in hand
    StageTtl,       \* how long a staged candidate may be activated
    Overlap,        \* how long a replaced secret stays usable
    Lag,            \* how far a clock reading may be behind at the commit
    MaxVersion,     \* bound on the versions of the secret
    MaxTime         \* bound on the clock

ASSUME RotationAssumptions ==
    /\ StageTtl \in Nat \ {0} /\ Overlap \in Nat \ {0} /\ Lag \in Nat
    /\ MaxVersion \in Nat \ {0} /\ MaxTime \in Nat

VARIABLES
    now,
    endpoint,   \* its status and updatedAt; their hash is its revision
    secret,     \* the secret of each version, and whether its payload is there
    rotation,   \* the rotation to each candidate version
    request,    \* what each stage request has read
    worker      \* the secret each worker captured, and when

vars == <<now, endpoint, secret, rotation, request, worker>>

Times == 0..MaxTime
Versions == 1..MaxVersion
Endpoint == [status : {"active", "suspended", "revoked"}, updatedAt : Times]

Secret == [status : {"active", "retired", "revoked"}, usableUntil : Nat,
           payload : BOOLEAN]

\* canceled: the command of a cancel was recorded for it.
Rotation ==
    [status : {"staged", "activated", "cancelled", "expired"},
     previous : Versions, base : Endpoint, key : Keys,
     createdAt : Times, expiresAt : Nat,
     envelope : BOOLEAN, canceled : BOOLEAN]

ASSUME AbsenceAssumption == NoSecret \notin Secret /\ NoRotation \notin Rotation

Draft == [base : Endpoint, previous : Versions, version : 2..(MaxVersion + 1),
          at : Times]

TypeOK ==
    /\ now \in Times
    /\ endpoint \in Endpoint
    /\ secret \in [Versions -> {NoSecret} \cup Secret]
    /\ rotation \in [Versions -> {NoRotation} \cup Rotation]
    /\ request \in [Requests -> {Idle} \cup Draft]
    /\ worker \in [Workers -> {Idle} \cup [version : Versions, at : Times]]

Fresh == [status |-> "active", usableUntil |-> 0, payload |-> TRUE]

Init ==
    /\ now = 0
    /\ endpoint = [status |-> "active", updatedAt |-> 0]
    /\ secret = [v \in Versions |-> IF v = 1 THEN Fresh ELSE NoSecret]
    /\ rotation = [v \in Versions |-> NoRotation]
    /\ request = [r \in Requests |-> Idle]
    /\ worker = [w \in Workers |-> Idle]

ClockReading == {t \in Times : t <= now /\ now <= t + Lag}

Secrets == {v \in Versions : secret[v] # NoSecret}
Rotations == {v \in Versions : rotation[v] # NoRotation}
Active == {v \in Secrets : secret[v].status = "active"}
Staged == {v \in Rotations : rotation[v].status = "staged"}

\* What is over by t, the limit included.
Overdue(t) == {v \in Staged : rotation[v].expiresAt <= t}

Closed(row, status) ==
    [row EXCEPT !.status = status, !.envelope = FALSE]

-----------------------------------------------------------------------------
(* stage: the service looks at the endpoint, prepares a candidate, and     *)
(* offers both to the transaction.                                         *)

IsNext(v) == (\A u \in Secrets \cup Rotations : u < v)
             /\ (v - 1) \in Secrets \cup Rotations

Look(r) ==
    /\ request[r] = Idle
    /\ endpoint.status = "active"
    /\ \E p \in Active, v \in 2..(MaxVersion + 1) :
         /\ Active = {p} /\ IsNext(v)
         /\ request' = [request EXCEPT ![r] =
              [base |-> endpoint, previous |-> p, version |-> v, at |-> now]]
    /\ UNCHANGED <<now, endpoint, secret, rotation, worker>>

\* Mutant: only what is still staged answers for its key.
KnownKey_StagedOnly(k) == \E v \in Staged : rotation[v].key = k

KnownKey(k) == \E v \in Rotations : rotation[v].key = k

\* Mutant: what another request staged meanwhile is not looked for.
CanStage_OneMore(r, k) ==
    /\ ~KnownKey(k)
    /\ endpoint.status = "active" /\ endpoint = request[r].base
    /\ Active = {request[r].previous}
    /\ request[r].version \in Versions
    /\ IsNext(request[r].version)

CanStage(r, k) ==
    /\ ~KnownKey(k)
    /\ endpoint.status = "active" /\ endpoint = request[r].base
    /\ Staged \subseteq Overdue(request[r].at)
    /\ Active = {request[r].previous}
    /\ request[r].version \in Versions
    /\ IsNext(request[r].version)

Candidate(r, k) ==
    [status |-> "staged", previous |-> request[r].previous,
     base |-> request[r].base, key |-> k, createdAt |-> request[r].at,
     expiresAt |-> request[r].at + StageTtl,
     envelope |-> TRUE, canceled |-> FALSE]

\* A known key is answered with what it staged, and anything out of date is
\* refused: neither changes a row.
Stage(r) ==
    /\ request[r] # Idle
    /\ \E k \in Keys :
         rotation' =
           IF CanStage(r, k)
           THEN [v \in Versions |->
                   IF v = request[r].version THEN Candidate(r, k)
                   ELSE IF v \in Overdue(request[r].at)
                   THEN Closed(rotation[v], "expired") ELSE rotation[v]]
           ELSE rotation
    /\ request' = [request EXCEPT ![r] = Idle]
    /\ UNCHANGED <<now, endpoint, secret, worker>>

-----------------------------------------------------------------------------
(* activate: the cut-over from one secret to the next.                     *)

Activatable(v, t) ==
    /\ v \in Staged
    /\ rotation[v].expiresAt > t
    /\ endpoint.status = "active" /\ endpoint = rotation[v].base
    /\ t >= endpoint.updatedAt
    /\ rotation[v].envelope
    /\ Active = {rotation[v].previous}
    /\ \A u \in Secrets : u < v
    /\ \A u \in Rotations : u <= v

\* Mutant: the replaced secret stays active.
CutOver_NotRetired(v, t) ==
    [u \in Versions |-> IF u = v THEN Fresh ELSE secret[u]]

CutOver(v, t) ==
    [u \in Versions |->
       IF u = v THEN Fresh
       ELSE IF u = rotation[v].previous
       THEN [secret[u] EXCEPT !.status = "retired", !.usableUntil = t + Overlap]
       ELSE secret[u]]

Activate(v) ==
    /\ \E t \in ClockReading :
         /\ Activatable(v, t)
         /\ secret' = CutOver(v, t)
         /\ endpoint' = [endpoint EXCEPT !.updatedAt = t]
    /\ rotation' = [rotation EXCEPT ![v] = Closed(@, "activated")]
    /\ UNCHANGED <<now, request, worker>>

-----------------------------------------------------------------------------
(* cancel, with the revision of the endpoint the rotation was staged at.   *)

CancelAnswer(v, t) ==
    CASE rotation[v].status = "activated" -> "refused"
      [] rotation[v].status \in {"cancelled", "expired"} ->
           IF rotation[v].canceled THEN "replayed" ELSE "refused"
      [] rotation[v].status = "staged" ->
           IF t < rotation[v].createdAt THEN "refused"
           ELSE IF rotation[v].expiresAt <= t THEN "expired" ELSE "cancelled"

\* Mutant: the envelope outlives the cancel.
Canceled_KeepsEnvelope(v, status) ==
    [rotation EXCEPT ![v].status = status, ![v].canceled = TRUE]

Canceled(v, status) ==
    [rotation EXCEPT ![v] = [Closed(@, status) EXCEPT !.canceled = TRUE]]

Cancel(v) ==
    /\ v \in Rotations
    /\ \E t \in ClockReading :
         /\ CancelAnswer(v, t) \in {"cancelled", "expired"}
         /\ rotation' = Canceled(v, CancelAnswer(v, t))
    /\ UNCHANGED <<now, endpoint, secret, request, worker>>

-----------------------------------------------------------------------------
(* The endpoint's own transitions, and the hygiene run.                    *)

Allowed == {<<"active", "suspended">>, <<"active", "revoked">>,
            <<"suspended", "active">>, <<"suspended", "revoked">>}

Revoked(status) ==
    [v \in Versions |->
       IF status = "revoked" /\ v \in Active
       THEN [secret[v] EXCEPT !.status = "revoked"] ELSE secret[v]]

SetStatus(status) ==
    /\ <<endpoint.status, status>> \in Allowed
    /\ status = "active" => \E p \in Versions : Active = {p}
    /\ \E t \in ClockReading :
         /\ t >= endpoint.updatedAt
         /\ endpoint' = [status |-> status, updatedAt |-> t]
    /\ secret' = Revoked(status)
    /\ UNCHANGED <<now, rotation, request, worker>>

\* Mutant: a retired secret counts as over as soon as it is retired.
Over_Retired(t) ==
    {v \in Secrets : secret[v].payload /\ secret[v].status # "active"}

Over(t) ==
    {v \in Secrets :
       /\ secret[v].payload
       /\ \/ secret[v].status = "retired" /\ secret[v].usableUntil <= t
          \/ secret[v].status = "revoked"}

\* A run takes at most a limit of each kind; the next one takes the rest.
Hygiene ==
    /\ \E t \in ClockReading :
       \E overdue \in SUBSET Overdue(t), over \in SUBSET Over(t) :
         /\ overdue = {} => Overdue(t) = {}
         /\ over = {} => Over(t) = {}
         /\ Overdue(t) \cup Over(t) # {}
         /\ rotation' = [v \in Versions |->
              IF v \in overdue THEN Closed(rotation[v], "expired")
              ELSE rotation[v]]
         /\ secret' = [v \in Versions |->
              IF v \in over THEN [secret[v] EXCEPT !.payload = FALSE]
              ELSE secret[v]]
    /\ UNCHANGED <<now, endpoint, request, worker>>

-----------------------------------------------------------------------------
(* A delivery: getDispatchTarget names the active secret, and the provider *)
(* opens that version later.                                               *)

Capture(w) ==
    /\ worker[w] = Idle
    /\ endpoint.status = "active"
    /\ \E v \in Active :
         /\ Active = {v}
         /\ worker' = [worker EXCEPT ![w] = [version |-> v, at |-> now]]
    /\ UNCHANGED <<now, endpoint, secret, rotation, request>>

Openable(v, t) ==
    /\ v \in Secrets
    /\ \/ secret[v].status = "active"
       \/ secret[v].status = "retired" /\ secret[v].usableUntil > t
    /\ secret[v].payload

\* Opened or not: a failure is retried by another attempt.
Open(w) ==
    /\ worker[w] # Idle
    /\ worker' = [worker EXCEPT ![w] = Idle]
    /\ UNCHANGED <<now, endpoint, secret, rotation, request>>

Tick ==
    /\ now < MaxTime
    /\ now' = now + 1
    /\ UNCHANGED <<endpoint, secret, rotation, request, worker>>

Next ==
    \/ \E r \in Requests : Look(r) \/ Stage(r)
    \/ \E v \in Versions : Activate(v) \/ Cancel(v)
    \/ \E status \in {"active", "suspended", "revoked"} : SetStatus(status)
    \/ Hygiene
    \/ \E w \in Workers : Capture(w) \/ Open(w)
    \/ Tick

Spec == Init /\ [][Next]_vars

-----------------------------------------------------------------------------
(* Through every cut-over, suspension and crossing of requests an endpoint *)
(* has exactly one secret to sign with, until it is revoked and has none.  *)
OneActiveSecret ==
    IF endpoint.status = "revoked" THEN Active = {}
    ELSE \E v \in Versions : Active = {v}

(* Key material exists only where it can still be needed: a rotation's     *)
(* envelope goes with the staged state, however that ends, and a candidate *)
(* becomes a secret by its activation and in no other way.                 *)
EnvelopeOnlyStaged ==
    \A v \in Rotations :
      /\ rotation[v].envelope <=> v \in Staged
      /\ v \in Secrets <=> rotation[v].status = "activated"

(* At most one candidate is open, the last one; one that was closed is not *)
(* opened again behind it.                                                 *)
OnlyLatestStaged == \A v \in Staged : \A u \in Rotations : u <= v

(* A key stages one candidate, however often and by whomever it is sent.   *)
OneStagePerKey ==
    \A u, v \in Rotations : rotation[u].key = rotation[v].key => u = v

(* A worker that captured a secret while it was the one to sign with can   *)
(* open it for as long as the overlap promises, whatever cut-overs and     *)
(* hygiene runs come between; the promise is short of the overlap by what  *)
(* the clock of the cut-over was behind.                                   *)
CaptureStaysOpenable ==
    \A w \in Workers :
      /\ worker[w] # Idle
      /\ endpoint.status # "revoked"
      /\ now + Lag < worker[w].at + Overlap
      => Openable(worker[w].version, now)

(* Every rotation is in the one state its columns say: key material exists *)
(* where it is needed, and only the last candidate may be open.            *)
RotationsSound == TypeOK /\ EnvelopeOnlyStaged /\ OnlyLatestStaged
=============================================================================
