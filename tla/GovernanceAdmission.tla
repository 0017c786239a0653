----------------------------- MODULE GovernanceAdmission -----------------------------
(***************************************************************************)
(* The admission every request of the public API passes                    *)
(* (admit-governed-capability.ts, governance-admission-repository.ts): its *)
(* clock is read by the server that got the request, and under the         *)
(* workspace's advisory lock the rate, concurrency, quota and spend of the *)
(* last windows are counted for the workspace and for the client, anomalies*)
(* are looked for, and the decision is added to the log the next one       *)
(* counts.  Admitted jobs create their operation later, which workers run. *)
(* The log and the policies are written under the same lock, operations are*)
(* not: each of their counts is a statement of its own at READ COMMITTED   *)
(* and sees what workers committed since the one before.                   *)
(***************************************************************************)
EXTENDS Integers, Sequences, FiniteSets, FiniteSetsExt

CONSTANTS
  Clients, Workspace,  \* the scopes: each client, and the workspace of them all
  Requests,            \* requests that reach the API
  Capabilities,        \* what a request may ask for: a job or not, its cost, a recovery or not
  DefaultLimits,       \* the server's limits
  PolicyLimits,        \* what an administrator may set for a scope
  RateWindow, ReservationWindow, QuotaWindow,
  BaselineWindow, ErrorWindow,
  Multiplier, Baselines,         \* an anomaly: so many times the mean of so many windows
  RequestMinimum, SpendMinimum,  \* below which nothing is an anomaly
  TerminalMinimum,               \* operations needed to speak of an error rate
  Skew,                \* how far a server's clock may be off
  MaxTime,             \* bound: the clock
  None

Limits == [rate : Nat, concurrency : Nat, quota : Nat, spend : Nat]

ASSUME AdmissionAssumption ==
  /\ Workspace \notin Clients
  /\ DefaultLimits \in Limits /\ PolicyLimits \subseteq Limits
  /\ Capabilities \subseteq [job : BOOLEAN, cost : Nat, recovery : BOOLEAN]
  /\ {RateWindow, ReservationWindow, QuotaWindow, BaselineWindow, ErrorWindow} \subseteq Nat
  /\ {Multiplier, Baselines, RequestMinimum, SpendMinimum, TerminalMinimum} \subseteq Nat \ {0}
  /\ Skew \in Nat /\ MaxTime \in Nat

VARIABLES
  now,          \* the time
  policies,     \* the rows V2GovernancePolicy of the scopes
  drafts,       \* the requests on their way to a decision
  transaction,  \* the admission that holds the advisory lock, and what it has read
  admissions,   \* the rows V2GovernanceAdmission in the order of their insertion
  operations    \* the rows V2PublicOperation by the request that created them

vars == <<now, policies, drafts, transaction, admissions, operations>>

Scopes == Clients \cup {Workspace}
\* running stands for waiting and retrying too, which count alike.
Active == {"running"}
\* A canceled operation ended too, but counts for nothing.
Terminal == {"succeeded", "failed"}
Statuses == {"queued", "canceled"} \cup Active \cup Terminal

Ask == [client : Clients, job : BOOLEAN, cost : Nat, recovery : BOOLEAN, at : Int]
Admission == [client : Clients, job : BOOLEAN, cost : Nat, at : Int, allowed : BOOLEAN]
\* What the log says of the request, the limits of both its scopes in
\* operations, and the counts of operations made so far.
Reading == [request : Requests, reached : BOOLEAN, surging : BOOLEAN,
            concurrency : [1..2 -> Nat], counts : Seq(Nat)]

TypeOK ==
  /\ now \in 0..MaxTime
  /\ policies \in [Scopes -> PolicyLimits \cup {None}]
  /\ drafts \in [Requests ->
       [pc : {"draft", "admitted", "refused", "failed", "done"}, ask : Ask] \cup {None}]
  /\ transaction \in Reading \cup {None}
  /\ admissions \in Seq(Admission)
  /\ operations \in [Requests ->
       [client : Clients, status : Statuses, completedAt : Nat] \cup {None}]

Init ==
  /\ now = 0
  /\ policies = [s \in Scopes |-> None]
  /\ drafts = [r \in Requests |-> None]
  /\ transaction = None
  /\ admissions = <<>>
  /\ operations = [r \in Requests |-> None]

(***************************************************************************)
(* The limits in force: a policy may lower the server's, never raise them  *)
(***************************************************************************)
Least(a, b) == IF a < b THEN a ELSE b

\* Mutant: the policy of the scope replaces the server's limits.
EffectiveLimits_PolicyWins(s) == IF policies[s] = None THEN DefaultLimits ELSE policies[s]

EffectiveLimits(s) ==
  IF policies[s] = None THEN DefaultLimits
  ELSE [l \in DOMAIN DefaultLimits |-> Least(DefaultLimits[l], policies[s][l])]

(***************************************************************************)
(* What is counted, for a scope and the time of the request.  The windows  *)
(* have a beginning and no end: rows a faster clock stamped count as well. *)
(***************************************************************************)
In(s, client) == s = Workspace \/ s = client

\* Mutant: the window also ends at the request's time.
Since_Ended(s, from, at) ==
  {i \in DOMAIN admissions : /\ In(s, admissions[i].client)
                             /\ admissions[i].at >= from /\ admissions[i].at < at}

Since(s, from, at) ==
  {i \in DOMAIN admissions : In(s, admissions[i].client) /\ admissions[i].at >= from}

Allowed(indices) == {i \in indices : admissions[i].allowed}
Cost(i) == admissions[i].cost
Spent(indices) == MapThenSumSet(Cost, Allowed(indices))

\* Mutant: a reservation of the window before the request's is not counted.
Reserved_Short(s, at) ==
  {i \in Allowed(Since(s, at - ReservationWindow + 1, at)) : admissions[i].job}

Reserved(s, at) == {i \in Allowed(Since(s, at - ReservationWindow, at)) : admissions[i].job}

Running(s) ==
  {r \in Requests : operations[r] # None /\ In(s, operations[r].client)
                      /\ operations[r].status \in Active}

\* All that the log alone says of the limits.
LimitReached(s, ask) ==
  LET limits == EffectiveLimits(s)
      spent == Spent(Since(s, ask.at - QuotaWindow, ask.at))
  IN \/ Cardinality(Since(s, ask.at - RateWindow, ask.at)) + 1 > limits.rate
     \/ ask.job /\ Cardinality(Reserved(s, ask.at)) + 1 > limits.concurrency
     \/ ask.cost > 0 /\ spent + ask.cost > limits.quota
     \/ ask.cost > 0 /\ spent + ask.cost > limits.spend

(***************************************************************************)
(* Anomalies: more than a multiple of the mean of the windows before, or   *)
(* too many failures                                                       *)
(***************************************************************************)
Baseline(s, ask) ==
  Since(s, ask.at - RateWindow - BaselineWindow, ask.at)
    \ Since(s, ask.at - RateWindow, ask.at)

\* Above the larger of the minimum and the multiple, rounded up.
Above(minimum, baseline, observed) ==
  observed > minimum /\ (observed - 1) * Baselines >= baseline * Multiplier

\* What the log alone says of anomalies.
Surging(s, ask) ==
  LET baseline == Baseline(s, ask)
      recent == Since(s, ask.at - RateWindow, ask.at)
  IN \/ /\ baseline # {}
        /\ Above(RequestMinimum, Cardinality(baseline), Cardinality(recent) + 1)
     \/ /\ ask.cost > 0
        /\ Above(SpendMinimum, Spent(baseline), Spent(recent) + ask.cost)

Completed(s, ask) ==
  {r \in Requests : /\ operations[r] # None /\ In(s, operations[r].client)
                    /\ operations[r].status \in Terminal
                    /\ operations[r].completedAt >= ask.at - ErrorWindow}

Failed(s, ask) == {r \in Completed(s, ask) : operations[r].status = "failed"}

(***************************************************************************)
(* The decision, from what the transaction has read                        *)
(***************************************************************************)
\* Mutant: only the workspace's counters are compared with its limits.
ScopesOf_WorkspaceOnly(ask) == <<Workspace, Workspace>>

ScopesOf(ask) == <<Workspace, ask.client>>

\* The statements that count operations, in the order they are sent in.
Statements(ask) ==
  LET scope(i) == ScopesOf(ask)[i]
  IN <<Running(scope(1)), Running(scope(2)),
       Completed(scope(1), ask), Completed(scope(2), ask),
       Failed(scope(1), ask), Failed(scope(2), ask)>>

AllCounted == Len(transaction.counts) = 6

\* Of the workspace, 1, and of the client, 2.
RunningCount(i) == transaction.counts[i]
CompletedCount(i) == transaction.counts[i + 2]
FailedCount(i) == transaction.counts[i + 4]

\* What is asserted of the counts before anomalies are looked for.
UsageIsValid == \A i \in 1..2 : FailedCount(i) <= CompletedCount(i)

\* Operations and reservations of one job overlap, so the larger number of
\* them counts: the reservations have been compared already.
Crowded(ask) == ask.job /\ \E i \in 1..2 : RunningCount(i) + 1 > transaction.concurrency[i]

\* At least half of them, for the threshold of the error rate.
Failing ==
  \E i \in 1..2 : /\ CompletedCount(i) >= TerminalMinimum
                 /\ 2 * FailedCount(i) >= CompletedCount(i)

Admits(ask) ==
  /\ ~transaction.reached /\ ~Crowded(ask)
  /\ ask.recovery \/ ~(transaction.surging \/ Failing)

(***************************************************************************)
(* Actions                                                                 *)
(***************************************************************************)
\* A request is authenticated and gets the time of its server; it may wait
\* for the lock from then on.
Arrive(r) ==
  /\ drafts[r] = None
  /\ \E c \in Clients, asked \in Capabilities, at \in (now - Skew)..(now + Skew) :
       drafts' = [drafts EXCEPT ![r] =
         [pc |-> "draft", ask |-> [client |-> c, job |-> asked.job, cost |-> asked.cost,
                                   recovery |-> asked.recovery, at |-> at]]]
  /\ UNCHANGED <<now, policies, transaction, admissions, operations>>

Asked(r) == drafts[r] # None /\ drafts[r].pc = "draft"
Admitting(r) == transaction # None /\ transaction.request = r

\* The transaction gets the lock and reads the policies and the log.
Begin(r) ==
  /\ Asked(r) /\ transaction = None
  /\ LET ask == drafts[r].ask
         scopes == ScopesOf(ask)
     IN transaction' =
          [request |-> r,
           reached |-> \E i \in 1..2 : LimitReached(scopes[i], ask),
           surging |-> \E i \in 1..2 : Surging(scopes[i], ask),
           concurrency |-> [i \in 1..2 |-> EffectiveLimits(scopes[i]).concurrency],
           counts |-> <<>>]
  /\ UNCHANGED <<now, policies, drafts, admissions, operations>>

\* One more statement has counted operations.
Count(r) ==
  /\ Admitting(r) /\ ~AllCounted
  /\ LET counts == transaction.counts
         found == Statements(drafts[r].ask)[Len(counts) + 1]
     IN transaction' = [transaction EXCEPT !.counts = Append(counts, Cardinality(found))]
  /\ UNCHANGED <<now, policies, drafts, admissions, operations>>

\* The decision, its row in the log, and the commit that releases the lock.
Admit(r) ==
  /\ Admitting(r) /\ AllCounted /\ UsageIsValid
  /\ LET ask == drafts[r].ask
     IN /\ drafts' = [drafts EXCEPT ![r].pc = IF Admits(ask) THEN "admitted" ELSE "refused"]
        /\ admissions' = Append(admissions,
             [client |-> ask.client, job |-> ask.job, cost |-> ask.cost, at |-> ask.at,
              allowed |-> Admits(ask)])
  /\ transaction' = None
  /\ UNCHANGED <<now, policies, operations>>

\* More operations failed than ended: INVALID_ARGUMENT, and nothing is logged.
Throw(r) ==
  /\ Admitting(r) /\ AllCounted /\ ~UsageIsValid
  /\ drafts' = [drafts EXCEPT ![r].pc = "failed"]
  /\ transaction' = None
  /\ UNCHANGED <<now, policies, admissions, operations>>

\* The database ends the transaction before its commit.  After a conflict the
\* request is tried again, with the time it came with; otherwise it fails.
Lose(r) ==
  /\ Admitting(r)
  /\ drafts' \in {drafts, [drafts EXCEPT ![r].pc = "failed"]}
  /\ transaction' = None
  /\ UNCHANGED <<now, policies, admissions, operations>>

\* The handler of an admitted job creates its operation in a transaction of
\* its own, if it gets that far.
Enqueue(r) ==
  /\ drafts[r] # None /\ drafts[r].pc = "admitted" /\ drafts[r].ask.job
  /\ drafts' = [drafts EXCEPT ![r].pc = "done"]
  /\ operations' = [operations EXCEPT ![r] =
       [client |-> drafts[r].ask.client, status |-> "queued", completedAt |-> 0]]
  /\ UNCHANGED <<now, policies, transaction, admissions>>

\* A worker takes the operation or ends it, a client cancels it, or has one
\* that did not succeed tried again.
Work(r) ==
  /\ operations[r] # None
  /\ \E status \in CASE operations[r].status = "queued" -> Active \cup {"canceled"}
                   [] operations[r].status \in Active -> Terminal \cup {"canceled"}
                   [] operations[r].status = "failed" -> Active
                   [] operations[r].status = "canceled" -> Active \cup {"queued"}
                   [] OTHER -> {} :
       operations' = [operations EXCEPT
         ![r].status = status,
         ![r].completedAt = IF status \in Terminal THEN now ELSE 0]
  /\ UNCHANGED <<now, policies, drafts, transaction, admissions>>

\* Mutant: policies are changed without the lock.
SetPolicy_Unlocked(s) ==
  /\ \E policy \in PolicyLimits \cup {None} : policies' = [policies EXCEPT ![s] = policy]
  /\ UNCHANGED <<now, drafts, transaction, admissions, operations>>

\* An administrator sets or deletes the policy of a scope, under the same lock.
SetPolicy(s) ==
  /\ transaction = None
  /\ \E policy \in PolicyLimits \cup {None} : policies' = [policies EXCEPT ![s] = policy]
  /\ UNCHANGED <<now, drafts, transaction, admissions, operations>>

Tick ==
  /\ now < MaxTime
  /\ now' = now + 1
  /\ UNCHANGED <<policies, drafts, transaction, admissions, operations>>

Next ==
  \/ \E r \in Requests :
       \/ Arrive(r) \/ Begin(r) \/ Count(r) \/ Admit(r) \/ Throw(r) \/ Lose(r)
       \/ Enqueue(r) \/ Work(r)
  \/ \E s \in Scopes : SetPolicy(s)
  \/ Tick

Spec == Init /\ [][Next]_vars

(***************************************************************************)
(* Safety                                                                  *)
(***************************************************************************)
\* The admitted requests of a scope in one window that starts at a time.
Window(s, from, width) ==
  {i \in DOMAIN admissions : /\ admissions[i].allowed /\ In(s, admissions[i].client)
                             /\ admissions[i].at \in from..(from + width)}
Times == (0 - Skew)..(MaxTime + Skew)

\* However the requests overtake each other on their way to the lock, and
\* however far apart their servers' clocks are, no window of the rate's
\* length holds more admitted requests of a scope than the server's limit.
RateWithinLimit ==
  \A s \in Scopes, t \in Times : Cardinality(Window(s, t, RateWindow)) <= DefaultLimits.rate

\* Nor does any window of the quota hold admitted work of more than the
\* quota, or the spend budget, of any scope, whatever the policies were.
SpendWithinLimit ==
  \A s \in Scopes, t \in Times :
    LET spent == MapThenSumSet(Cost, Window(s, t, QuotaWindow))
    IN spent <= DefaultLimits.quota /\ spent <= DefaultLimits.spend

\* Nor are more jobs of a scope reserved in one reservation window than may
\* run at once.
JobsWithinLimit ==
  \A s \in Scopes, t \in Times :
    Cardinality({i \in Window(s, t, ReservationWindow) : admissions[i].job})
      <= DefaultLimits.concurrency

\* A request that is admitted under a policy of its client or its workspace
\* leaves every window it falls into within that policy's rate, whatever was
\* admitted before the policy was set.
PolicyHolds ==
  [][\A r \in Requests :
       (drafts[r] # None /\ drafts[r].pc = "draft" /\ drafts'[r].pc = "admitted")
         => \A s \in {Workspace, drafts[r].ask.client} : policies[s] # None
              => \A t \in (drafts[r].ask.at - RateWindow)..drafts[r].ask.at :
                   Cardinality(Window(s, t, RateWindow)') <= policies[s].rate]_vars

\* In whatever order and by whatever clocks requests reach the lock, no window
\* of any scope holds more requests, work, spend or jobs than its limits.
WindowsHold == TypeOK /\ RateWithinLimit /\ SpendWithinLimit /\ JobsWithinLimit
======================================================================================
