------------------------------ MODULE DirectorBudget ------------------------------
(***************************************************************************)
(* The budget of one Director run: a versioned row with limits, what is    *)
(* reserved, what was used and the best candidate so far, its reservations *)
(* and the events that make every command idempotent by its key            *)
(* (director-budget.ts, director-budget-repository.ts), with the two       *)
(* writers it has: clients of the HTTP actions, which may send any command, *)
(* and executions of a batch of Director tools, which reserve, run the     *)
(* tools and settle in three transactions (execute-director-tools.ts).     *)
(*                                                                         *)
(* A reservation is named by the key of the command that opened it.  The   *)
(* transactions are serializable, so each is one step.                     *)
(***************************************************************************)
EXTENDS Naturals, FiniteSets, Functions

CONSTANTS
  Dimensions,      \* the dimensions of a usage (six in the code)
  Spend,           \* the one the tools of a batch are estimated in
  Elapsed,         \* the one that is measured when they have run
  Limits,          \* the limits of the run, by dimension
  Estimates,       \* the estimates a client may ask to reserve
  Usages,          \* the usages a client may report
  Costs,           \* the estimated costs of a batch
  Durations,       \* the times its tools may take
  Candidates,      \* candidate results: an id, whether it is valid, a score
  ClientKeys,      \* idempotency keys of the clients, one command each
  Batches,         \* idempotency keys of batches of tools
  Executions,      \* handlings of a batch request: the first and its retries
  None

Amounts == [Dimensions -> Nat]

ASSUME BudgetAssumption ==
  /\ {Spend, Elapsed} \subseteq Dimensions
  /\ Limits \in Amounts
  /\ Estimates \subseteq Amounts /\ Usages \subseteq Amounts
  /\ Costs \subseteq Nat /\ Durations \subseteq Nat
  /\ Candidates \subseteq [id : Nat, valid : BOOLEAN, score : Nat]

VARIABLES
  budget,          \* the row V2DirectorBudget
  reservations,    \* the rows V2DirectorBudgetReservation, by the key that opened them
  events,          \* the rows V2DirectorBudgetEvent, by idempotency key
  request,         \* what each batch asks: the revision its caller read, and its cost
  exec             \* the handlings of batch requests

vars == <<budget, reservations, events, request, exec>>

(***************************************************************************)
(* Keys, commands and amounts                                              *)
(***************************************************************************)
Part(b, part) == <<b, part>>
BatchKeys == Batches \X {"reserve", "settle", "cancel"}
Keys == ClientKeys \cup BatchKeys

Zero == [d \in Dimensions |-> 0]
Only(d, n) == [Zero EXCEPT ![d] = n]
Plus(a, b) == [d \in Dimensions |-> a[d] + b[d]]
Minus(a, b) == [d \in Dimensions |-> IF a[d] > b[d] THEN a[d] - b[d] ELSE 0]
Exceeds(actual, reserved) == \E d \in Dimensions : actual[d] + reserved[d] > Limits[d]

\* What a batch reserves, and what it reports when its tools took n.
Estimate(b) == Only(Spend, request[b].cost)
Report(b, n) == [Estimate(b) EXCEPT ![Elapsed] = n]

Outcomes == {"completed", "cancelled"}
ReserveCommands ==
  [action : {"reserve"}, at : Nat \ {0}, estimate : Amounts]
SettleCommands ==
  [action : {"settle"}, at : Nat \ {0}, reservation : Keys, actual : Amounts,
   outcome : Outcomes, candidate : Candidates \cup {None}]
PlainCommands == [action : {"cancel-run", "conclude"}, at : Nat \ {0}]
Commands == ReserveCommands \cup SettleCommands \cup PlainCommands

Reservation ==
  [status : {"reserved", "settled", "cancelled"}, estimate : Amounts,
   actual : Amounts, candidate : Candidates \cup {None}]
Open(k) == reservations[k] # None /\ reservations[k].status = "reserved"

Budget ==
  [revision : Nat \ {0},
   status : {"active", "budget_exhausted", "cancelled", "completed"},
   reserved : Amounts, actual : Amounts, best : Candidates \cup {None}]
Event == [command : Commands, revision : Nat \ {0}, opened : BOOLEAN]
Request == [at : Nat \ {0}, cost : Nat]

ASSUME AbsenceAssumption ==
  None \notin Candidates \cup Reservation \cup Event \cup Request

Idle == [pc |-> "idle", batch |-> None, seen |-> 0, took |-> 0]

TypeOK ==
  /\ budget \in Budget
  /\ reservations \in [Keys -> Reservation \cup {None}]
  /\ events \in [Keys -> Event \cup {None}]
  /\ request \in [Batches -> Request \cup {None}]
  /\ exec \in [Executions ->
                [pc : {"idle", "asked", "reserving", "running", "ran", "threw", "done", "failed"},
                 batch : Batches \cup {None}, seen : Nat, took : Nat]]

Init ==
  /\ budget = [revision |-> 1, status |-> "active", reserved |-> Zero, actual |-> Zero,
               best |-> None]
  /\ reservations = [k \in Keys |-> None]
  /\ events = [k \in Keys |-> None]
  /\ request = [b \in Batches |-> None]
  /\ exec = [e \in Executions |-> Idle]

(***************************************************************************)
(* The transactions.  A key that has an event is answered from it and      *)
(* changes nothing; a revision other than the row's is refused.            *)
(***************************************************************************)
\* Mutant: the replay is looked up, but a key that has none is not required.
Fresh_AnyKey(k, at) == at = budget.revision

Fresh(k, at) == events[k] = None /\ at = budget.revision

Recorded(k, command, opened) ==
  events' = [events EXCEPT ![k] = [command |-> command, revision |-> budget.revision + 1,
                                   opened |-> opened]]

Affordable(estimate) == ~Exceeds(budget.actual, Plus(budget.reserved, estimate))

\* The reservation is opened, or the budget is exhausted by asking for it.
Decided(k, command) ==
  /\ Recorded(k, command, Affordable(command.estimate))
  /\ \/ /\ Affordable(command.estimate)
        /\ budget' = [budget EXCEPT !.revision = @ + 1,
                                    !.reserved = Plus(@, command.estimate)]
        /\ reservations' = [reservations EXCEPT ![k] =
             [status |-> "reserved", estimate |-> command.estimate, actual |-> Zero,
              candidate |-> None]]
     \/ /\ ~Affordable(command.estimate)
        /\ budget' = [budget EXCEPT !.revision = @ + 1, !.status = "budget_exhausted"]
        /\ UNCHANGED reservations

\* Mutant: a reservation is admitted whatever the budget's status.
Reserve_AnyStatus(k, command) ==
  /\ Fresh(k, command.at)
  /\ \E d \in Dimensions : command.estimate[d] > 0
  /\ Decided(k, command)

Reserve(k, command) ==
  /\ Fresh(k, command.at)
  /\ budget.status = "active"
  /\ \E d \in Dimensions : command.estimate[d] > 0
  /\ Decided(k, command)

\* A candidate replaces the best one when it is valid and ranks before it.
RanksBefore(c, best) ==
  \/ best = None
  \/ c.score > best.score
  \/ c.score = best.score /\ c.id < best.id

\* Mutant: of two candidates with one score the later one stays.
Better_LastWins(best, c) ==
  IF c # None /\ c.valid /\ (best = None \/ c.score >= best.score) THEN c ELSE best

Better(best, c) == IF c # None /\ c.valid /\ RanksBefore(c, best) THEN c ELSE best

\* The usage of a settlement is added whatever it is: an operation may use
\* more than it reserved, and exhausts the budget when it does.
Spent(command) == Plus(budget.actual, command.actual)
Held(command) == Minus(budget.reserved, reservations[command.reservation].estimate)

\* Mutant: an overrun is looked for before the usage is added.
Overrun_Before(command) == Exceeds(budget.actual, Held(command))

Overrun(command) == Exceeds(Spent(command), Held(command))

Applied(k, command) ==
  /\ Recorded(k, command, FALSE)
  /\ budget' = [budget EXCEPT
       !.revision = @ + 1,
       !.status = IF Overrun(command) THEN "budget_exhausted" ELSE @,
       !.reserved = Held(command),
       !.actual = Spent(command),
       !.best = Better(@, command.candidate)]
  /\ reservations' = [reservations EXCEPT
       ![command.reservation].status =
          IF command.outcome = "completed" THEN "settled" ELSE "cancelled",
       ![command.reservation].actual = command.actual,
       ![command.reservation].candidate = command.candidate]

\* Mutant: the reservation's own status is not looked at, so it settles twice.
Settle_Again(k, command) ==
  /\ Fresh(k, command.at)
  /\ budget.status \in {"active", "budget_exhausted"}
  /\ reservations[command.reservation] # None
  /\ Applied(k, command)

Settle(k, command) ==
  /\ Fresh(k, command.at)
  /\ budget.status \in {"active", "budget_exhausted"}
  /\ Open(command.reservation)
  /\ Applied(k, command)

\* Mutant: the run is cancelled but its open reservations are left open.
CancelRun_RowOnly(k, command) ==
  /\ Fresh(k, command.at)
  /\ budget.status \in {"active", "budget_exhausted"}
  /\ Recorded(k, command, FALSE)
  /\ budget' = [budget EXCEPT !.revision = @ + 1, !.status = "cancelled", !.reserved = Zero]
  /\ UNCHANGED reservations

CancelRun(k, command) ==
  /\ Fresh(k, command.at)
  /\ budget.status \in {"active", "budget_exhausted"}
  /\ Recorded(k, command, FALSE)
  /\ budget' = [budget EXCEPT !.revision = @ + 1, !.status = "cancelled", !.reserved = Zero]
  /\ reservations' = [r \in Keys |->
       IF Open(r) THEN [reservations[r] EXCEPT !.status = "cancelled"] ELSE reservations[r]]

\* Mutant: a run is concluded over its open reservations.
Conclude_WithOpen(k, command) ==
  /\ Fresh(k, command.at)
  /\ budget.status \in {"active", "budget_exhausted"}
  /\ Recorded(k, command, FALSE)
  /\ budget' = [budget EXCEPT !.revision = @ + 1,
                              !.status = IF budget.best # None THEN "completed" ELSE @]
  /\ UNCHANGED reservations

\* Without a valid result the budget stays as it is, to be continued.
Conclude(k, command) ==
  /\ Fresh(k, command.at)
  /\ budget.reserved = Zero
  /\ budget.status \in {"active", "budget_exhausted"}
  /\ Recorded(k, command, FALSE)
  /\ budget' = [budget EXCEPT !.revision = @ + 1,
                              !.status = IF budget.best # None THEN "completed" ELSE @]
  /\ UNCHANGED reservations

(***************************************************************************)
(* A client sends a command with the revision it read, under its own key.  *)
(* A refused or replayed command changes nothing and is no step.           *)
(***************************************************************************)
ClientReserve(k) ==
  /\ \E estimate \in Estimates :
       Reserve(k, [action |-> "reserve", at |-> budget.revision, estimate |-> estimate])
  /\ UNCHANGED <<request, exec>>

ClientSettle(k) ==
  /\ \E r \in Keys, actual \in Usages, outcome \in Outcomes, candidate \in Candidates \cup {None} :
       Settle(k, [action |-> "settle", at |-> budget.revision, reservation |-> r,
                  actual |-> actual, outcome |-> outcome, candidate |-> candidate])
  /\ UNCHANGED <<request, exec>>

ClientCancels(k) ==
  /\ CancelRun(k, [action |-> "cancel-run", at |-> budget.revision])
  /\ UNCHANGED <<request, exec>>

ClientConcludes(k) ==
  /\ Conclude(k, [action |-> "conclude", at |-> budget.revision])
  /\ UNCHANGED <<request, exec>>

(***************************************************************************)
(* A batch of Director tools.  The first request fixes what the batch asks *)
(* for; its retries repeat it, at once or later, while an earlier          *)
(* handling may still be going on or may have stopped anywhere.            *)
(***************************************************************************)
Ask(e, b) ==
  /\ exec[e].pc = "idle"
  /\ request[b] = None
  /\ \E cost \in Costs : request' = [request EXCEPT ![b] = [at |-> budget.revision, cost |-> cost]]
  /\ exec' = [exec EXCEPT ![e] = [Idle EXCEPT !.pc = "asked", !.batch = b]]
  /\ UNCHANGED <<budget, reservations, events>>

Retry(e, b) ==
  /\ exec[e].pc = "idle"
  /\ request[b] # None
  /\ exec' = [exec EXCEPT ![e] = [Idle EXCEPT !.pc = "asked", !.batch = b]]
  /\ UNCHANGED <<budget, reservations, events, request>>

\* The context is read and the estimate compared with what remains.
Preflight(e) ==
  LET remaining == Minus(Limits, Plus(budget.actual, budget.reserved))[Spend]
  IN /\ exec[e].pc = "asked"
     /\ exec' = [exec EXCEPT ![e].pc =
          IF request[exec[e].batch].cost <= remaining THEN "reserving" ELSE "failed"]
     /\ UNCHANGED <<budget, reservations, events, request>>

BatchReserves(e) ==
  LET b == exec[e].batch
  IN /\ exec[e].pc = "reserving"
     /\ Reserve(Part(b, "reserve"),
                [action |-> "reserve", at |-> request[b].at, estimate |-> Estimate(b)])
     /\ exec' = [exec EXCEPT
          ![e].pc = IF Affordable(Estimate(b)) THEN "running" ELSE "failed",
          ![e].seen = budget.revision + 1]
     /\ UNCHANGED request

\* A retry gets the recorded answer: the reservation as it was opened and
\* the revision of that moment, whatever became of both since.
BatchReplays(e) ==
  LET event == events[Part(exec[e].batch, "reserve")]
  IN /\ exec[e].pc = "reserving"
     /\ event # None
     /\ exec' = [exec EXCEPT ![e].pc = IF event.opened THEN "running" ELSE "failed",
                             ![e].seen = event.revision]
     /\ UNCHANGED <<budget, reservations, events, request>>

BatchRefused(e) ==
  LET b == exec[e].batch
  IN /\ exec[e].pc = "reserving"
     /\ events[Part(b, "reserve")] = None
     /\ \/ request[b].at # budget.revision
        \/ budget.status # "active"
        \/ request[b].cost = 0
     /\ exec' = [exec EXCEPT ![e].pc = "failed"]
     /\ UNCHANGED <<budget, reservations, events, request>>

ToolsEnd(e) ==
  /\ exec[e].pc = "running"
  /\ \/ exec' = [exec EXCEPT ![e].pc = "threw"]
     \/ \E n \in Durations : exec' = [exec EXCEPT ![e].pc = "ran", ![e].took = n]
  /\ UNCHANGED <<budget, reservations, events, request>>

\* The settlement an execution sends: what it measured, or nothing when the
\* tools threw, at the revision its reservation left.
Settlement(e) ==
  LET b == exec[e].batch
  IN [action |-> "settle", at |-> exec[e].seen, reservation |-> Part(b, "reserve"),
      actual |-> IF exec[e].pc = "ran" THEN Report(b, exec[e].took) ELSE Zero,
      outcome |-> IF exec[e].pc = "ran" THEN "completed" ELSE "cancelled", candidate |-> None]
SettlementKey(e) ==
  Part(exec[e].batch, IF exec[e].pc = "ran" THEN "settle" ELSE "cancel")

BatchSettles(e) ==
  /\ exec[e].pc \in {"ran", "threw"}
  /\ Settle(SettlementKey(e), Settlement(e))
  /\ exec' = [exec EXCEPT ![e].pc = IF exec[e].pc = "ran" THEN "done" ELSE "failed"]
  /\ UNCHANGED request

\* Its settlement is answered from the event of an earlier one, is refused
\* because that one said otherwise, or because the budget moved on.
BatchNotSettled(e) ==
  LET event == events[SettlementKey(e)]
  IN /\ exec[e].pc \in {"ran", "threw"}
     /\ \/ event # None
        \/ exec[e].seen # budget.revision
     /\ exec' = [exec EXCEPT ![e].pc =
          IF event # None /\ event.command = Settlement(e) /\ exec[e].pc = "ran"
          THEN "done" ELSE "failed"]
     /\ UNCHANGED <<budget, reservations, events, request>>

Execution(e) ==
  \/ \E b \in Batches : Ask(e, b) \/ Retry(e, b)
  \/ Preflight(e)
  \/ BatchReserves(e) \/ BatchReplays(e) \/ BatchRefused(e)
  \/ ToolsEnd(e)
  \/ BatchSettles(e) \/ BatchNotSettled(e)

Client(k) ==
  ClientReserve(k) \/ ClientSettle(k) \/ ClientCancels(k) \/ ClientConcludes(k)

Next == (\E k \in ClientKeys : Client(k)) \/ (\E e \in Executions : Execution(e))

Spec == Init /\ [][Next]_vars

(***************************************************************************)
(* Safety                                                                  *)
(***************************************************************************)
Opened == {k \in Keys : reservations[k] # None}

\* What the row holds reserved is what its open reservations estimated, in
\* every dimension: neither a settlement that is sent again, nor a cancelled
\* run, nor the clamp at zero of the subtraction loses or frees too much.
ReservedIsOpenEstimates ==
  \A d \in Dimensions : budget.reserved[d] =
    SumFunction([k \in {r \in Opened : Open(r)} |-> reservations[k].estimate[d]])

\* What the row holds as used is what its reservations were settled at: each
\* operation is counted once, however often it is retried.
ActualIsSettledUsage ==
  \A d \in Dimensions :
    budget.actual[d] = SumFunction([k \in Opened |-> reservations[k].actual[d]])

\* A budget that still admits work has room for all of it: what was used and
\* what is promised stay within every limit, although a settlement may report
\* more than it reserved.
ActiveWithinLimits ==
  budget.status = "active" => ~Exceeds(budget.actual, budget.reserved)

\* The result a run ends with is the best valid candidate of its settlements,
\* in whatever order they were applied.
BestIsBestValid ==
  LET valid == {reservations[k].candidate : k \in {r \in Opened :
                  reservations[r].candidate # None /\ reservations[r].candidate.valid}}
  IN IF valid = {} THEN budget.best = None
     ELSE /\ budget.best \in valid
          /\ \A c \in valid : c # budget.best => ~RanksBefore(c, budget.best)

\* Every key changed the row at most once, and every change has its key: the
\* revision counts them.
OneEffectPerKey ==
  budget.revision = 1 + Cardinality({k \in Keys : events[k] # None})

\* A run that is over holds nothing reserved, so no work of it is open.
OverMeansClosed ==
  budget.status \in {"completed", "cancelled"} => \A k \in Keys : ~Open(k)

\* Once the budget is exhausted, or the run is over, no reservation is opened
\* any more, and one that is closed stays as it was closed.
ClosedForGood ==
  [][\A k \in Keys :
       /\ (budget.status # "active" /\ reservations[k] = None) => reservations'[k] = None
       /\ (reservations[k] # None /\ ~Open(k)) => reservations'[k] = reservations[k]]_vars

\* The row agrees with its reservations and with the commands that made it:
\* reserved, used and revised by each exactly once, and nothing is left open
\* behind a run that is over.
RowAccounts ==
  /\ TypeOK
  /\ ReservedIsOpenEstimates
  /\ ActualIsSettledUsage
  /\ OneEffectPerKey
  /\ OverMeansClosed
===================================================================================
