------------------------- MODULE OperationLifecycle -------------------------
(***************************************************************************)
(* What becomes of one operation, without clocks, leases, transactions or  *)
(* phases: it is open, held by a worker, or over.  An attempt begins when  *)
(* a worker takes it; a worker can lose it to the next attempt at any      *)
(* time, but an attempt is never given out twice and there are only as     *)
(* many as the budget.  A client may cancel what is not over and reopen    *)
(* what failed or was canceled.                                            *)
(*                                                                         *)
(* It is translated from the transition functions of                       *)
(* domain/public-operation.ts and what the repository compares before it   *)
(* writes their results; RenderOperations, where workers, requests and     *)
(* crashes interleave, implements it for each of its operations.           *)
(***************************************************************************)
EXTENDS Integers

CONSTANTS
    Workers,
    NoWorker,
    MaxAttempts,  \* the budget of a new operation
    Budgets       \* the budgets a reopening may lead to: a bound of the model

ASSUME BudgetAssumption == MaxAttempts \in Nat \ {0} /\ Budgets \subseteq Nat

ASSUME HolderAssumption == NoWorker \notin Workers

VARIABLES state, attempt, budget, holder

lifecycle == <<state, attempt, budget, holder>>

Over == {"succeeded", "failed", "canceled"}

Init ==
    /\ state = "open"
    /\ attempt = 0
    /\ budget = MaxAttempts
    /\ holder = NoWorker

\* The budget a retry grants that saw n attempts used.
Granted(n) == IF n < MaxAttempts THEN MaxAttempts ELSE n + 1

Become(s) == state' = s /\ holder' = NoWorker /\ UNCHANGED <<attempt, budget>>

\* Mutant: an attempt that is taken over is not counted.
Take_Uncounted(w) ==
    /\ state \notin Over
    /\ attempt < budget
    /\ state' = "held"
    /\ holder' = w
    /\ attempt' = IF state = "held" THEN attempt ELSE attempt + 1
    /\ budget' = budget

Take(w) ==
    /\ state \notin Over
    /\ attempt < budget
    /\ state' = "held"
    /\ holder' = w
    /\ attempt' = attempt + 1
    /\ budget' = budget

Succeed == state = "held" /\ Become("succeeded")

Fail == state = "held" /\ Become("failed")

Yield == state = "held" /\ attempt < budget /\ Become("open")

Cancel == state \notin Over /\ Become("canceled")

\* A retry counts the attempts it read; some may have been made since, as
\* the repository compares status and updatedAt alone.  All that is then
\* sure is that the row can be read back: no attempts beyond the budget.
Reopen ==
    /\ state \in {"failed", "canceled"}
    /\ state' = "open"
    /\ holder' = NoWorker
    /\ attempt' = attempt
    /\ \E seen \in 0..attempt : budget' = Granted(seen)
    /\ budget' >= attempt
    /\ budget' \in Budgets

\* How an attempt ends, by its worker's hand or by a claim that finds it dead.
EndAttempt == Succeed \/ Fail \/ Yield

Next ==
    \/ \E w \in Workers : Take(w)
    \/ EndAttempt
    \/ Cancel
    \/ Reopen

Safety == Init /\ [][Next]_lifecycle

(* Workers poll for as long as the service runs, and no attempt lasts      *)
(* forever: its worker ends it, or its lease runs out and a claim takes it *)
(* over or, without attempts left, closes it.                              *)
Fairness ==
    /\ WF_lifecycle(\E w \in Workers : Take(w))
    /\ WF_lifecycle(state = "held" /\ attempt = budget /\ EndAttempt)

Spec == Safety /\ Fairness

-----------------------------------------------------------------------------
(* Type invariant, and the budget: attempts never exceed it, and it is the *)
(* first budget or at most one attempt above those that were made, after   *)
(* any retries, whatever they had read.                                    *)
LifecycleTypeOK ==
    /\ state \in Over \cup {"open", "held"}
    /\ attempt \in Nat
    /\ budget \in MaxAttempts..Granted(attempt)
    /\ attempt <= budget
    /\ holder \in Workers \cup {NoWorker}
    /\ holder # NoWorker <=> state = "held"

\* What a retry leaves that counted too few attempts: no worker takes it.
Stranded == state = "open" /\ attempt >= budget

(* An operation does not go on forever: as attempts are counted and the    *)
(* budget is finite, it is over some day, and again after each reopening   *)
(* that leaves it an attempt.                                              *)
Ends == state \notin Over /\ ~Stranded ~> state \in Over
=============================================================================
