------------------------- MODULE DirectorBudget_proofs -------------------------
(***************************************************************************)
(* What holds of DirectorBudget for every set of dimensions, limits and    *)
(* amounts, all candidates, and any number of clients, batches and         *)
(* executions.                                                             *)
(*                                                                         *)
(* Two invariants carry it: IInv, of the tables and of the executions, and *)
(* on top of it Books, of the sums the row keeps of its reservations.      *)
(***************************************************************************)
EXTENDS DirectorBudget, FiniteSetTheorems, WellFoundedInduction, TLAPS

\* Every reservation was opened under its key.
Keyed == \A k \in Keys : reservations[k] # None => events[k] # None

\* An open reservation has no result yet.
Unjudged == \A k \in Keys : Open(k) => reservations[k].candidate = None

\* The best result is a valid result of a reservation, and none ranks before it.
Judged(k) ==
  /\ reservations[k] # None
  /\ reservations[k].candidate # None
  /\ reservations[k].candidate.valid
NoWorse(best, c) == best # None /\ (c = best \/ ~RanksBefore(c, best))
BestJudged ==
  /\ budget.best # None =>
       \E k \in Keys : Judged(k) /\ reservations[k].candidate = budget.best
  /\ \A k \in Keys : Judged(k) => NoWorse(budget.best, reservations[k].candidate)

Used == {k \in Keys : events[k] # None}

\* The three tables together.
RowsOK ==
  /\ budget \in Budget
  /\ reservations \in [Keys -> Reservation \cup {None}]
  /\ events \in [Keys -> Event \cup {None}]
  /\ Keyed /\ Unjudged /\ BestJudged /\ ActiveWithinLimits
  /\ IsFiniteSet(Used) /\ OneEffectPerKey

\* An execution has its batch, the batch its request, and what is to settle
\* the revision its reservation left.
ExecOK ==
  \A e \in Executions : exec[e].pc # "idle" =>
    /\ exec[e].batch \in Batches
    /\ request[exec[e].batch] # None
    /\ exec[e].pc \in {"running", "ran", "threw"} => exec[e].seen > 0

IInv == RowsOK /\ TypeOK /\ ExecOK

-----------------------------------------------------------------------------
(* Sums over finite sets.  SumFunctionOnSet takes the elements one by one, *)
(* as CHOOSE finds them; that the order does not matter, and what taking   *)
(* any one element out of it does to a sum, is proved from the definition. *)
(* The induction is over the finite subsets of a set: a set of them that   *)
(* holds every set whose proper subsets it holds, holds them all, as a     *)
(* minimal one it does not hold would contradict it.                       *)

LEMMA SubsetInduction ==
  ASSUME NEW S, IsFiniteSet(S), NEW Good,
         \A T \in SUBSET S : (\A U \in SUBSET T : U # T => U \in Good) => T \in Good
  PROVE  S \in Good
<1> DEFINE Bad == (SUBSET S) \ Good
<1>1. SUFFICES ASSUME Bad # {} PROVE FALSE
  BY <1>1
<1>2. IsWellFoundedOn(StrictSubsetOrdering(S), SUBSET S)
  BY FS_StrictSubsetOrderingWellFounded, FS_FiniteSubsetsOfFinite
<1>3. \E T \in Bad : \A U \in Bad : ~ (<<U, T>> \in StrictSubsetOrdering(S))
  <2>1. Bad \subseteq SUBSET S
    OBVIOUS
  <2> HIDE DEF Bad
  <2> QED
    BY <1>1, <1>2, <2>1, WFMin
<1>4. PICK T \in Bad : \A U \in Bad : ~ (<<U, T>> \in StrictSubsetOrdering(S))
  BY <1>3
<1>5. \A U \in SUBSET T : U # T => U \in Good
  BY <1>4 DEF StrictSubsetOrdering
<1> QED
  BY <1>5

\* The element a sum takes first.
Pick(s) == CHOOSE x \in s : TRUE

LEMMA Picked == ASSUME NEW s, s # {} PROVE Pick(s) \in s
BY DEF Pick

\* The function of the subsets of S that the definition of a sum recurses with.
IsSum(g, f, S) ==
  g = [s \in SUBSET S |-> IF s = {} THEN 0 ELSE f[Pick(s)] + g[s \ {Pick(s)}]]

\* A sum is the value of one of them.
LEMMA Unfold ==
  ASSUME NEW f, NEW S, \E h : IsSum(h, f, S)
  PROVE  \E g : IsSum(g, f, S) /\ SumFunctionOnSet(f, S) = g[S]
<1> DEFINE P(g) == IsSum(g, f, S)
<1>1. P(CHOOSE g : P(g))
  BY DEF P
<1> QED
  BY <1>1 DEF SumFunctionOnSet, FoldFunctionOnSet, MapThenFoldSet, IsSum, Pick

\* Such functions agree wherever both are defined, and there is one.
LEMMA SumIsUnique ==
  ASSUME NEW f, NEW S, IsFiniteSet(S), NEW R \in SUBSET S,
         NEW g, IsSum(g, f, S), NEW h, IsSum(h, f, R)
  PROVE  g[R] = h[R]
<1> DEFINE Good == {T \in SUBSET R : g[T] = h[T]}
<1>1. ASSUME NEW T \in SUBSET R, \A U \in SUBSET T : U # T => U \in Good
      PROVE  T \in Good
  <2>1. CASE T = {}
    BY <2>1 DEF IsSum
  <2>2. CASE T # {}
    <3>1. Pick(T) \in T
      BY <2>2, Picked
    <3>2. T \ {Pick(T)} \in Good
      BY <1>1, <3>1
    <3>3. g[T] = f[Pick(T)] + g[T \ {Pick(T)}]
      BY <2>2 DEF IsSum
    <3>4. h[T] = f[Pick(T)] + h[T \ {Pick(T)}]
      BY <2>2 DEF IsSum
    <3> QED
      BY <3>2, <3>3, <3>4
  <2> QED
    BY <2>1, <2>2
<1>2. IsFiniteSet(R)
  BY FS_Subset
<1>3. R \in Good
  <2> HIDE DEF Good
  <2> QED
    BY <1>1, <1>2, SubsetInduction
<1> QED
  BY <1>3

LEMMA SumExists ==
  ASSUME NEW f, NEW S, IsFiniteSet(S)
  PROVE  \E h : IsSum(h, f, S)
<1> DEFINE Good == {T \in SUBSET S : \E h : IsSum(h, f, T)}
<1>1. ASSUME NEW T \in SUBSET S, \A U \in SUBSET T : U # T => U \in Good
      PROVE  T \in Good
  <2> DEFINE Strict == {U \in SUBSET T : U # T}
             sum == [U \in Strict |-> SumFunctionOnSet(f, U)]
             h == [U \in SUBSET T |->
                     IF U = {} THEN 0 ELSE f[Pick(U)] + sum[U \ {Pick(U)}]]
  <2>1. ASSUME NEW U \in Strict PROVE sum[U] = h[U]
    <3>1. \E g : IsSum(g, f, U)
      BY <1>1, <2>1
    <3>2. PICK g : IsSum(g, f, U) /\ sum[U] = g[U]
      BY <3>1, Unfold
    <3>3. CASE U = {}
      BY <3>2, <3>3 DEF IsSum
    <3>4. CASE U # {}
      <4> DEFINE V == U \ {Pick(U)}
      <4>1. V \in Strict /\ V \in SUBSET U /\ IsFiniteSet(U)
        BY <3>4, Picked, FS_Subset
      <4>2. PICK k : IsSum(k, f, V) /\ sum[V] = k[V]
        <5>1. \E k : IsSum(k, f, V)
          BY <1>1, <4>1
        <5> QED
          BY <4>1, <5>1, Unfold
      <4>3. g[V] = k[V]
        <5> HIDE DEF V
        <5> QED
          BY <3>2, <4>1, <4>2, SumIsUnique
      <4>4. g[U] = f[Pick(U)] + g[V]
        BY <3>2, <3>4 DEF IsSum
      <4> QED
        BY <3>2, <3>4, <4>2, <4>3, <4>4
    <3> QED
      BY <3>3, <3>4
  <2>2. IsSum(h, f, T)
    <3>1. ASSUME NEW U \in SUBSET T, U # {} PROVE h[U] = f[Pick(U)] + h[U \ {Pick(U)}]
      <4>1. U \ {Pick(U)} \in Strict
        BY <3>1, Picked
      <4>2. h[U] = f[Pick(U)] + sum[U \ {Pick(U)}]
        BY <3>1
      <4> QED
        BY <4>1, <4>2, <2>1
    <3>2. h[{}] = 0
      OBVIOUS
    <3>3. h = [U \in SUBSET T |-> h[U]]
      OBVIOUS
    <3> HIDE DEF h
    <3>4. [U \in SUBSET T |-> h[U]]
            = [U \in SUBSET T |-> IF U = {} THEN 0 ELSE f[Pick(U)] + h[U \ {Pick(U)}]]
      BY <3>1, <3>2
    <3> QED
      BY <3>3, <3>4 DEF IsSum
  <2> QED
    BY <2>2
<1>2. S \in Good
  <2> HIDE DEF Good
  <2> QED
    BY <1>1, SubsetInduction
<1> QED
  BY <1>2

\* What a sum is, by its definition.
LEMMA SumFacts ==
  ASSUME NEW f, NEW S, IsFiniteSet(S)
  PROVE  /\ S = {} => SumFunctionOnSet(f, S) = 0
         /\ S # {} =>
              /\ Pick(S) \in S
              /\ SumFunctionOnSet(f, S) = f[Pick(S)] + SumFunctionOnSet(f, S \ {Pick(S)})
<1>1. PICK g : IsSum(g, f, S) /\ SumFunctionOnSet(f, S) = g[S]
  BY SumExists, Unfold
<1>2. CASE S = {}
  BY <1>1, <1>2 DEF IsSum
<1>3. CASE S # {}
  <2>1. Pick(S) \in S
    BY <1>3, Picked
  <2> DEFINE V == S \ {Pick(S)}
  <2>2. V \in SUBSET S /\ IsFiniteSet(V)
    BY FS_Subset
  <2>3. PICK k : IsSum(k, f, V) /\ SumFunctionOnSet(f, V) = k[V]
    <3> HIDE DEF V
    <3> QED
      BY <2>2, SumExists, Unfold
  <2>4. g[V] = k[V]
    <3> HIDE DEF V
    <3> QED
      BY <1>1, <2>2, <2>3, SumIsUnique
  <2>5. g[S] = f[Pick(S)] + g[V]
    BY <1>1, <1>3 DEF IsSum
  <2> QED
    BY <1>1, <1>3, <2>1, <2>3, <2>4, <2>5
<1> QED
  BY <1>2, <1>3

\* Sums of the same terms are equal.
LEMMA SumCongruence ==
  ASSUME NEW f, NEW g, NEW S, IsFiniteSet(S), \A x \in S : f[x] = g[x]
  PROVE  SumFunctionOnSet(f, S) = SumFunctionOnSet(g, S)
<1> DEFINE Good == {T \in SUBSET S : SumFunctionOnSet(f, T) = SumFunctionOnSet(g, T)}
<1>1. ASSUME NEW T \in SUBSET S, \A U \in SUBSET T : U # T => U \in Good
      PROVE  T \in Good
  <2>1. IsFiniteSet(T)
    BY FS_Subset
  <2>2. CASE T = {}
    BY <2>1, <2>2, SumFacts
  <2>3. CASE T # {}
    <3>1. Pick(T) \in T /\ Pick(T) \in S
      BY <2>1, <2>3, SumFacts
    <3>2. T \ {Pick(T)} \in Good
      BY <1>1, <3>1
    <3> QED
      BY <2>1, <2>3, <3>1, <3>2, SumFacts
  <2> QED
    BY <2>2, <2>3
<1>2. S \in Good
  <2> HIDE DEF Good
  <2> QED
    BY <1>1, SubsetInduction
<1> QED
  BY <1>2

\* Any term may be taken out of a sum first.
LEMMA SumSplit ==
  ASSUME NEW S, IsFiniteSet(S), NEW f, \A x \in S : f[x] \in Nat
  PROVE  /\ SumFunctionOnSet(f, S) \in Nat
         /\ \A x \in S : SumFunctionOnSet(f, S) = f[x] + SumFunctionOnSet(f, S \ {x})
<1> DEFINE Splits(T) ==
             /\ SumFunctionOnSet(f, T) \in Nat
             /\ \A x \in T : SumFunctionOnSet(f, T) = f[x] + SumFunctionOnSet(f, T \ {x})
           Good == {T \in SUBSET S : Splits(T)}
<1>1. ASSUME NEW T \in SUBSET S, \A U \in SUBSET T : U # T => U \in Good
      PROVE  T \in Good
  <2>1. IsFiniteSet(T)
    BY FS_Subset
  <2>2. CASE T = {}
    <3>1. SumFunctionOnSet(f, T) = 0
      BY <2>1, <2>2, SumFacts
    <3> QED
      BY <2>2, <3>1
  <2>3. CASE T # {}
    <3> DEFINE p == Pick(T)
               Sum(U) == SumFunctionOnSet(f, U)
    <3>1. p \in T /\ Sum(T) = f[p] + Sum(T \ {p})
      BY <2>1, <2>3, SumFacts
    <3> HIDE DEF p, Sum
    <3>2. ASSUME NEW x \in T
          PROVE  /\ f[x] \in Nat /\ Sum(T \ {x}) \in Nat
                 /\ \A y \in T \ {x} : /\ Sum(T \ {x}) = f[y] + Sum((T \ {x}) \ {y})
                                      /\ Sum((T \ {x}) \ {y}) \in Nat
      <4>1. \A y \in T \ {x} : (T \ {x}) \ {y} \in Good
        BY <1>1
      <4>2. T \ {x} \in Good
        BY <1>1
      <4> QED
        BY <4>1, <4>2 DEF Sum
    <3>3. ASSUME NEW x \in T, x # p PROVE Sum(T) = f[x] + Sum(T \ {x})
      <4>1. (T \ {x}) \ {p} = (T \ {p}) \ {x}
        OBVIOUS
      <4>2. Sum(T \ {p}) = f[x] + Sum((T \ {p}) \ {x})
        BY <3>1, <3>2, <3>3
      <4>3. Sum(T \ {x}) = f[p] + Sum((T \ {p}) \ {x})
        BY <3>1, <3>2, <3>3, <4>1
      <4>4. f[x] \in Nat /\ f[p] \in Nat /\ Sum((T \ {p}) \ {x}) \in Nat
        BY <3>1, <3>2, <3>3
      <4> QED
        BY <3>1, <4>2, <4>3, <4>4
    <3>4. Sum(T) \in Nat
      BY <3>1, <3>2
    <3>5. \A x \in T : Sum(T) = f[x] + Sum(T \ {x})
      BY <3>1, <3>3
    <3> QED
      BY <3>4, <3>5 DEF Sum
  <2> QED
    BY <2>2, <2>3
<1>2. S \in Good
  <2> HIDE DEF Good
  <2> QED
    BY <1>1, SubsetInduction
<1> QED
  BY <1>2

-----------------------------------------------------------------------------
(* Amounts, and the order of candidates.                                   *)

LEMMA PlusIs == ASSUME NEW a \in Amounts, NEW b \in Amounts PROVE Plus(a, b) \in Amounts
BY DEF Amounts, Plus

LEMMA MinusIs == ASSUME NEW a \in Amounts, NEW b \in Amounts PROVE Minus(a, b) \in Amounts
<1>1. \A d \in Dimensions : (IF a[d] > b[d] THEN a[d] - b[d] ELSE 0) \in Nat
  BY DEF Amounts
<1> QED
  BY <1>1 DEF Amounts, Minus

LEMMA ZeroIs == Zero \in Amounts
BY DEF Amounts, Zero

LEMMA OnlyIs == ASSUME NEW d \in Dimensions, NEW n \in Nat PROVE Only(d, n) \in Amounts
BY DEF Amounts, Only, Zero

\* Taking the better of two candidates leaves none that ranks before it, of
\* those that did not rank before the first.
LEMMA BetterIs ==
  ASSUME NEW best \in Candidates \cup {None}, NEW c \in Candidates \cup {None}
  PROVE /\ Better(best, c) \in Candidates \cup {None}
        /\ \/ Better(best, c) = best
           \/ Better(best, c) = c /\ c # None /\ c.valid
        /\ c # None /\ c.valid => NoWorse(Better(best, c), c)
        /\ \A d \in Candidates : NoWorse(best, d) => NoWorse(Better(best, c), d)
<1>1. \A x \in Candidates : x.score \in Nat /\ x.id \in Nat /\ x # None
  BY BudgetAssumption, AbsenceAssumption
<1>2. CASE c # None /\ c.valid /\ RanksBefore(c, best)
  <2>1. Better(best, c) = c
    BY <1>2 DEF Better
  <2>2. NoWorse(c, c)
    BY <1>2 DEF NoWorse
  <2>3. ASSUME NEW d \in Candidates, NoWorse(best, d) PROVE NoWorse(c, d)
    <3>1. best \in Candidates /\ c \in Candidates
      BY <1>2, <2>3 DEF NoWorse
    <3>2. CASE d = best
      BY <1>1, <1>2, <3>1, <3>2 DEF NoWorse, RanksBefore
    <3>3. CASE ~RanksBefore(d, best)
      BY <1>1, <1>2, <3>1, <3>3 DEF NoWorse, RanksBefore
    <3> QED
      BY <2>3, <3>2, <3>3 DEF NoWorse
  <2> QED
    BY <1>2, <2>1, <2>2, <2>3
<1>3. CASE ~(c # None /\ c.valid /\ RanksBefore(c, best))
  <2>1. Better(best, c) = best
    BY <1>3 DEF Better
  <2>2. c # None /\ c.valid => NoWorse(best, c)
    BY <1>3 DEF NoWorse, RanksBefore
  <2> QED
    BY <2>1, <2>2
<1> QED
  BY <1>2, <1>3

-----------------------------------------------------------------------------
(* The transactions.                                                       *)

\* Every one of them records its key and counts it in the revision.
LEMMA RecordedIs ==
  ASSUME RowsOK, NEW k \in Keys, NEW command \in Commands, NEW opened \in BOOLEAN,
         events[k] = None, Recorded(k, command, opened),
         budget'.revision = budget.revision + 1
  PROVE /\ events' \in [Keys -> Event \cup {None}]
        /\ events'[k] # None
        /\ \A x \in Keys : x # k => events'[x] = events[x]
        /\ IsFiniteSet(Used)' /\ OneEffectPerKey'
<1>1. PICK row : row = [command |-> command, revision |-> budget.revision + 1,
                        opened |-> opened]
  OBVIOUS
<1>2. row \in Event /\ row # None
  <2>1. budget.revision + 1 \in Nat \ {0}
    BY DEF RowsOK, Budget
  <2>2. row \in Event
    BY <1>1, <2>1 DEF Event
  <2> QED
    BY <2>2, AbsenceAssumption
<1>3. events' = [events EXCEPT ![k] = row]
  BY <1>1 DEF Recorded
<1>4. /\ events' \in [Keys -> Event \cup {None}] /\ events'[k] # None
      /\ \A x \in Keys : x # k => events'[x] = events[x]
  BY <1>2, <1>3 DEF RowsOK
<1>5. Used' = Used \cup {k} /\ k \notin Used
  BY <1>4 DEF Used
<1>6. IsFiniteSet(Used') /\ Cardinality(Used') = Cardinality(Used) + 1
  BY <1>5, FS_AddElement DEF RowsOK
<1>7. budget.revision = 1 + Cardinality(Used)
  BY DEF RowsOK, OneEffectPerKey, Used
<1>8. OneEffectPerKey'
  <2>1. Cardinality(Used) \in Nat
    BY FS_CardinalityType DEF RowsOK
  <2>2. budget'.revision = 1 + Cardinality(Used')
    BY <1>6, <1>7, <2>1
  <2> QED
    BY <2>2 DEF OneEffectPerKey, Used
<1> QED
  BY <1>4, <1>6, <1>8

\* The best result is judged by the results there are.
LEMMA BestKept ==
  ASSUME BestJudged, budget'.best = budget.best,
         \A x \in Keys : Judged(x)' <=> Judged(x),
         \A x \in Keys : Judged(x) => reservations'[x].candidate = reservations[x].candidate
  PROVE BestJudged'
BY DEF BestJudged

LEMMA ReserveKeeps ==
  ASSUME RowsOK, NEW k \in Keys, NEW command \in ReserveCommands, Reserve(k, command)
  PROVE RowsOK'
<1>1. command.estimate \in Amounts /\ command \in Commands
  BY DEF ReserveCommands, Commands
<1>2. /\ budget.revision \in Nat \ {0} /\ budget.reserved \in Amounts
      /\ budget.actual \in Amounts /\ budget.best \in Candidates \cup {None}
  BY DEF RowsOK, Budget
<1>3. events[k] = None /\ reservations[k] = None
  BY DEF Reserve, Fresh, RowsOK, Keyed
<1>4. PICK afford \in BOOLEAN : afford = Affordable(command.estimate)
  BY DEF Affordable, Exceeds
<1>5. PICK next \in Nat \ {0} : next = budget.revision + 1
  BY <1>2
<1>6. Recorded(k, command, afford)
  BY <1>4 DEF Reserve, Decided
<1>7. CASE afford
  <2>1. PICK held \in Amounts : held = Plus(budget.reserved, command.estimate)
    BY <1>1, <1>2, PlusIs
  <2>2. budget' = [budget EXCEPT !.revision = next, !.reserved = held]
    BY <1>4, <1>5, <1>7, <2>1 DEF Reserve, Decided
  <2>3. PICK row : row = [status |-> "reserved", estimate |-> command.estimate,
                          actual |-> Zero, candidate |-> None]
    OBVIOUS
  <2>4. row \in Reservation /\ row # None
    <3>1. row \in Reservation
      BY <1>1, <2>3, ZeroIs DEF Reservation
    <3> QED
      BY <3>1, AbsenceAssumption
  <2>5. reservations' = [reservations EXCEPT ![k] = row]
    BY <1>4, <1>7, <2>3 DEF Reserve, Decided
  <2>6. /\ budget' \in Budget /\ budget'.revision = next /\ budget'.reserved = held
        /\ budget'.actual = budget.actual /\ budget'.best = budget.best
    BY <1>2, <2>2 DEF RowsOK, Budget
  <2>7. /\ reservations' \in [Keys -> Reservation \cup {None}]
        /\ reservations'[k] = row
        /\ \A x \in Keys : x # k => reservations'[x] = reservations[x]
    BY <2>4, <2>5 DEF RowsOK
  <2>8. /\ events' \in [Keys -> Event \cup {None}] /\ events'[k] # None
        /\ \A x \in Keys : x # k => events'[x] = events[x]
        /\ IsFiniteSet(Used)' /\ OneEffectPerKey'
    BY <1>1, <1>3, <1>5, <1>6, <2>6, RecordedIs
  <2>9. Keyed'
    BY <2>7, <2>8 DEF RowsOK, Keyed
  <2>10. Unjudged'
    BY <2>3, <2>7 DEF RowsOK, Unjudged, Open
  <2>11. BestJudged'
    <3>1. \A x \in Keys : Judged(x)' <=> Judged(x)
      BY <1>3, <2>3, <2>7 DEF Judged
    <3>2. \A x \in Keys : Judged(x) => reservations'[x].candidate = reservations[x].candidate
      BY <1>3, <2>7 DEF Judged
    <3> QED
      BY <2>6, <3>1, <3>2, BestKept DEF RowsOK
  <2>12. ActiveWithinLimits'
    <3>1. ~Exceeds(budget.actual, held)
      BY <1>4, <1>7, <2>1 DEF Affordable
    <3> QED
      BY <2>6, <3>1 DEF ActiveWithinLimits, Exceeds
  <2> QED
    BY <2>6, <2>7, <2>8, <2>9, <2>10, <2>11, <2>12 DEF RowsOK
<1>8. CASE ~afford
  <2>1. budget' = [budget EXCEPT !.revision = next, !.status = "budget_exhausted"]
    BY <1>4, <1>5, <1>8 DEF Reserve, Decided
  <2>2. reservations' = reservations
    BY <1>4, <1>8 DEF Reserve, Decided
  <2>3. /\ budget' \in Budget /\ budget'.revision = next
        /\ budget'.status = "budget_exhausted" /\ budget'.best = budget.best
    BY <1>2, <2>1 DEF RowsOK, Budget
  <2>4. /\ events' \in [Keys -> Event \cup {None}] /\ events'[k] # None
        /\ \A x \in Keys : x # k => events'[x] = events[x]
        /\ IsFiniteSet(Used)' /\ OneEffectPerKey'
    BY <1>1, <1>3, <1>5, <1>6, <2>3, RecordedIs
  <2>5. Keyed' /\ Unjudged'
    BY <2>2, <2>4 DEF RowsOK, Keyed, Unjudged, Open
  <2>6. BestJudged'
    BY <2>2, <2>3, BestKept DEF RowsOK, Judged
  <2>7. ActiveWithinLimits'
    BY <2>3 DEF ActiveWithinLimits
  <2> QED
    BY <2>2, <2>3, <2>4, <2>5, <2>6, <2>7 DEF RowsOK
<1> QED
  BY <1>7, <1>8

LEMMA SettleKeeps ==
  ASSUME RowsOK, NEW k \in Keys, NEW command \in SettleCommands, Settle(k, command)
  PROVE RowsOK'
<1>1. PICK r \in Keys : r = command.reservation
  BY DEF SettleCommands
<1>2. PICK c \in Candidates \cup {None} : c = command.candidate
  BY DEF SettleCommands
<1>3. command.actual \in Amounts /\ command \in Commands
  BY DEF SettleCommands, Commands
<1>4. /\ budget.revision \in Nat \ {0} /\ budget.reserved \in Amounts
      /\ budget.actual \in Amounts /\ budget.best \in Candidates \cup {None}
      /\ budget.status \in {"active", "budget_exhausted", "cancelled", "completed"}
  BY DEF RowsOK, Budget
<1>5. events[k] = None /\ Open(r) /\ Applied(k, command)
  BY <1>1 DEF Settle, Fresh
<1>6. reservations[r] \in Reservation /\ reservations[r].candidate = None
  BY <1>5 DEF RowsOK, Open, Unjudged
<1>7. PICK next \in Nat \ {0} : next = budget.revision + 1
  BY <1>4
<1>8. PICK held \in Amounts : held = Held(command)
  BY <1>1, <1>4, <1>6, MinusIs DEF Held, Reservation
<1>9. PICK spent \in Amounts : spent = Spent(command)
  BY <1>3, <1>4, PlusIs DEF Spent
<1>10. PICK best \in Candidates \cup {None} : best = Better(budget.best, c)
  BY <1>4, BetterIs
<1>11. PICK status \in {"active", "budget_exhausted", "cancelled", "completed"} :
         status = IF Overrun(command) THEN "budget_exhausted" ELSE budget.status
  BY <1>4
<1>12. budget' = [budget EXCEPT !.revision = next, !.status = status,
                    !.reserved = held, !.actual = spent, !.best = best]
  BY <1>2, <1>5, <1>7, <1>8, <1>9, <1>10, <1>11 DEF Applied
<1>13. /\ budget' \in Budget /\ budget'.revision = next /\ budget'.status = status
       /\ budget'.reserved = held /\ budget'.actual = spent /\ budget'.best = best
  BY <1>12 DEF RowsOK, Budget
<1>14. PICK end \in {"settled", "cancelled"} :
         end = IF command.outcome = "completed" THEN "settled" ELSE "cancelled"
  OBVIOUS
<1>15. PICK row : row = [reservations[r] EXCEPT !.status = end,
                           !.actual = command.actual, !.candidate = c]
  OBVIOUS
<1>16. row \in Reservation /\ row # None /\ row.status # "reserved" /\ row.candidate = c
  <2>1. row \in Reservation
    BY <1>3, <1>6, <1>15 DEF Reservation
  <2> QED
    BY <1>6, <1>15, <2>1, AbsenceAssumption DEF Reservation
<1>17. reservations' = [reservations EXCEPT ![r] = row]
  BY <1>1, <1>2, <1>5, <1>14, <1>15 DEF Applied, RowsOK
<1>18. /\ reservations' \in [Keys -> Reservation \cup {None}]
       /\ reservations'[r] = row
       /\ \A x \in Keys : x # r => reservations'[x] = reservations[x]
  BY <1>16, <1>17 DEF RowsOK
<1>19. /\ events' \in [Keys -> Event \cup {None}] /\ events'[k] # None
       /\ \A x \in Keys : x # k => events'[x] = events[x]
       /\ IsFiniteSet(Used)' /\ OneEffectPerKey'
  BY <1>3, <1>5, <1>7, <1>13, RecordedIs DEF Applied
<1>20. Keyed'
  <2>1. events[r] # None
    BY <1>5 DEF Open, RowsOK, Keyed
  <2> QED
    BY <1>18, <1>19, <2>1 DEF RowsOK, Keyed
<1>21. Unjudged'
  BY <1>16, <1>18 DEF RowsOK, Unjudged, Open
<1>22. /\ ~Judged(r)
       /\ Judged(r)' <=> c # None /\ c.valid
       /\ reservations'[r].candidate = c
       /\ \A x \in Keys : x # r => /\ Judged(x)' <=> Judged(x)
                                   /\ reservations'[x] = reservations[x]
  BY <1>6, <1>16, <1>18 DEF Judged
<1>23. BestJudged'
  <2>1. ASSUME best # None
        PROVE \E x \in Keys : Judged(x)' /\ reservations'[x].candidate = best
    <3>1. CASE best = c /\ c # None /\ c.valid
      BY <1>22, <3>1
    <3>2. CASE best = budget.best
      <4>1. PICK x \in Keys : Judged(x) /\ reservations[x].candidate = budget.best
        BY <2>1, <3>2 DEF RowsOK, BestJudged
      <4> QED
        BY <1>22, <3>2, <4>1
    <3> QED
      BY <1>4, <1>10, <3>1, <3>2, BetterIs
  <2>2. ASSUME NEW x \in Keys, Judged(x)'
        PROVE NoWorse(best, reservations'[x].candidate)
    <3>1. CASE x = r
      BY <1>4, <1>10, <1>22, <2>2, <3>1, BetterIs
    <3>2. CASE x # r
      <4>1. PICK d : d = reservations[x].candidate
        OBVIOUS
      <4>2. NoWorse(budget.best, d) /\ d \in Candidates
        BY <1>22, <2>2, <3>2, <4>1 DEF RowsOK, BestJudged, Judged, Reservation
      <4>3. NoWorse(best, d)
        BY <1>4, <1>10, <4>2, BetterIs
      <4> QED
        BY <1>22, <3>2, <4>1, <4>3
    <3> QED
      BY <3>1, <3>2
  <2> QED
    BY <1>13, <2>1, <2>2 DEF BestJudged, NoWorse
<1>24. ActiveWithinLimits'
  <2>1. status = "active" => ~Exceeds(spent, held)
    BY <1>8, <1>9, <1>11 DEF Overrun
  <2> QED
    BY <1>13, <2>1 DEF ActiveWithinLimits, Exceeds
<1> QED
  BY <1>13, <1>18, <1>19, <1>20, <1>21, <1>23, <1>24 DEF RowsOK

LEMMA CancelRunKeeps ==
  ASSUME RowsOK, NEW k \in Keys, NEW command \in PlainCommands, CancelRun(k, command)
  PROVE RowsOK'
<1>1. /\ budget.revision \in Nat \ {0} /\ command \in Commands
      /\ events[k] = None /\ Recorded(k, command, FALSE)
  BY DEF RowsOK, Budget, Commands, CancelRun, Fresh
<1>2. PICK next \in Nat \ {0} : next = budget.revision + 1
  BY <1>1
<1>3. budget' = [budget EXCEPT !.revision = next, !.status = "cancelled",
                               !.reserved = Zero]
  BY <1>2 DEF CancelRun
<1>4. /\ budget' \in Budget /\ budget'.revision = next
      /\ budget'.status = "cancelled" /\ budget'.best = budget.best
  BY <1>3, ZeroIs DEF RowsOK, Budget
<1>5. /\ events' \in [Keys -> Event \cup {None}] /\ events'[k] # None
      /\ \A x \in Keys : x # k => events'[x] = events[x]
      /\ IsFiniteSet(Used)' /\ OneEffectPerKey'
  BY <1>1, <1>2, <1>4, RecordedIs
<1>6. \A x \in Keys :
        reservations'[x] = IF Open(x) THEN [reservations[x] EXCEPT !.status = "cancelled"]
                           ELSE reservations[x]
  BY DEF CancelRun
<1>7. \A x \in Keys :
        Open(x) => /\ reservations'[x] \in Reservation /\ reservations'[x] # None
                   /\ reservations'[x].status = "cancelled"
                   /\ reservations'[x].candidate = None
                   /\ reservations[x] # None
  <2> SUFFICES ASSUME NEW x \in Keys, Open(x)
               PROVE /\ reservations'[x] \in Reservation /\ reservations'[x] # None
                     /\ reservations'[x].status = "cancelled"
                     /\ reservations'[x].candidate = None
                     /\ reservations[x] # None
    OBVIOUS
  <2>1. /\ reservations[x] \in Reservation /\ reservations[x] # None
        /\ reservations[x].candidate = None
    BY DEF RowsOK, Open, Unjudged
  <2>2. PICK row : row = [reservations[x] EXCEPT !.status = "cancelled"]
    OBVIOUS
  <2>3. row \in Reservation /\ row.status = "cancelled" /\ row.candidate = None
    BY <2>1, <2>2 DEF Reservation
  <2> QED
    BY <1>6, <2>1, <2>2, <2>3, AbsenceAssumption
<1>8. reservations' \in [Keys -> Reservation \cup {None}]
  <2>1. \A x \in Keys : reservations'[x] \in Reservation \cup {None}
    BY <1>6, <1>7 DEF RowsOK
  <2> QED
    BY <2>1 DEF CancelRun
<1>9. Keyed' /\ Unjudged'
  BY <1>5, <1>6, <1>7 DEF RowsOK, Keyed, Unjudged, Open
<1>10. BestJudged'
  <2>1. \A x \in Keys : Judged(x)' <=> Judged(x)
    BY <1>6, <1>7 DEF Judged, RowsOK, Unjudged
  <2>2. \A x \in Keys : Judged(x) => reservations'[x].candidate = reservations[x].candidate
    BY <1>6, <1>7 DEF Judged, RowsOK, Unjudged
  <2> QED
    BY <1>4, <2>1, <2>2, BestKept DEF RowsOK
<1>11. ActiveWithinLimits'
  BY <1>4 DEF ActiveWithinLimits
<1> QED
  BY <1>4, <1>5, <1>8, <1>9, <1>10, <1>11 DEF RowsOK

LEMMA ConcludeKeeps ==
  ASSUME RowsOK, NEW k \in Keys, NEW command \in PlainCommands, Conclude(k, command)
  PROVE RowsOK'
<1>1. /\ budget.revision \in Nat \ {0} /\ command \in Commands
      /\ budget.status \in {"active", "budget_exhausted", "cancelled", "completed"}
      /\ events[k] = None /\ Recorded(k, command, FALSE)
  BY DEF RowsOK, Budget, Commands, Conclude, Fresh
<1>2. PICK next \in Nat \ {0} : next = budget.revision + 1
  BY <1>1
<1>3. PICK status \in {"active", "budget_exhausted", "cancelled", "completed"} :
        status = IF budget.best # None THEN "completed" ELSE budget.status
  BY <1>1
<1>4. budget' = [budget EXCEPT !.revision = next, !.status = status]
  BY <1>2, <1>3 DEF Conclude
<1>5. /\ budget' \in Budget /\ budget'.revision = next /\ budget'.status = status
      /\ budget'.best = budget.best /\ budget'.actual = budget.actual
      /\ budget'.reserved = budget.reserved
  BY <1>4 DEF RowsOK, Budget
<1>6. /\ events' \in [Keys -> Event \cup {None}] /\ events'[k] # None
      /\ \A x \in Keys : x # k => events'[x] = events[x]
      /\ IsFiniteSet(Used)' /\ OneEffectPerKey'
  BY <1>1, <1>2, <1>5, RecordedIs
<1>7. reservations' = reservations
  BY DEF Conclude
<1>8. Keyed' /\ Unjudged'
  BY <1>6, <1>7 DEF RowsOK, Keyed, Unjudged, Open
<1>9. BestJudged'
  BY <1>5, <1>7, BestKept DEF RowsOK, Judged
<1>10. ActiveWithinLimits'
  BY <1>3, <1>5 DEF RowsOK, ActiveWithinLimits, Exceeds
<1> QED
  BY <1>5, <1>6, <1>7, <1>8, <1>9, <1>10 DEF RowsOK

LEMMA RowsKept == ASSUME RowsOK, UNCHANGED <<budget, reservations, events>> PROVE RowsOK'
<1>1. Used' = Used
  BY DEF Used
<1>2. IsFiniteSet(Used)' /\ OneEffectPerKey'
  BY <1>1 DEF RowsOK, OneEffectPerKey, Used
<1>3. Keyed' /\ Unjudged' /\ BestJudged' /\ ActiveWithinLimits'
  BY DEF RowsOK, Keyed, Unjudged, Open, BestJudged, Judged, ActiveWithinLimits, Exceeds
<1> QED
  BY <1>2, <1>3 DEF RowsOK

-----------------------------------------------------------------------------
(* The books: the row's sums, reservation by reservation.                  *)

OpenKeys == {k \in Opened : Open(k)}
Estimated(d) == [k \in OpenKeys |-> reservations[k].estimate[d]]
Reported(d) == [k \in Opened |-> reservations[k].actual[d]]

\* An open reservation has used nothing yet, and asked for something: that is
\* why a row with nothing reserved has none open.
Pending ==
  \A k \in Keys : Open(k) =>
    /\ reservations[k].actual = Zero
    /\ \E d \in Dimensions : reservations[k].estimate[d] > 0

Books == ReservedIsOpenEstimates /\ ActualIsSettledUsage /\ OverMeansClosed /\ Pending

LEMMA BooksAre ==
  /\ ReservedIsOpenEstimates
       <=> \A d \in Dimensions : budget.reserved[d] = SumFunction(Estimated(d))
  /\ ActualIsSettledUsage
       <=> \A d \in Dimensions : budget.actual[d] = SumFunction(Reported(d))
BY DEF ReservedIsOpenEstimates, ActualIsSettledUsage, Estimated, Reported, OpenKeys

LEMMA OpenedIs ==
  ASSUME RowsOK
  PROVE /\ IsFiniteSet(Opened) /\ IsFiniteSet(OpenKeys) /\ OpenKeys \subseteq Opened
        /\ \A k \in Opened, d \in Dimensions :
             /\ k \in Keys
             /\ reservations[k].estimate[d] \in Nat /\ reservations[k].actual[d] \in Nat
<1>1. Opened \subseteq Used /\ OpenKeys \subseteq Opened
  BY DEF RowsOK, Keyed, Opened, Used, OpenKeys
<1>2. IsFiniteSet(Opened) /\ IsFiniteSet(OpenKeys)
  BY <1>1, FS_Subset DEF RowsOK
<1>3. \A k \in Opened : /\ k \in Keys
                        /\ reservations[k].estimate \in Amounts
                        /\ reservations[k].actual \in Amounts
  BY DEF Opened, RowsOK, Reservation
<1> QED
  BY <1>1, <1>2, <1>3 DEF Amounts

\* Rows that are only revised, in their status or their best, keep the books.
LEMMA RevisedBooks ==
  ASSUME Books, UNCHANGED reservations, budget'.reserved = budget.reserved,
         budget'.actual = budget.actual,
         budget'.status \in {"completed", "cancelled"} => \A k \in Keys : ~Open(k)
  PROVE Books'
<1>1. Opened' = Opened /\ OpenKeys' = OpenKeys
  BY DEF Opened, OpenKeys, Open
<1>2. \A d \in Dimensions : Estimated(d)' = Estimated(d) /\ Reported(d)' = Reported(d)
  BY <1>1 DEF Estimated, Reported
<1>3. ReservedIsOpenEstimates' /\ ActualIsSettledUsage'
  BY <1>2, BooksAre DEF Books, ReservedIsOpenEstimates, ActualIsSettledUsage,
     Estimated, Reported, OpenKeys
<1>4. OverMeansClosed' /\ Pending'
  BY DEF Books, OverMeansClosed, Pending, Open
<1> QED
  BY <1>3, <1>4 DEF Books

\* A sum with one more term.
LEMMA SumGrows ==
  ASSUME NEW S, IsFiniteSet(S), NEW x, x \notin S,
         NEW f, DOMAIN f = S, NEW g, DOMAIN g = S \cup {x}, g[x] \in Nat,
         \A y \in S : g[y] = f[y] /\ f[y] \in Nat
  PROVE SumFunction(f) \in Nat /\ SumFunction(g) = g[x] + SumFunction(f)
<1> DEFINE R == S \cup {x}
<1>1. IsFiniteSet(R) /\ x \in R /\ R \ {x} = S
  BY FS_AddElement
<1>2. \A y \in R : g[y] \in Nat
  OBVIOUS
<1>3. SumFunctionOnSet(g, R) = g[x] + SumFunctionOnSet(g, R \ {x})
  <2> HIDE DEF R
  <2> QED
    BY <1>1, <1>2, SumSplit
<1>4. SumFunctionOnSet(g, S) = SumFunctionOnSet(f, S)
  BY SumCongruence
<1>5. SumFunctionOnSet(f, S) \in Nat
  BY SumSplit
<1> QED
  BY <1>1, <1>3, <1>4, <1>5 DEF SumFunction

\* A sum with one term that was zero.
LEMMA SumRaised ==
  ASSUME NEW S, IsFiniteSet(S), NEW x \in S,
         NEW f, DOMAIN f = S, NEW g, DOMAIN g = S, f[x] = 0, g[x] \in Nat,
         \A y \in S \ {x} : g[y] = f[y] /\ f[y] \in Nat
  PROVE SumFunction(f) \in Nat /\ SumFunction(g) = g[x] + SumFunction(f)
<1>1. IsFiniteSet(S \ {x})
  BY FS_Subset
<1>2. /\ SumFunctionOnSet(f, S) = f[x] + SumFunctionOnSet(f, S \ {x})
      /\ SumFunctionOnSet(f, S) \in Nat
  BY SumSplit
<1>3. SumFunctionOnSet(g, S) = g[x] + SumFunctionOnSet(g, S \ {x})
  BY SumSplit
<1>4. /\ SumFunctionOnSet(g, S \ {x}) = SumFunctionOnSet(f, S \ {x})
      /\ SumFunctionOnSet(f, S \ {x}) \in Nat
  BY <1>1, SumCongruence, SumSplit
<1> QED
  BY <1>2, <1>3, <1>4 DEF SumFunction

LEMMA ReserveBooks ==
  ASSUME RowsOK, Books, NEW k \in Keys, NEW command \in ReserveCommands, Reserve(k, command)
  PROVE Books'
<1>1. /\ reservations[k] = None /\ budget.status = "active"
      /\ command.estimate \in Amounts /\ \E d \in Dimensions : command.estimate[d] > 0
      /\ budget.reserved \in Amounts
  BY DEF Reserve, Fresh, RowsOK, Keyed, ReserveCommands, Budget
<1>2. CASE Affordable(command.estimate)
  <2>1. PICK row : row = [status |-> "reserved", estimate |-> command.estimate,
                          actual |-> Zero, candidate |-> None]
    OBVIOUS
  <2>2. row \in Reservation /\ row # None
    <3>1. row \in Reservation
      BY <1>1, <2>1, ZeroIs DEF Reservation
    <3> QED
      BY <3>1, AbsenceAssumption
  <2>3. reservations' = [reservations EXCEPT ![k] = row]
    BY <1>2, <2>1 DEF Reserve, Decided
  <2>4. /\ reservations'[k] = row
        /\ \A x \in Keys : x # k => reservations'[x] = reservations[x]
    BY <2>3 DEF RowsOK
  <2>5. /\ budget'.reserved = Plus(budget.reserved, command.estimate)
        /\ budget'.actual = budget.actual /\ budget'.status = "active"
    BY <1>1, <1>2 DEF Reserve, Decided, RowsOK, Budget
  <2>6. /\ Opened' = Opened \cup {k} /\ OpenKeys' = OpenKeys \cup {k}
        /\ k \notin Opened /\ k \notin OpenKeys
    BY <1>1, <2>1, <2>2, <2>4 DEF Opened, OpenKeys, Open
  <2>7. IsFiniteSet(OpenKeys) /\ IsFiniteSet(Opened)
    BY OpenedIs
  <2>8. ReservedIsOpenEstimates'
    <3> SUFFICES ASSUME NEW d \in Dimensions
                 PROVE budget'.reserved[d] = SumFunction(Estimated(d)')
      BY DEF ReservedIsOpenEstimates, Estimated, OpenKeys
    <3> DEFINE f == Estimated(d)
               g == Estimated(d)'
    <3>1. DOMAIN f = OpenKeys /\ DOMAIN g = OpenKeys \cup {k}
      BY <2>6 DEF Estimated
    <3>2. g[k] = command.estimate[d] /\ g[k] \in Nat
      BY <1>1, <2>1, <2>4, <2>6 DEF Estimated, Amounts
    <3>3. \A y \in OpenKeys : g[y] = f[y] /\ f[y] \in Nat
      BY <2>4, <2>6, OpenedIs DEF Estimated
    <3>4. SumFunction(f) \in Nat /\ SumFunction(g) = g[k] + SumFunction(f)
      <4> HIDE DEF f, g
      <4> QED
        BY <2>6, <2>7, <3>1, <3>2, <3>3, SumGrows
    <3>5. budget.reserved[d] = SumFunction(f)
      BY BooksAre DEF Books
    <3>6. budget'.reserved[d] = budget.reserved[d] + command.estimate[d]
      BY <2>5 DEF Plus
    <3>7. command.estimate[d] \in Nat
      BY <1>1 DEF Amounts
    <3> HIDE DEF f
    <3> QED
      BY <3>2, <3>4, <3>5, <3>6, <3>7
  <2>9. ActualIsSettledUsage'
    <3> SUFFICES ASSUME NEW d \in Dimensions
                 PROVE budget'.actual[d] = SumFunction(Reported(d)')
      BY DEF ActualIsSettledUsage, Reported
    <3> DEFINE f == Reported(d)
               g == Reported(d)'
    <3>1. DOMAIN f = Opened /\ DOMAIN g = Opened \cup {k}
      BY <2>6 DEF Reported
    <3>2. g[k] = 0 /\ g[k] \in Nat
      BY <2>1, <2>4, <2>6 DEF Reported, Zero
    <3>3. \A y \in Opened : g[y] = f[y] /\ f[y] \in Nat
      BY <2>4, <2>6, OpenedIs DEF Reported
    <3>4. IsFiniteSet(Opened) /\ k \notin Opened
      BY <2>6, <2>7
    <3>5. SumFunction(f) \in Nat /\ SumFunction(g) = g[k] + SumFunction(f)
      <4> HIDE DEF f, g
      <4> QED
        BY <3>1, <3>2, <3>3, <3>4, SumGrows
    <3>6. budget.actual[d] = SumFunction(f)
      BY BooksAre DEF Books
    <3> HIDE DEF f
    <3> QED
      BY <2>5, <3>2, <3>5, <3>6
  <2>10. Pending'
    BY <1>1, <2>1, <2>4 DEF Books, Pending, Open
  <2>11. OverMeansClosed'
    BY <2>5 DEF OverMeansClosed
  <2> QED
    BY <2>8, <2>9, <2>10, <2>11 DEF Books
<1>3. CASE ~Affordable(command.estimate)
  <2>1. budget' = [budget EXCEPT !.revision = @ + 1, !.status = "budget_exhausted"]
    BY <1>3 DEF Reserve, Decided
  <2>2. /\ budget'.reserved = budget.reserved /\ budget'.actual = budget.actual
        /\ budget'.status = "budget_exhausted"
    BY <2>1 DEF RowsOK, Budget
  <2>3. UNCHANGED reservations
    BY <1>3 DEF Reserve, Decided
  <2> QED
    BY <2>2, <2>3, RevisedBooks
<1> QED
  BY <1>2, <1>3

LEMMA SettleBooks ==
  ASSUME RowsOK, Books, NEW k \in Keys, NEW command \in SettleCommands, Settle(k, command)
  PROVE Books'
<1>1. PICK r \in Keys : r = command.reservation
  BY DEF SettleCommands
<1>2. command.actual \in Amounts /\ command.candidate \in Candidates \cup {None}
  BY DEF SettleCommands
<1>3. Open(r) /\ budget.status \in {"active", "budget_exhausted"} /\ Applied(k, command)
  BY <1>1 DEF Settle
<1>4. /\ reservations[r] \in Reservation /\ reservations[r].estimate \in Amounts
      /\ reservations[r].actual = Zero
  BY <1>3 DEF RowsOK, Open, Reservation, Books, Pending
<1>5. PICK end \in {"settled", "cancelled"} :
        end = IF command.outcome = "completed" THEN "settled" ELSE "cancelled"
  OBVIOUS
<1>6. PICK row : row = [reservations[r] EXCEPT !.status = end,
                          !.actual = command.actual, !.candidate = command.candidate]
  OBVIOUS
<1>7. /\ row \in Reservation /\ row # None /\ row.status = end
      /\ row.estimate = reservations[r].estimate /\ row.actual = command.actual
  <2>1. row \in Reservation
    BY <1>2, <1>4, <1>6 DEF Reservation
  <2> QED
    BY <1>4, <1>6, <2>1, AbsenceAssumption DEF Reservation
<1>8. reservations' = [reservations EXCEPT ![r] = row]
  BY <1>1, <1>3, <1>5, <1>6 DEF Applied, RowsOK
<1>9. /\ reservations'[r] = row
      /\ \A x \in Keys : x # r => reservations'[x] = reservations[x]
  BY <1>8 DEF RowsOK
<1>10. /\ Opened' = Opened /\ r \in Opened
       /\ OpenKeys = OpenKeys' \cup {r} /\ r \notin OpenKeys'
  BY <1>3, <1>7, <1>9 DEF Opened, OpenKeys, Open
<1>11. /\ budget'.reserved = Held(command) /\ budget'.actual = Spent(command)
       /\ budget'.status \in {"active", "budget_exhausted"}
  BY <1>3 DEF Applied, RowsOK, Budget
<1>12. IsFiniteSet(OpenKeys')
  BY <1>10, OpenedIs, FS_Subset
<1>13. ReservedIsOpenEstimates'
  <2> SUFFICES ASSUME NEW d \in Dimensions
               PROVE budget'.reserved[d] = SumFunction(Estimated(d)')
    BY DEF ReservedIsOpenEstimates, Estimated, OpenKeys
  <2> DEFINE f == Estimated(d)'
             g == Estimated(d)
  <2>1. DOMAIN f = OpenKeys' /\ DOMAIN g = OpenKeys' \cup {r}
    BY <1>10 DEF Estimated
  <2>2. g[r] = reservations[r].estimate[d] /\ g[r] \in Nat
    BY <1>4, <1>10 DEF Estimated, Amounts
  <2>3. \A y \in OpenKeys' : g[y] = f[y] /\ f[y] \in Nat
    <3> SUFFICES ASSUME NEW y \in OpenKeys' PROVE g[y] = f[y] /\ g[y] \in Nat
      OBVIOUS
    <3>1. y \in OpenKeys /\ y # r /\ y \in Keys /\ g[y] \in Nat
      BY <1>10, OpenedIs DEF Estimated
    <3> QED
      BY <1>9, <3>1 DEF Estimated
  <2>4. SumFunction(f) \in Nat /\ SumFunction(g) = g[r] + SumFunction(f)
    <3> HIDE DEF f, g
    <3> QED
      BY <1>10, <1>12, <2>1, <2>2, <2>3, SumGrows
  <2>5. budget.reserved[d] = SumFunction(g)
    BY BooksAre DEF Books
  <2>6. budget'.reserved[d] =
          IF budget.reserved[d] > reservations[r].estimate[d]
          THEN budget.reserved[d] - reservations[r].estimate[d] ELSE 0
    BY <1>1, <1>11 DEF Held, Minus
  <2> HIDE DEF f, g
  <2>7. budget'.reserved[d] = SumFunction(f)
    BY <2>2, <2>4, <2>5, <2>6
  <2> QED
    BY <2>7 DEF f
<1>14. ActualIsSettledUsage'
  <2> SUFFICES ASSUME NEW d \in Dimensions
               PROVE budget'.actual[d] = SumFunction(Reported(d)')
    BY DEF ActualIsSettledUsage, Reported
  <2> DEFINE f == Reported(d)
             g == Reported(d)'
  <2>1. DOMAIN f = Opened /\ DOMAIN g = Opened
    BY <1>10 DEF Reported
  <2>2. f[r] = 0 /\ g[r] = command.actual[d] /\ g[r] \in Nat
    BY <1>2, <1>4, <1>7, <1>9, <1>10 DEF Reported, Zero, Amounts
  <2>3. \A y \in Opened \ {r} : g[y] = f[y] /\ f[y] \in Nat
    BY <1>9, <1>10, OpenedIs DEF Reported
  <2>4. SumFunction(f) \in Nat /\ SumFunction(g) = g[r] + SumFunction(f)
    <3> HIDE DEF f, g
    <3> QED
      BY <1>10, <2>1, <2>2, <2>3, OpenedIs, SumRaised
  <2>5. budget.actual[d] = SumFunction(f)
    BY BooksAre DEF Books
  <2>6. budget'.actual[d] = budget.actual[d] + command.actual[d]
    BY <1>11 DEF Spent, Plus
  <2> HIDE DEF f, g
  <2>7. budget'.actual[d] = SumFunction(g)
    BY <2>2, <2>4, <2>5, <2>6
  <2> QED
    BY <2>7 DEF g
<1>15. Pending'
  BY <1>5, <1>7, <1>9 DEF Books, Pending, Open
<1>16. OverMeansClosed'
  BY <1>11 DEF OverMeansClosed
<1> QED
  BY <1>13, <1>14, <1>15, <1>16 DEF Books

LEMMA CancelRunBooks ==
  ASSUME RowsOK, Books, NEW k \in Keys, NEW command, CancelRun(k, command)
  PROVE Books'
<1>1. /\ budget'.reserved = Zero /\ budget'.actual = budget.actual
  BY DEF CancelRun, RowsOK, Budget
<1>2. \A x \in Keys :
        reservations'[x] = IF Open(x) THEN [reservations[x] EXCEPT !.status = "cancelled"]
                           ELSE reservations[x]
  BY DEF CancelRun
<1>3. ASSUME NEW x \in Keys
      PROVE  /\ ~Open(x)'
             /\ reservations'[x] # None <=> reservations[x] # None
             /\ reservations[x] # None => reservations'[x].actual = reservations[x].actual
  <2>1. CASE Open(x)
    <3>1. reservations[x] \in Reservation /\ reservations[x] # None
      BY <2>1 DEF RowsOK, Open
    <3>2. PICK row : row = [reservations[x] EXCEPT !.status = "cancelled"]
      OBVIOUS
    <3>3. /\ row \in Reservation /\ row.status = "cancelled"
          /\ row.actual = reservations[x].actual
      BY <3>1, <3>2 DEF Reservation
    <3> QED
      BY <1>2, <2>1, <3>1, <3>2, <3>3, AbsenceAssumption DEF Open
  <2>2. CASE ~Open(x)
    BY <1>2, <2>2 DEF Open
  <2> QED
    BY <2>1, <2>2
<1>4. Opened' = Opened /\ OpenKeys' = {}
  BY <1>3 DEF Opened, OpenKeys
<1>5. ReservedIsOpenEstimates'
  <2> SUFFICES ASSUME NEW d \in Dimensions
               PROVE budget'.reserved[d] = SumFunction(Estimated(d)')
    BY DEF ReservedIsOpenEstimates, Estimated, OpenKeys
  <2>1. DOMAIN Estimated(d)' = {}
    BY <1>4 DEF Estimated
  <2>2. SumFunctionOnSet(Estimated(d)', {}) = 0
    BY FS_EmptySet, SumFacts
  <2> QED
    BY <1>1, <2>1, <2>2 DEF SumFunction, Zero
<1>6. ActualIsSettledUsage'
  <2> SUFFICES ASSUME NEW d \in Dimensions
               PROVE budget'.actual[d] = SumFunction(Reported(d)')
    BY DEF ActualIsSettledUsage, Reported
  <2>1. Reported(d)' = Reported(d)
    BY <1>3, <1>4, OpenedIs DEF Reported, Opened
  <2> QED
    BY <1>1, <2>1, BooksAre DEF Books
<1>7. Pending' /\ OverMeansClosed'
  BY <1>3 DEF Pending, OverMeansClosed
<1> QED
  BY <1>5, <1>6, <1>7 DEF Books

\* With nothing reserved, nothing is open: so a run is never concluded over
\* an open reservation.
LEMMA NothingReserved ==
  ASSUME RowsOK, Books, budget.reserved = Zero, NEW k \in Keys
  PROVE ~Open(k)
<1> SUFFICES ASSUME Open(k) PROVE FALSE
  OBVIOUS
<1>1. PICK d \in Dimensions : reservations[k].estimate[d] > 0
  BY DEF Books, Pending
<1>2. k \in OpenKeys /\ IsFiniteSet(OpenKeys)
  BY OpenedIs DEF OpenKeys, Opened, Open
<1> DEFINE f == Estimated(d)
<1>3. /\ DOMAIN f = OpenKeys /\ f[k] = reservations[k].estimate[d]
      /\ \A y \in OpenKeys : f[y] \in Nat
  BY <1>2, OpenedIs DEF Estimated
<1>4. SumFunction(f) = 0
  BY BooksAre DEF Books, Zero
<1> HIDE DEF f
<1>5. SumFunctionOnSet(f, OpenKeys) = f[k] + SumFunctionOnSet(f, OpenKeys \ {k})
  BY <1>2, <1>3, SumSplit
<1>6. SumFunctionOnSet(f, OpenKeys \ {k}) \in Nat
  BY <1>2, <1>3, FS_Subset, SumSplit
<1> QED
  BY <1>1, <1>2, <1>3, <1>4, <1>5, <1>6 DEF SumFunction

LEMMA ConcludeBooks ==
  ASSUME RowsOK, Books, NEW k \in Keys, NEW command, Conclude(k, command)
  PROVE Books'
<1>1. \A x \in Keys : ~Open(x)
  BY NothingReserved DEF Conclude
<1>2. /\ budget'.reserved = budget.reserved /\ budget'.actual = budget.actual
      /\ UNCHANGED reservations
  BY DEF Conclude, RowsOK, Budget
<1> QED
  BY <1>1, <1>2, RevisedBooks

-----------------------------------------------------------------------------
(* Clients.                                                                *)

LEMMA ClientKeeps ==
  ASSUME IInv, NEW k \in ClientKeys, Client(k)
  PROVE IInv'
<1>1. k \in Keys /\ RowsOK /\ budget.revision \in Nat \ {0}
  BY DEF Keys, IInv, RowsOK, Budget
<1>2. UNCHANGED <<request, exec>>
  BY DEF Client, ClientReserve, ClientSettle, ClientCancels, ClientConcludes
<1>3. RowsOK'
  <2>1. CASE ClientReserve(k)
    <3>1. PICK estimate \in Estimates :
            Reserve(k, [action |-> "reserve", at |-> budget.revision, estimate |-> estimate])
      BY <2>1 DEF ClientReserve
    <3>2. PICK command : command = [action |-> "reserve", at |-> budget.revision,
                                    estimate |-> estimate]
      OBVIOUS
    <3>3. command \in ReserveCommands
      BY <1>1, <3>2, BudgetAssumption DEF ReserveCommands
    <3> QED
      BY <1>1, <3>1, <3>2, <3>3, ReserveKeeps
  <2>2. CASE ClientSettle(k)
    <3>1. PICK r \in Keys, actual \in Usages, outcome \in Outcomes,
               candidate \in Candidates \cup {None} :
            Settle(k, [action |-> "settle", at |-> budget.revision, reservation |-> r,
                       actual |-> actual, outcome |-> outcome, candidate |-> candidate])
      BY <2>2 DEF ClientSettle
    <3>2. PICK command : command =
            [action |-> "settle", at |-> budget.revision, reservation |-> r,
             actual |-> actual, outcome |-> outcome, candidate |-> candidate]
      OBVIOUS
    <3>3. command \in SettleCommands
      BY <1>1, <3>1, <3>2, BudgetAssumption DEF SettleCommands
    <3> QED
      BY <1>1, <3>1, <3>2, <3>3, SettleKeeps
  <2>3. CASE ClientCancels(k)
    <3>1. PICK command \in PlainCommands :
            command = [action |-> "cancel-run", at |-> budget.revision]
      BY <1>1 DEF PlainCommands
    <3> QED
      BY <1>1, <2>3, <3>1, CancelRunKeeps DEF ClientCancels
  <2>4. CASE ClientConcludes(k)
    <3>1. PICK command \in PlainCommands :
            command = [action |-> "conclude", at |-> budget.revision]
      BY <1>1 DEF PlainCommands
    <3> QED
      BY <1>1, <2>4, <3>1, ConcludeKeeps DEF ClientConcludes
  <2> QED
    BY <2>1, <2>2, <2>3, <2>4 DEF Client
<1>4. TypeOK'
  BY <1>2, <1>3 DEF IInv, TypeOK, RowsOK
<1>5. ExecOK'
  BY <1>2 DEF IInv, ExecOK
<1> QED
  BY <1>3, <1>4, <1>5 DEF IInv

-----------------------------------------------------------------------------
(* Executions.                                                             *)

\* An execution goes on: the types of what it becomes, and what it stands on.
Pcs == {"idle", "asked", "reserving", "running", "ran", "threw", "done", "failed"}
ExecRow == [pc : Pcs, batch : Batches \cup {None}, seen : Nat, took : Nat]

LEMMA GoesOn ==
  ASSUME IInv, RowsOK', UNCHANGED request,
         NEW e \in Executions, NEW row \in ExecRow,
         exec' = [exec EXCEPT ![e] = row],
         row.batch \in Batches, request[row.batch] # None,
         row.pc \in {"running", "ran", "threw"} => row.seen > 0
  PROVE IInv'
<1>1. exec \in [Executions -> ExecRow]
  BY DEF IInv, TypeOK, ExecRow, Pcs
<1>2. exec' \in [Executions -> ExecRow]
  BY <1>1
<1>3. TypeOK'
  BY <1>2 DEF IInv, TypeOK, RowsOK, ExecRow, Pcs
<1>4. ExecOK'
  <2> SUFFICES ASSUME NEW x \in Executions, exec'[x].pc # "idle"
               PROVE /\ exec'[x].batch \in Batches
                     /\ request[exec'[x].batch] # None
                     /\ exec'[x].pc \in {"running", "ran", "threw"} => exec'[x].seen > 0
    BY DEF ExecOK
  <2>1. CASE x = e
    <3>1. exec'[e] = row
      BY <1>1
    <3> QED
      BY <2>1, <3>1
  <2>2. CASE x # e
    <3>1. exec'[x] = exec[x]
      BY <1>1, <2>2
    <3> QED
      BY <3>1 DEF IInv, ExecOK
  <2> QED
    BY <2>1, <2>2
<1> QED
  BY <1>3, <1>4 DEF IInv

\* Where an execution that has begun stands.
LEMMA Begun ==
  ASSUME IInv, NEW e \in Executions, exec[e].pc # "idle"
  PROVE /\ exec[e] \in ExecRow
        /\ exec[e].batch \in Batches
        /\ request[exec[e].batch] \in Request
        /\ request[exec[e].batch] # None
        /\ exec[e].pc \in {"running", "ran", "threw"} => exec[e].seen > 0
        /\ \A part \in {"reserve", "settle", "cancel"} : Part(exec[e].batch, part) \in Keys
BY DEF IInv, TypeOK, ExecOK, ExecRow, Pcs, Part, Keys, BatchKeys

LEMMA AskKeeps ==
  ASSUME IInv, NEW e \in Executions, NEW b \in Batches, Ask(e, b)
  PROVE IInv'
<1>1. RowsOK'
  BY RowsKept DEF IInv, Ask
<1>2. PICK cost \in Costs :
        request' = [request EXCEPT ![b] = [at |-> budget.revision, cost |-> cost]]
  BY DEF Ask
<1>3. PICK ask : ask = [at |-> budget.revision, cost |-> cost]
  OBVIOUS
<1>4. ask \in Request /\ ask # None
  <2>1. ask \in Request
    BY <1>3, BudgetAssumption DEF Request, IInv, RowsOK, Budget
  <2> QED
    BY <2>1, AbsenceAssumption
<1>5. /\ request' \in [Batches -> Request \cup {None}]
      /\ \A x \in Batches : request[x] # None => request'[x] # None
      /\ request'[b] # None
  BY <1>2, <1>3, <1>4 DEF IInv, TypeOK
<1>6. PICK row : row = [Idle EXCEPT !.pc = "asked", !.batch = b]
  OBVIOUS
<1>7. row \in ExecRow /\ row.pc = "asked" /\ row.batch = b
  BY <1>6 DEF Idle, ExecRow, Pcs
<1>8. exec \in [Executions -> ExecRow] /\ exec' = [exec EXCEPT ![e] = row]
  BY <1>6 DEF IInv, TypeOK, ExecRow, Pcs, Ask
<1>9. exec' \in [Executions -> ExecRow]
  BY <1>7, <1>8
<1>10. TypeOK'
  BY <1>1, <1>5, <1>9 DEF TypeOK, RowsOK, ExecRow, Pcs
<1>11. ExecOK'
  <2> SUFFICES ASSUME NEW x \in Executions, exec'[x].pc # "idle"
               PROVE /\ exec'[x].batch \in Batches
                     /\ request'[exec'[x].batch] # None
                     /\ exec'[x].pc \in {"running", "ran", "threw"} => exec'[x].seen > 0
    BY DEF ExecOK
  <2>1. CASE x = e
    <3>1. exec'[e] = row
      BY <1>8
    <3> QED
      BY <1>5, <1>7, <2>1, <3>1
  <2>2. CASE x # e
    <3>1. exec'[x] = exec[x]
      BY <1>8, <2>2
    <3> QED
      BY <1>5, <3>1 DEF IInv, ExecOK
  <2> QED
    BY <2>1, <2>2
<1> QED
  BY <1>1, <1>10, <1>11 DEF IInv

LEMMA RetryKeeps ==
  ASSUME IInv, NEW e \in Executions, NEW b \in Batches, Retry(e, b)
  PROVE IInv'
<1>1. RowsOK'
  BY RowsKept DEF IInv, Retry
<1>2. PICK row : row = [Idle EXCEPT !.pc = "asked", !.batch = b]
  OBVIOUS
<1>3. row \in ExecRow /\ row.pc = "asked" /\ row.batch = b
  BY <1>2 DEF Idle, ExecRow, Pcs
<1> QED
  BY <1>1, <1>2, <1>3, GoesOn DEF Retry

LEMMA PreflightKeeps ==
  ASSUME IInv, NEW e \in Executions, Preflight(e)
  PROVE IInv'
<1>1. RowsOK' /\ exec[e].pc = "asked"
  BY RowsKept DEF IInv, Preflight
<1>2. PICK pc \in {"reserving", "failed"} : exec' = [exec EXCEPT ![e].pc = pc]
  BY DEF Preflight
<1>3. PICK row : row = [exec[e] EXCEPT !.pc = pc]
  OBVIOUS
<1>4. row \in ExecRow /\ row.pc = pc /\ row.batch = exec[e].batch
  BY <1>1, <1>2, <1>3, Begun DEF ExecRow, Pcs
<1>5. exec' = [exec EXCEPT ![e] = row]
  BY <1>2, <1>3 DEF IInv, TypeOK
<1>6. /\ row.batch \in Batches /\ request[row.batch] # None
      /\ row.pc \in {"running", "ran", "threw"} => row.seen > 0
  BY <1>1, <1>2, <1>4, Begun
<1> QED
  BY <1>1, <1>4, <1>5, <1>6, GoesOn DEF Preflight

LEMMA BatchReservesKeeps ==
  ASSUME IInv, NEW e \in Executions, BatchReserves(e)
  PROVE IInv'
<1>1. exec[e].pc = "reserving" /\ UNCHANGED request
  BY DEF BatchReserves
<1>2. PICK b \in Batches : b = exec[e].batch
  BY <1>1, Begun
<1>3. PICK k \in Keys : k = Part(b, "reserve")
  BY <1>1, <1>2, Begun
<1>4. PICK command : command = [action |-> "reserve", at |-> request[b].at,
                                estimate |-> Estimate(b)]
  OBVIOUS
<1>5. command \in ReserveCommands
  <2>1. request[b] \in Request
    BY <1>1, <1>2, Begun
  <2>2. Estimate(b) \in Amounts
    BY <2>1, OnlyIs, BudgetAssumption DEF Estimate, Request
  <2> QED
    BY <1>4, <2>1, <2>2 DEF ReserveCommands, Request
<1>6. RowsOK'
  <2>1. Reserve(k, command)
    BY <1>2, <1>3, <1>4 DEF BatchReserves
  <2> QED
    BY <1>5, <2>1, ReserveKeeps DEF IInv
<1>7. PICK pc \in {"running", "failed"} :
        exec' = [exec EXCEPT ![e].pc = pc, ![e].seen = budget.revision + 1]
  BY <1>2 DEF BatchReserves
<1>8. PICK seen \in Nat \ {0} : seen = budget.revision + 1
  BY DEF IInv, RowsOK, Budget
<1>9. PICK row : row = [exec[e] EXCEPT !.pc = pc, !.seen = seen]
  OBVIOUS
<1>10. /\ row \in ExecRow /\ row.pc = pc /\ row.batch = exec[e].batch
       /\ row.seen = seen
  BY <1>1, <1>7, <1>9, Begun DEF ExecRow, Pcs
<1>11. exec' = [exec EXCEPT ![e] = row]
  BY <1>7, <1>8, <1>9 DEF IInv, TypeOK
<1>12. /\ row.batch \in Batches /\ request[row.batch] # None
       /\ row.pc \in {"running", "ran", "threw"} => row.seen > 0
  BY <1>1, <1>7, <1>8, <1>10, Begun
<1> QED
  BY <1>1, <1>6, <1>10, <1>11, <1>12, GoesOn

LEMMA BatchReplaysKeeps ==
  ASSUME IInv, NEW e \in Executions, BatchReplays(e)
  PROVE IInv'
<1>1. RowsOK' /\ exec[e].pc = "reserving" /\ UNCHANGED request
  BY RowsKept DEF IInv, BatchReplays
<1>2. PICK k \in Keys : k = Part(exec[e].batch, "reserve")
  BY <1>1, Begun
<1>3. PICK event \in Event : event = events[k]
  BY <1>2 DEF BatchReplays, IInv, RowsOK
<1>4. PICK seen \in Nat \ {0} : seen = event.revision
  BY DEF Event
<1>5. PICK pc \in {"running", "failed"} :
        exec' = [exec EXCEPT ![e].pc = pc, ![e].seen = seen]
  BY <1>2, <1>3, <1>4 DEF BatchReplays
<1>6. PICK row : row = [exec[e] EXCEPT !.pc = pc, !.seen = seen]
  OBVIOUS
<1>7. /\ row \in ExecRow /\ row.pc = pc /\ row.batch = exec[e].batch
      /\ row.seen = seen
  BY <1>1, <1>5, <1>6, Begun DEF ExecRow, Pcs
<1>8. exec' = [exec EXCEPT ![e] = row]
  BY <1>5, <1>6 DEF IInv, TypeOK
<1>9. /\ row.batch \in Batches /\ request[row.batch] # None
      /\ row.pc \in {"running", "ran", "threw"} => row.seen > 0
  BY <1>1, <1>4, <1>5, <1>7, Begun
<1> QED
  BY <1>1, <1>7, <1>8, <1>9, GoesOn

\* The steps that only end an execution.
LEMMA EndKeeps ==
  ASSUME IInv, RowsOK', UNCHANGED request, NEW e \in Executions,
         exec[e].pc # "idle", NEW pc \in {"done", "failed"},
         exec' = [exec EXCEPT ![e].pc = pc]
  PROVE IInv'
<1>1. PICK row : row = [exec[e] EXCEPT !.pc = pc]
  OBVIOUS
<1>2. row \in ExecRow /\ row.pc = pc /\ row.batch = exec[e].batch
  BY <1>1, Begun DEF ExecRow, Pcs
<1>3. exec' = [exec EXCEPT ![e] = row]
  BY <1>1 DEF IInv, TypeOK
<1>4. /\ row.batch \in Batches /\ request[row.batch] # None
      /\ row.pc \in {"running", "ran", "threw"} => row.seen > 0
  BY <1>2, Begun
<1> QED
  BY <1>2, <1>3, <1>4, GoesOn

LEMMA BatchRefusedKeeps ==
  ASSUME IInv, NEW e \in Executions, BatchRefused(e)
  PROVE IInv'
<1>1. RowsOK'
  BY RowsKept DEF IInv, BatchRefused
<1> QED
  BY <1>1, EndKeeps DEF BatchRefused

LEMMA ToolsEndKeeps ==
  ASSUME IInv, NEW e \in Executions, ToolsEnd(e)
  PROVE IInv'
<1>1. RowsOK' /\ exec[e].pc = "running" /\ UNCHANGED request
  BY RowsKept DEF IInv, ToolsEnd
<1>2. exec[e] \in ExecRow /\ exec[e].batch \in Batches /\ exec[e].seen > 0
  BY <1>1, Begun
<1>3. CASE exec' = [exec EXCEPT ![e].pc = "threw"]
  <2>1. PICK row : row = [exec[e] EXCEPT !.pc = "threw"]
    OBVIOUS
  <2>2. /\ row \in ExecRow /\ row.pc = "threw" /\ row.batch = exec[e].batch
        /\ row.seen = exec[e].seen
    BY <1>2, <2>1 DEF ExecRow, Pcs
  <2>3. exec' = [exec EXCEPT ![e] = row]
    BY <1>3, <2>1 DEF IInv, TypeOK
  <2> QED
    BY <1>1, <1>2, <2>2, <2>3, Begun, GoesOn
<1>4. ASSUME NEW n \in Durations, exec' = [exec EXCEPT ![e].pc = "ran", ![e].took = n]
      PROVE IInv'
  <2>1. PICK row : row = [exec[e] EXCEPT !.pc = "ran", !.took = n]
    OBVIOUS
  <2>2. /\ row \in ExecRow /\ row.pc = "ran" /\ row.batch = exec[e].batch
        /\ row.seen = exec[e].seen
    BY <1>2, <2>1, BudgetAssumption DEF ExecRow, Pcs
  <2>3. exec' = [exec EXCEPT ![e] = row]
    BY <1>4, <2>1 DEF IInv, TypeOK
  <2> QED
    BY <1>1, <1>2, <2>2, <2>3, Begun, GoesOn
<1> QED
  BY <1>3, <1>4 DEF ToolsEnd

\* What an execution sends is a command, under a key of its batch.
LEMMA SettlementIs ==
  ASSUME IInv, NEW e \in Executions, exec[e].pc \in {"ran", "threw"}
  PROVE Settlement(e) \in SettleCommands /\ SettlementKey(e) \in Keys
<1>1. PICK b \in Batches : b = exec[e].batch
  BY Begun
<1>2. /\ request[b] \in Request /\ exec[e] \in ExecRow /\ exec[e].seen > 0
      /\ \A part \in {"reserve", "settle", "cancel"} : Part(b, part) \in Keys
  BY <1>1, Begun
<1>3. exec[e].seen \in Nat \ {0} /\ exec[e].took \in Nat
  BY <1>2 DEF ExecRow
<1>4. PICK actual \in Amounts :
        actual = IF exec[e].pc = "ran" THEN Report(b, exec[e].took) ELSE Zero
  <2>1. Estimate(b) \in Amounts
    BY <1>2, OnlyIs, BudgetAssumption DEF Estimate, Request
  <2>2. Report(b, exec[e].took) \in Amounts
    BY <1>3, <2>1 DEF Report, Amounts
  <2> QED
    BY <2>2, ZeroIs
<1>5. PICK outcome \in Outcomes :
        outcome = IF exec[e].pc = "ran" THEN "completed" ELSE "cancelled"
  BY DEF Outcomes
<1>6. Settlement(e) = [action |-> "settle", at |-> exec[e].seen,
                       reservation |-> Part(b, "reserve"), actual |-> actual,
                       outcome |-> outcome, candidate |-> None]
  BY <1>1, <1>4, <1>5 DEF Settlement
<1>7. Settlement(e) \in SettleCommands
  BY <1>2, <1>3, <1>6 DEF SettleCommands
<1> QED
  BY <1>1, <1>2, <1>7 DEF SettlementKey

LEMMA BatchSettlesKeeps ==
  ASSUME IInv, NEW e \in Executions, BatchSettles(e)
  PROVE IInv'
<1>1. exec[e].pc \in {"ran", "threw"} /\ UNCHANGED request
  BY DEF BatchSettles
<1>2. RowsOK'
  BY <1>1, SettlementIs, SettleKeeps DEF IInv, BatchSettles
<1>3. PICK pc \in {"done", "failed"} : exec' = [exec EXCEPT ![e].pc = pc]
  BY DEF BatchSettles
<1> QED
  BY <1>1, <1>2, <1>3, EndKeeps

LEMMA BatchNotSettledKeeps ==
  ASSUME IInv, NEW e \in Executions, BatchNotSettled(e)
  PROVE IInv'
<1>1. RowsOK' /\ exec[e].pc \in {"ran", "threw"} /\ UNCHANGED request
  BY RowsKept DEF IInv, BatchNotSettled
<1>2. PICK pc \in {"done", "failed"} : exec' = [exec EXCEPT ![e].pc = pc]
  BY DEF BatchNotSettled
<1> QED
  BY <1>1, <1>2, EndKeeps

-----------------------------------------------------------------------------
(* The invariant, and what follows from it.                                *)

LEMMA Initially == Init => IInv
<1> SUFFICES ASSUME Init PROVE IInv
  OBVIOUS
<1>1. budget \in Budget
  BY ZeroIs DEF Init, Budget
<1>2. /\ reservations \in [Keys -> Reservation \cup {None}]
      /\ events \in [Keys -> Event \cup {None}]
      /\ request \in [Batches -> Request \cup {None}]
      /\ exec \in [Executions -> ExecRow]
  BY DEF Init, Idle, ExecRow, Pcs
<1>3. Keyed /\ Unjudged /\ BestJudged
  BY DEF Init, Keyed, Unjudged, Open, BestJudged, Judged
<1>4. ActiveWithinLimits
  BY BudgetAssumption DEF Init, ActiveWithinLimits, Exceeds, Zero, Amounts
<1>5. IsFiniteSet(Used) /\ OneEffectPerKey
  <2>1. Used = {}
    BY DEF Init, Used
  <2> QED
    BY <2>1, FS_EmptySet DEF Init, OneEffectPerKey, Used
<1>6. RowsOK
  BY <1>1, <1>2, <1>3, <1>4, <1>5 DEF RowsOK
<1>7. TypeOK
  BY <1>1, <1>2 DEF TypeOK, ExecRow, Pcs
<1>8. ExecOK
  BY DEF Init, ExecOK, Idle
<1> QED
  BY <1>6, <1>7, <1>8 DEF IInv

LEMMA Invariance == Spec => []IInv
<1>1. Init => IInv
  BY Initially
<1>2. IInv /\ [Next]_vars => IInv'
  <2> SUFFICES ASSUME IInv, [Next]_vars PROVE IInv'
    OBVIOUS
  <2>1. ASSUME NEW k \in ClientKeys, Client(k) PROVE IInv'
    BY <2>1, ClientKeeps
  <2>2. ASSUME NEW e \in Executions, Execution(e) PROVE IInv'
    <3>1. ASSUME NEW b \in Batches, Ask(e, b) \/ Retry(e, b) PROVE IInv'
      BY <3>1, AskKeeps, RetryKeeps
    <3>2. CASE Preflight(e) \/ ToolsEnd(e)
      BY <3>2, PreflightKeeps, ToolsEndKeeps
    <3>3. CASE BatchReserves(e) \/ BatchReplays(e) \/ BatchRefused(e)
      BY <3>3, BatchReservesKeeps, BatchReplaysKeeps, BatchRefusedKeeps
    <3>4. CASE BatchSettles(e) \/ BatchNotSettled(e)
      BY <3>4, BatchSettlesKeeps, BatchNotSettledKeeps
    <3> QED
      BY <2>2, <3>1, <3>2, <3>3, <3>4 DEF Execution
  <2>3. CASE UNCHANGED vars
    <3>1. RowsOK'
      BY <2>3, RowsKept DEF IInv, vars
    <3> QED
      BY <2>3, <3>1 DEF IInv, TypeOK, ExecOK, vars
  <2> QED
    BY <2>1, <2>2, <2>3 DEF Next
<1> QED
  BY <1>1, <1>2, PTL DEF Spec

\* Whoever sends it, what changes the rows is one of the four transactions,
\* under a key and with a command.
Transaction ==
  \E k \in Keys :
    \/ \E command \in ReserveCommands : Reserve(k, command)
    \/ \E command \in SettleCommands : Settle(k, command)
    \/ \E command \in PlainCommands : CancelRun(k, command) \/ Conclude(k, command)

LEMMA ClientTransaction ==
  ASSUME IInv, NEW k \in ClientKeys, Client(k) PROVE Transaction
<1>1. k \in Keys /\ budget.revision \in Nat \ {0}
  BY DEF Keys, IInv, RowsOK, Budget
<1>2. CASE ClientReserve(k)
  <2>1. PICK estimate \in Estimates :
          Reserve(k, [action |-> "reserve", at |-> budget.revision, estimate |-> estimate])
    BY <1>2 DEF ClientReserve
  <2>2. PICK command : command = [action |-> "reserve", at |-> budget.revision,
                                  estimate |-> estimate]
    OBVIOUS
  <2>3. command \in ReserveCommands /\ Reserve(k, command)
    BY <1>1, <2>1, <2>2, BudgetAssumption DEF ReserveCommands
  <2> QED
    BY <1>1, <2>3 DEF Transaction
<1>3. CASE ClientSettle(k)
  <2>1. PICK r \in Keys, actual \in Usages, outcome \in Outcomes,
             candidate \in Candidates \cup {None} :
          Settle(k, [action |-> "settle", at |-> budget.revision, reservation |-> r,
                     actual |-> actual, outcome |-> outcome, candidate |-> candidate])
    BY <1>3 DEF ClientSettle
  <2>2. PICK command : command =
          [action |-> "settle", at |-> budget.revision, reservation |-> r,
           actual |-> actual, outcome |-> outcome, candidate |-> candidate]
    OBVIOUS
  <2>3. command \in SettleCommands /\ Settle(k, command)
    BY <1>1, <2>1, <2>2, BudgetAssumption DEF SettleCommands
  <2> QED
    BY <1>1, <2>3 DEF Transaction
<1>4. CASE ClientCancels(k)
  <2>1. [action |-> "cancel-run", at |-> budget.revision] \in PlainCommands
    BY <1>1 DEF PlainCommands
  <2> QED
    BY <1>1, <1>4, <2>1 DEF ClientCancels, Transaction
<1>5. CASE ClientConcludes(k)
  <2>1. [action |-> "conclude", at |-> budget.revision] \in PlainCommands
    BY <1>1 DEF PlainCommands
  <2> QED
    BY <1>1, <1>5, <2>1 DEF ClientConcludes, Transaction
<1> QED
  BY <1>2, <1>3, <1>4, <1>5 DEF Client

LEMMA BatchTransaction ==
  ASSUME IInv, NEW e \in Executions, Execution(e)
  PROVE Transaction \/ UNCHANGED <<budget, reservations, events>>
<1>1. CASE BatchReserves(e)
  <2>1. PICK b \in Batches : b = exec[e].batch
    BY <1>1, Begun DEF BatchReserves
  <2>2. Part(b, "reserve") \in Keys /\ request[b] \in Request
    BY <1>1, <2>1, Begun DEF BatchReserves
  <2>3. Estimate(b) \in Amounts
    BY <2>2, OnlyIs, BudgetAssumption DEF Estimate, Request
  <2>4. PICK command : command = [action |-> "reserve", at |-> request[b].at,
                                  estimate |-> Estimate(b)]
    OBVIOUS
  <2>5. command \in ReserveCommands /\ Reserve(Part(b, "reserve"), command)
    BY <1>1, <2>1, <2>2, <2>3, <2>4 DEF ReserveCommands, Request, BatchReserves
  <2> QED
    BY <2>2, <2>5 DEF Transaction
<1>2. CASE BatchSettles(e)
  BY <1>2, SettlementIs DEF BatchSettles, Transaction
<1>3. CASE \/ \E b \in Batches : Ask(e, b) \/ Retry(e, b)
           \/ Preflight(e) \/ BatchReplays(e) \/ BatchRefused(e)
           \/ ToolsEnd(e) \/ BatchNotSettled(e)
  BY <1>3 DEF Ask, Retry, Preflight, BatchReplays, BatchRefused, ToolsEnd, BatchNotSettled
<1> QED
  BY <1>1, <1>2, <1>3 DEF Execution

LEMMA Transactions ==
  ASSUME IInv, [Next]_vars
  PROVE Transaction \/ UNCHANGED <<budget, reservations, events>>
BY ClientTransaction, BatchTransaction DEF Next, vars

(* No order of reservations, overruns and retries leaves a budget active   *)
(* whose use and promises together pass a limit.                           *)
THEOREM StaysWithinLimits == Spec => []ActiveWithinLimits
<1>1. IInv => ActiveWithinLimits
  BY DEF IInv, RowsOK
<1> QED
  BY <1>1, Invariance, PTL

(* The best candidate of the row is the best valid one of its settlements, *)
(* whatever order they came in.                                            *)
THEOREM BestStays == Spec => []BestIsBestValid
<1>1. ASSUME IInv PROVE BestIsBestValid
  <2>1. PICK valid : valid = {reservations[k].candidate : k \in {r \in Opened :
                  reservations[r].candidate # None /\ reservations[r].candidate.valid}}
    OBVIOUS
  <2>2. \A c : c \in valid <=> \E k \in Keys : Judged(k) /\ reservations[k].candidate = c
    BY <2>1 DEF Opened, Judged
  <2>3. \A c \in valid : NoWorse(budget.best, c)
    BY <1>1, <2>2 DEF IInv, RowsOK, BestJudged
  <2>4. budget.best # None => budget.best \in valid
    BY <1>1, <2>2 DEF IInv, RowsOK, BestJudged
  <2>5. IF valid = {} THEN budget.best = None
        ELSE /\ budget.best \in valid
             /\ \A c \in valid : c # budget.best => ~RanksBefore(c, budget.best)
    BY <2>3, <2>4 DEF NoWorse
  <2> QED
    BY <2>1, <2>5 DEF BestIsBestValid
<1> QED
  BY <1>1, Invariance, PTL

(* Every revision of the row is the effect of one key, and no key has two. *)
THEOREM EffectsAreCounted == Spec => []OneEffectPerKey
<1>1. IInv => OneEffectPerKey
  BY DEF IInv, RowsOK
<1> QED
  BY <1>1, Invariance, PTL

LEMMA BooksKept == Spec => []Books
<1>1. Init => Books
  <2> SUFFICES ASSUME Init PROVE Books
    OBVIOUS
  <2>1. Opened = {} /\ OpenKeys = {} /\ \A k \in Keys : ~Open(k)
    BY DEF Init, Opened, OpenKeys, Open
  <2>2. \A d \in Dimensions : /\ budget.reserved[d] = 0 /\ budget.actual[d] = 0
                              /\ DOMAIN Estimated(d) = {} /\ DOMAIN Reported(d) = {}
    BY <2>1 DEF Init, Zero, Estimated, Reported
  <2>3. \A d \in Dimensions : /\ SumFunctionOnSet(Estimated(d), {}) = 0
                              /\ SumFunctionOnSet(Reported(d), {}) = 0
    BY FS_EmptySet, SumFacts
  <2>4. ReservedIsOpenEstimates /\ ActualIsSettledUsage
    BY <2>2, <2>3, BooksAre DEF SumFunction
  <2> QED
    BY <2>1, <2>4 DEF Books, Pending, OverMeansClosed
<1>2. IInv /\ Books /\ [Next]_vars => Books'
  <2> SUFFICES ASSUME IInv, Books, [Next]_vars PROVE Books'
    OBVIOUS
  <2>1. RowsOK
    BY DEF IInv
  <2>2. CASE Transaction
    BY <2>1, <2>2, ReserveBooks, SettleBooks, CancelRunBooks, ConcludeBooks
       DEF Transaction
  <2>3. CASE UNCHANGED <<budget, reservations, events>>
    BY <2>3, RevisedBooks DEF Books, OverMeansClosed
  <2> QED
    BY <2>2, <2>3, Transactions
<1> QED
  BY <1>1, <1>2, Invariance, PTL DEF Spec

(* The row is the sum of its reservations: what it holds reserved is what  *)
(* the open ones estimated and what it holds used is what all of them      *)
(* reported, in every dimension, each counted once; its revision counts    *)
(* the commands; and a run that is over left no reservation open.          *)
THEOREM BooksBalance == Spec => []RowAccounts
<1>1. IInv /\ Books => RowAccounts
  BY DEF IInv, RowsOK, Books, RowAccounts
<1> QED
  BY <1>1, Invariance, BooksKept, PTL

(* The subtraction of a settlement never meets its clamp at zero: what an  *)
(* open reservation estimated is still in what the row holds reserved.     *)
THEOREM EstimatesAreHeld ==
  Spec => [](\A k \in Keys, d \in Dimensions :
               Open(k) => reservations[k].estimate[d] <= budget.reserved[d])
<1>1. ASSUME IInv, Books, NEW k \in Keys, NEW d \in Dimensions, Open(k)
      PROVE reservations[k].estimate[d] <= budget.reserved[d]
  <2>1. k \in OpenKeys /\ IsFiniteSet(OpenKeys)
    BY <1>1, OpenedIs DEF OpenKeys, Opened, Open, IInv
  <2> DEFINE f == Estimated(d)
  <2>2. /\ DOMAIN f = OpenKeys /\ f[k] = reservations[k].estimate[d]
        /\ \A y \in OpenKeys : f[y] \in Nat
    BY <1>1, <2>1, OpenedIs DEF Estimated, IInv
  <2>3. budget.reserved[d] = SumFunction(f)
    BY <1>1, BooksAre DEF Books
  <2> HIDE DEF f
  <2>4. SumFunctionOnSet(f, OpenKeys) = f[k] + SumFunctionOnSet(f, OpenKeys \ {k})
    BY <2>1, <2>2, SumSplit
  <2>5. SumFunctionOnSet(f, OpenKeys \ {k}) \in Nat
    BY <2>1, <2>2, FS_Subset, SumSplit
  <2> QED
    BY <2>1, <2>2, <2>3, <2>4, <2>5 DEF SumFunction
<1>2. IInv /\ Books => \A k \in Keys, d \in Dimensions :
        Open(k) => reservations[k].estimate[d] <= budget.reserved[d]
  BY <1>1
<1> QED
  BY <1>2, Invariance, BooksKept, PTL

\* What no transaction does, whoever sends it.
Shut ==
  \A k \in Keys :
    /\ (budget.status # "active" /\ reservations[k] = None) => reservations'[k] = None
    /\ (reservations[k] # None /\ ~Open(k)) => reservations'[k] = reservations[k]

LEMMA ReserveShuts ==
  ASSUME RowsOK, NEW k \in Keys, NEW command, Reserve(k, command)
  PROVE Shut
<1>1. reservations[k] = None /\ budget.status = "active"
  BY DEF Reserve, Fresh, RowsOK, Keyed
<1>2. \A x \in Keys : x # k => reservations'[x] = reservations[x]
  BY DEF Reserve, Decided, RowsOK
<1> QED
  BY <1>1, <1>2 DEF Shut

LEMMA SettleShuts ==
  ASSUME RowsOK, NEW k \in Keys, NEW command \in SettleCommands, Settle(k, command)
  PROVE Shut
<1>1. PICK r \in Keys : r = command.reservation
  BY DEF SettleCommands
<1>2. reservations[r] # None /\ Open(r)
  BY <1>1 DEF Settle, Open
<1>3. \A x \in Keys : x # r => reservations'[x] = reservations[x]
  BY <1>1 DEF Settle, Applied, RowsOK
<1> QED
  BY <1>2, <1>3 DEF Shut

LEMMA CancelRunShuts == ASSUME NEW k, NEW command, CancelRun(k, command) PROVE Shut
<1>1. \A x \in Keys : ~Open(x) => reservations'[x] = reservations[x]
  BY DEF CancelRun
<1> QED
  BY <1>1 DEF Shut, Open

LEMMA UnchangedShuts == ASSUME UNCHANGED reservations PROVE Shut
BY DEF Shut

(* No reservation is opened behind an exhausted or finished run, and none  *)
(* that is closed is touched again.                                        *)
THEOREM StaysClosed == Spec => ClosedForGood
<1>1. ASSUME IInv, [Next]_vars PROVE Shut
  <2>1. RowsOK
    BY <1>1 DEF IInv
  <2>2. CASE Transaction
    BY <2>1, <2>2, ReserveShuts, SettleShuts, CancelRunShuts, UnchangedShuts
       DEF Transaction, Conclude
  <2>3. CASE UNCHANGED reservations
    BY <2>3, UnchangedShuts
  <2> QED
    BY <1>1, <2>2, <2>3, Transactions
<1>2. Spec => [][Shut]_vars
  BY <1>1, Invariance, PTL DEF Spec
<1> QED
  BY <1>2, PTL DEF ClosedForGood, Shut
================================================================================
