---------------------- MODULE GovernanceAdmission_proofs ----------------------
(***************************************************************************)
(* What holds of GovernanceAdmission for any requests, clients and         *)
(* capabilities, any costs, limits and windows, and clocks any distance    *)
(* apart.                                                                  *)
(*                                                                         *)
(* What a transaction has read of the log and the policies stays true      *)
(* while it holds the lock, however many statements and workers come in    *)
(* between (ReadingFits).  A window that sees the row of a request that    *)
(* was admitted is, but for that row, among what the transaction had       *)
(* counted (WindowAfter), so what it found to fit, fits.  The rest is      *)
(* about sums and cardinalities of finite sets; the facts about sums are   *)
(* those of DirectorBudget_proofs, and that a larger set costs no less.    *)
(***************************************************************************)
EXTENDS GovernanceAdmission, Functions, FiniteSetTheorems,
        WellFoundedInduction, TLAPS

-----------------------------------------------------------------------------
(* Sums over finite sets.  SumFunctionOnSet takes the elements one by one, *)
(* as CHOOSE finds them; that the order does not matter, and what taking   *)
(* any one element out of it does to a sum, is proved from the definition. *)
(* The induction is over the finite subsets of a set: a set of them that   *)
(* holds every set whose proper subsets it holds, holds them all, as a     *)
(* minimal one it does not hold would contradict it.                       *)

LEMMA SubsetInduction ==
  ASSUME NEW S, IsFiniteSet(S), NEW Good,
         \A T \in SUBSET S : (\A U \in SUBSET T : U # T => U \in Good) => T \in Good
  PROVE  S \in Good
<1> DEFINE Bad == (SUBSET S) \ Good
<1>1. SUFFICES ASSUME Bad # {} PROVE FALSE
  BY <1>1
<1>2. IsWellFoundedOn(StrictSubsetOrdering(S), SUBSET S)
  BY FS_StrictSubsetOrderingWellFounded, FS_FiniteSubsetsOfFinite
<1>3. \E T \in Bad : \A U \in Bad : ~ (<<U, T>> \in StrictSubsetOrdering(S))
  <2>1. Bad \subseteq SUBSET S
    OBVIOUS
  <2> HIDE DEF Bad
  <2> QED
    BY <1>1, <1>2, <2>1, WFMin
<1>4. PICK T \in Bad : \A U \in Bad : ~ (<<U, T>> \in StrictSubsetOrdering(S))
  BY <1>3
<1>5. \A U \in SUBSET T : U # T => U \in Good
  BY <1>4 DEF StrictSubsetOrdering
<1> QED
  BY <1>5

\* The element a sum takes first.
Pick(s) == CHOOSE x \in s : TRUE

LEMMA Picked == ASSUME NEW s, s # {} PROVE Pick(s) \in s
BY DEF Pick

\* The function of the subsets of S that the definition of a sum recurses with.
IsSum(g, f, S) ==
  g = [s \in SUBSET S |-> IF s = {} THEN 0 ELSE f[Pick(s)] + g[s \ {Pick(s)}]]

\* A sum is the value of one of them.
LEMMA Unfold ==
  ASSUME NEW f, NEW S, \E h : IsSum(h, f, S)
  PROVE  \E g : IsSum(g, f, S) /\ SumFunctionOnSet(f, S) = g[S]
<1> DEFINE P(g) == IsSum(g, f, S)
<1>1. P(CHOOSE g : P(g))
  BY DEF P
<1> QED
  BY <1>1 DEF SumFunctionOnSet, FoldFunctionOnSet, MapThenFoldSet, IsSum, Pick

\* Such functions agree wherever both are defined, and there is one.
LEMMA SumIsUnique ==
  ASSUME NEW f, NEW S, IsFiniteSet(S), NEW R \in SUBSET S,
         NEW g, IsSum(g, f, S), NEW h, IsSum(h, f, R)
  PROVE  g[R] = h[R]
<1> DEFINE Good == {T \in SUBSET R : g[T] = h[T]}
<1>1. ASSUME NEW T \in SUBSET R, \A U \in SUBSET T : U # T => U \in Good
      PROVE  T \in Good
  <2>1. CASE T = {}
    BY <2>1 DEF IsSum
  <2>2. CASE T # {}
    <3>1. Pick(T) \in T
      BY <2>2, Picked
    <3>2. T \ {Pick(T)} \in Good
      BY <1>1, <3>1
    <3>3. g[T] = f[Pick(T)] + g[T \ {Pick(T)}]
      BY <2>2 DEF IsSum
    <3>4. h[T] = f[Pick(T)] + h[T \ {Pick(T)}]
      BY <2>2 DEF IsSum
    <3> QED
      BY <3>2, <3>3, <3>4
  <2> QED
    BY <2>1, <2>2
<1>2. IsFiniteSet(R)
  BY FS_Subset
<1>3. R \in Good
  <2> HIDE DEF Good
  <2> QED
    BY <1>1, <1>2, SubsetInduction
<1> QED
  BY <1>3

LEMMA SumExists ==
  ASSUME NEW f, NEW S, IsFiniteSet(S)
  PROVE  \E h : IsSum(h, f, S)
<1> DEFINE Good == {T \in SUBSET S : \E h : IsSum(h, f, T)}
<1>1. ASSUME NEW T \in SUBSET S, \A U \in SUBSET T : U # T => U \in Good
      PROVE  T \in Good
  <2> DEFINE Strict == {U \in SUBSET T : U # T}
             sum == [U \in Strict |-> SumFunctionOnSet(f, U)]
             h == [U \in SUBSET T |->
                     IF U = {} THEN 0 ELSE f[Pick(U)] + sum[U \ {Pick(U)}]]
  <2>1. ASSUME NEW U \in Strict PROVE sum[U] = h[U]
    <3>1. \E g : IsSum(g, f, U)
      BY <1>1, <2>1
    <3>2. PICK g : IsSum(g, f, U) /\ sum[U] = g[U]
      BY <3>1, Unfold
    <3>3. CASE U = {}
      BY <3>2, <3>3 DEF IsSum
    <3>4. CASE U # {}
      <4> DEFINE V == U \ {Pick(U)}
      <4>1. V \in Strict /\ V \in SUBSET U /\ IsFiniteSet(U)
        BY <3>4, Picked, FS_Subset
      <4>2. PICK k : IsSum(k, f, V) /\ sum[V] = k[V]
        <5>1. \E k : IsSum(k, f, V)
          BY <1>1, <4>1
        <5> QED
          BY <4>1, <5>1, Unfold
      <4>3. g[V] = k[V]
        <5> HIDE DEF V
        <5> QED
          BY <3>2, <4>1, <4>2, SumIsUnique
      <4>4. g[U] = f[Pick(U)] + g[V]
        BY <3>2, <3>4 DEF IsSum
      <4> QED
        BY <3>2, <3>4, <4>2, <4>3, <4>4
    <3> QED
      BY <3>3, <3>4
  <2>2. IsSum(h, f, T)
    <3>1. ASSUME NEW U \in SUBSET T, U # {} PROVE h[U] = f[Pick(U)] + h[U \ {Pick(U)}]
      <4>1. U \ {Pick(U)} \in Strict
        BY <3>1, Picked
      <4>2. h[U] = f[Pick(U)] + sum[U \ {Pick(U)}]
        BY <3>1
      <4> QED
        BY <4>1, <4>2, <2>1
    <3>2. h[{}] = 0
      OBVIOUS
    <3>3. h = [U \in SUBSET T |-> h[U]]
      OBVIOUS
    <3> HIDE DEF h
    <3>4. [U \in SUBSET T |-> h[U]]
            = [U \in SUBSET T |-> IF U = {} THEN 0 ELSE f[Pick(U)] + h[U \ {Pick(U)}]]
      BY <3>1, <3>2
    <3> QED
      BY <3>3, <3>4 DEF IsSum
  <2> QED
    BY <2>2
<1>2. S \in Good
  <2> HIDE DEF Good
  <2> QED
    BY <1>1, SubsetInduction
<1> QED
  BY <1>2

\* What a sum is, by its definition.
LEMMA SumFacts ==
  ASSUME NEW f, NEW S, IsFiniteSet(S)
  PROVE  /\ S = {} => SumFunctionOnSet(f, S) = 0
         /\ S # {} =>
              /\ Pick(S) \in S
              /\ SumFunctionOnSet(f, S) = f[Pick(S)] + SumFunctionOnSet(f, S \ {Pick(S)})
<1>1. PICK g : IsSum(g, f, S) /\ SumFunctionOnSet(f, S) = g[S]
  BY SumExists, Unfold
<1>2. CASE S = {}
  BY <1>1, <1>2 DEF IsSum
<1>3. CASE S # {}
  <2>1. Pick(S) \in S
    BY <1>3, Picked
  <2> DEFINE V == S \ {Pick(S)}
  <2>2. V \in SUBSET S /\ IsFiniteSet(V)
    BY FS_Subset
  <2>3. PICK k : IsSum(k, f, V) /\ SumFunctionOnSet(f, V) = k[V]
    <3> HIDE DEF V
    <3> QED
      BY <2>2, SumExists, Unfold
  <2>4. g[V] = k[V]
    <3> HIDE DEF V
    <3> QED
      BY <1>1, <2>2, <2>3, SumIsUnique
  <2>5. g[S] = f[Pick(S)] + g[V]
    BY <1>1, <1>3 DEF IsSum
  <2> QED
    BY <1>1, <1>3, <2>1, <2>3, <2>4, <2>5
<1> QED
  BY <1>2, <1>3

\* Sums of the same terms are equal.
LEMMA SumCongruence ==
  ASSUME NEW f, NEW g, NEW S, IsFiniteSet(S), \A x \in S : f[x] = g[x]
  PROVE  SumFunctionOnSet(f, S) = SumFunctionOnSet(g, S)
<1> DEFINE Good == {T \in SUBSET S : SumFunctionOnSet(f, T) = SumFunctionOnSet(g, T)}
<1>1. ASSUME NEW T \in SUBSET S, \A U \in SUBSET T : U # T => U \in Good
      PROVE  T \in Good
  <2>1. IsFiniteSet(T)
    BY FS_Subset
  <2>2. CASE T = {}
    BY <2>1, <2>2, SumFacts
  <2>3. CASE T # {}
    <3>1. Pick(T) \in T /\ Pick(T) \in S
      BY <2>1, <2>3, SumFacts
    <3>2. T \ {Pick(T)} \in Good
      BY <1>1, <3>1
    <3> QED
      BY <2>1, <2>3, <3>1, <3>2, SumFacts
  <2> QED
    BY <2>2, <2>3
<1>2. S \in Good
  <2> HIDE DEF Good
  <2> QED
    BY <1>1, SubsetInduction
<1> QED
  BY <1>2

\* Any term may be taken out of a sum first.
LEMMA SumSplit ==
  ASSUME NEW S, IsFiniteSet(S), NEW f, \A x \in S : f[x] \in Nat
  PROVE  /\ SumFunctionOnSet(f, S) \in Nat
         /\ \A x \in S : SumFunctionOnSet(f, S) = f[x] + SumFunctionOnSet(f, S \ {x})
<1> DEFINE Splits(T) ==
             /\ SumFunctionOnSet(f, T) \in Nat
             /\ \A x \in T : SumFunctionOnSet(f, T) = f[x] + SumFunctionOnSet(f, T \ {x})
           Good == {T \in SUBSET S : Splits(T)}
<1>1. ASSUME NEW T \in SUBSET S, \A U \in SUBSET T : U # T => U \in Good
      PROVE  T \in Good
  <2>1. IsFiniteSet(T)
    BY FS_Subset
  <2>2. CASE T = {}
    <3>1. SumFunctionOnSet(f, T) = 0
      BY <2>1, <2>2, SumFacts
    <3> QED
      BY <2>2, <3>1
  <2>3. CASE T # {}
    <3> DEFINE p == Pick(T)
               Sum(U) == SumFunctionOnSet(f, U)
    <3>1. p \in T /\ Sum(T) = f[p] + Sum(T \ {p})
      BY <2>1, <2>3, SumFacts
    <3> HIDE DEF p, Sum
    <3>2. ASSUME NEW x \in T
          PROVE  /\ f[x] \in Nat /\ Sum(T \ {x}) \in Nat
                 /\ \A y \in T \ {x} : /\ Sum(T \ {x}) = f[y] + Sum((T \ {x}) \ {y})
                                      /\ Sum((T \ {x}) \ {y}) \in Nat
      <4>1. \A y \in T \ {x} : (T \ {x}) \ {y} \in Good
        BY <1>1
      <4>2. T \ {x} \in Good
        BY <1>1
      <4> QED
        BY <4>1, <4>2 DEF Sum
    <3>3. ASSUME NEW x \in T, x # p PROVE Sum(T) = f[x] + Sum(T \ {x})
      <4>1. (T \ {x}) \ {p} = (T \ {p}) \ {x}
        OBVIOUS
      <4>2. Sum(T \ {p}) = f[x] + Sum((T \ {p}) \ {x})
        BY <3>1, <3>2, <3>3
      <4>3. Sum(T \ {x}) = f[p] + Sum((T \ {p}) \ {x})
        BY <3>1, <3>2, <3>3, <4>1
      <4>4. f[x] \in Nat /\ f[p] \in Nat /\ Sum((T \ {p}) \ {x}) \in Nat
        BY <3>1, <3>2, <3>3
      <4> QED
        BY <3>1, <4>2, <4>3, <4>4
    <3>4. Sum(T) \in Nat
      BY <3>1, <3>2
    <3>5. \A x \in T : Sum(T) = f[x] + Sum(T \ {x})
      BY <3>1, <3>3
    <3> QED
      BY <3>4, <3>5 DEF Sum
  <2> QED
    BY <2>2, <2>3
<1>2. S \in Good
  <2> HIDE DEF Good
  <2> QED
    BY <1>1, SubsetInduction
<1> QED
  BY <1>2

\* A sum of natural numbers grows with its set.
LEMMA SumMonotonic ==
  ASSUME NEW S, IsFiniteSet(S), NEW f, \A x \in S : f[x] \in Nat, NEW R \in SUBSET S
  PROVE  SumFunctionOnSet(f, R) <= SumFunctionOnSet(f, S)
<1> DEFINE Good == {T \in SUBSET S :
                      R \subseteq T => SumFunctionOnSet(f, R) <= SumFunctionOnSet(f, T)}
<1>1. ASSUME NEW T \in SUBSET S, \A U \in SUBSET T : U # T => U \in Good
      PROVE  T \in Good
  <2>1. IsFiniteSet(T)
    BY FS_Subset
  <2>2. SumFunctionOnSet(f, R) \in Nat /\ SumFunctionOnSet(f, T) \in Nat
    BY <2>1, FS_Subset, SumSplit
  <2>3. CASE R = T
    BY <2>2, <2>3
  <2>4. CASE R \subseteq T /\ R # T
    <3>1. PICK x \in T : x \notin R
      BY <2>4
    <3>2. T \ {x} \in Good /\ IsFiniteSet(T \ {x})
      BY <1>1, <2>1, FS_Subset
    <3>3. /\ SumFunctionOnSet(f, T) = f[x] + SumFunctionOnSet(f, T \ {x})
          /\ SumFunctionOnSet(f, T \ {x}) \in Nat
      BY <2>1, <3>2, SumSplit
    <3>4. SumFunctionOnSet(f, R) <= SumFunctionOnSet(f, T \ {x})
      BY <2>4, <3>1, <3>2
    <3>5. f[x] \in Nat
      BY <3>1
    <3> QED
      BY <2>2, <3>3, <3>4, <3>5
  <2> QED
    BY <2>3, <2>4
<1>2. S \in Good
  <2> HIDE DEF Good
  <2> QED
    BY <1>1, SubsetInduction
<1> QED
  BY <1>2
-----------------------------------------------------------------------------
(* Costs as a function, so that the lemmas on sums speak of them.          *)

CostOf == [i \in DOMAIN admissions |-> admissions[i].cost]

\* What the code adds up row by row is the sum of that function.
LEMMA CostsAreSums ==
  ASSUME NEW S, IsFiniteSet(S), S \subseteq DOMAIN admissions
  PROVE  MapThenSumSet(Cost, S) = SumFunctionOnSet(CostOf, S)
<1> DEFINE P(g) == g = [s \in SUBSET S |->
                          IF s = {} THEN 0 ELSE admissions[Pick(s)].cost + g[s \ {Pick(s)}]]
<1>1. \A g : P(g) <=> IsSum(g, CostOf, S)
  <2>1. \A s \in SUBSET S : s # {} => CostOf[Pick(s)] = admissions[Pick(s)].cost
    BY Picked DEF CostOf
  <2> QED
    BY <2>1 DEF IsSum
<1>2. \E g : P(g)
  BY <1>1, SumExists
<1>3. P(CHOOSE g : P(g))
  <2> HIDE DEF P
  <2> QED
    BY <1>2
<1>4. PICK g : P(g) /\ MapThenSumSet(Cost, S) = g[S]
  BY <1>3 DEF MapThenSumSet, MapThenFoldSet, Cost, Pick
<1>5. PICK h : IsSum(h, CostOf, S) /\ SumFunctionOnSet(CostOf, S) = h[S]
  BY SumExists, Unfold
<1>6. IsSum(g, CostOf, S)
  <2> HIDE DEF P
  <2> QED
    BY <1>1, <1>4
<1> QED
  BY <1>4, <1>5, <1>6, SumIsUnique


-----------------------------------------------------------------------------
(* The rows that are counted.                                              *)

LEMMA RowsAre ==
  ASSUME TypeOK
  PROVE  /\ DOMAIN admissions = 1..Len(admissions) /\ Len(admissions) \in Nat
         /\ IsFiniteSet(DOMAIN admissions)
         /\ \A i \in DOMAIN admissions :
              /\ admissions[i].cost \in Nat /\ admissions[i].at \in Int
              /\ admissions[i].allowed \in BOOLEAN /\ admissions[i].job \in BOOLEAN
         /\ \A i \in DOMAIN admissions : CostOf[i] \in Nat
<1>1. admissions \in Seq(Admission)
  BY DEF TypeOK
<1>2. DOMAIN admissions = 1..Len(admissions) /\ Len(admissions) \in Nat
  BY <1>1
<1>3. IsFiniteSet(DOMAIN admissions)
  BY <1>2, FS_Interval
<1>4. \A i \in DOMAIN admissions : admissions[i] \in Admission
  BY <1>1
<1> QED
  BY <1>2, <1>3, <1>4 DEF Admission, CostOf

\* Any set of rows can be counted, and its costs added up.
LEMMA Counted ==
  ASSUME TypeOK, NEW S \in SUBSET DOMAIN admissions
  PROVE  /\ IsFiniteSet(S) /\ Cardinality(S) \in Nat
         /\ SumFunctionOnSet(CostOf, S) \in Nat
         /\ MapThenSumSet(Cost, S) = SumFunctionOnSet(CostOf, S)
         /\ \A R \in SUBSET S : /\ Cardinality(R) <= Cardinality(S)
                                /\ SumFunctionOnSet(CostOf, R) <= SumFunctionOnSet(CostOf, S)
<1>1. IsFiniteSet(S) /\ \A R \in SUBSET S : IsFiniteSet(R) /\ Cardinality(R) <= Cardinality(S)
  BY RowsAre, FS_Subset
<1>2. \A i \in S : CostOf[i] \in Nat
  BY RowsAre
<1>3. SumFunctionOnSet(CostOf, S) \in Nat
  BY <1>1, <1>2, SumSplit
<1>4. \A R \in SUBSET S : SumFunctionOnSet(CostOf, R) <= SumFunctionOnSet(CostOf, S)
  BY <1>1, <1>2, SumMonotonic
<1> QED
  BY <1>1, <1>3, <1>4, FS_CardinalityType, CostsAreSums

\* A policy lowers the server's limits, and is not passed either.
LEMMA EffectiveIs ==
  ASSUME TypeOK, NEW s \in Scopes
  PROVE  LET limits == EffectiveLimits(s)
         IN /\ limits.rate \in Nat /\ limits.rate <= DefaultLimits.rate
            /\ limits.concurrency \in Nat /\ limits.concurrency <= DefaultLimits.concurrency
            /\ limits.quota \in Nat /\ limits.quota <= DefaultLimits.quota
            /\ limits.spend \in Nat /\ limits.spend <= DefaultLimits.spend
            /\ policies[s] # None => policies[s].rate \in Nat /\ limits.rate <= policies[s].rate
<1>1. DefaultLimits \in Limits
  BY AdmissionAssumption
<1>2. CASE policies[s] = None
  BY <1>1, <1>2 DEF EffectiveLimits, Limits
<1>3. CASE policies[s] # None
  <2>1. policies[s] \in Limits
    BY <1>3, AdmissionAssumption DEF TypeOK
  <2>2. DOMAIN DefaultLimits = {"rate", "concurrency", "quota", "spend"}
    BY <1>1 DEF Limits
  <2>3. EffectiveLimits(s)
          = [l \in DOMAIN DefaultLimits |-> Least(DefaultLimits[l], policies[s][l])]
    BY <1>3 DEF EffectiveLimits
  <2>4. \A l \in DOMAIN DefaultLimits : EffectiveLimits(s)[l]
                                          = Least(DefaultLimits[l], policies[s][l])
    BY <2>3
  <2>5. \A l \in {"rate", "concurrency", "quota", "spend"} :
          DefaultLimits[l] \in Nat /\ policies[s][l] \in Nat
    BY <1>1, <2>1 DEF Limits
  <2>6. \A l \in {"rate", "concurrency", "quota", "spend"} :
          /\ EffectiveLimits(s)[l] \in Nat
          /\ EffectiveLimits(s)[l] <= DefaultLimits[l]
          /\ EffectiveLimits(s)[l] <= policies[s][l]
    BY <2>2, <2>4, <2>5 DEF Least
  <2> QED
    BY <2>5, <2>6
<1> QED
  BY <1>2, <1>3

\* The operations there are, at any time, are finitely many.
Created == {r \in Requests : operations[r] # None}

Draft == [pc : {"draft", "admitted", "refused", "failed", "done"}, ask : Ask]
Operation == [client : Clients, status : Statuses, completedAt : Nat]

-----------------------------------------------------------------------------
(* The transaction: what it has read, its row, and what that adds to a     *)
(* window.                                                                 *)

\* The log has room for a request in a scope: the costs as a function.
Fits(s, ask) ==
  LET limits == EffectiveLimits(s)
      spent == SumFunctionOnSet(CostOf, Allowed(Since(s, ask.at - QuotaWindow, ask.at)))
  IN /\ Cardinality(Since(s, ask.at - RateWindow, ask.at)) + 1 <= limits.rate
     /\ ask.job => Cardinality(Reserved(s, ask.at)) + 1 <= limits.concurrency
     /\ ask.cost > 0 => spent + ask.cost <= limits.quota /\ spent + ask.cost <= limits.spend

LEMMA NotReachedFits ==
  ASSUME TypeOK, NEW ask \in Ask, NEW s \in Scopes, ~LimitReached(s, ask)
  PROVE  Fits(s, ask)
<1> DEFINE rate == Since(s, ask.at - RateWindow, ask.at)
           paid == Allowed(Since(s, ask.at - QuotaWindow, ask.at))
           jobs == Reserved(s, ask.at)
           limits == EffectiveLimits(s)
<1>1. /\ rate \in SUBSET DOMAIN admissions /\ paid \in SUBSET DOMAIN admissions
      /\ jobs \in SUBSET DOMAIN admissions
  BY DEF Since, Allowed, Reserved
<1>2. /\ limits.rate \in Nat /\ limits.concurrency \in Nat
      /\ limits.quota \in Nat /\ limits.spend \in Nat
  BY EffectiveIs
<1>3. ask.cost \in Nat
  BY DEF Ask
<1>4. Spent(Since(s, ask.at - QuotaWindow, ask.at)) = SumFunctionOnSet(CostOf, paid)
  BY <1>1, Counted DEF Spent
<1>5. /\ ~(Cardinality(rate) + 1 > limits.rate)
      /\ ask.job => ~(Cardinality(jobs) + 1 > limits.concurrency)
      /\ ask.cost > 0 => /\ ~(SumFunctionOnSet(CostOf, paid) + ask.cost > limits.quota)
                         /\ ~(SumFunctionOnSet(CostOf, paid) + ask.cost > limits.spend)
  BY <1>4 DEF LimitReached
<1>6. /\ Cardinality(rate) \in Nat /\ Cardinality(jobs) \in Nat
      /\ SumFunctionOnSet(CostOf, paid) \in Nat
  <2> HIDE DEF rate, paid, jobs
  <2> QED
    BY <1>1, Counted
<1>7. /\ Cardinality(rate) + 1 <= limits.rate
      /\ ask.job => Cardinality(jobs) + 1 <= limits.concurrency
      /\ ask.cost > 0 => /\ SumFunctionOnSet(CostOf, paid) + ask.cost <= limits.quota
                         /\ SumFunctionOnSet(CostOf, paid) + ask.cost <= limits.spend
  <2> HIDE DEF rate, paid, jobs, limits
  <2> QED
    BY <1>2, <1>3, <1>5, <1>6
<1> QED
  BY <1>7 DEF Fits

\* It has as much room when neither the log nor the policies have changed.
LEMMA FitsUnchanged ==
  ASSUME UNCHANGED <<policies, admissions>>, NEW s, NEW ask
  PROVE  Fits(s, ask)' = Fits(s, ask)
<1>1. EffectiveLimits(s)' = EffectiveLimits(s)
  BY DEF EffectiveLimits
<1>2. \A from, at : Since(s, from, at)' = Since(s, from, at)
  BY DEF Since
<1>3. /\ Allowed(Since(s, ask.at - QuotaWindow, ask.at))'
           = Allowed(Since(s, ask.at - QuotaWindow, ask.at))
      /\ Reserved(s, ask.at)' = Reserved(s, ask.at) /\ CostOf' = CostOf
  BY <1>2 DEF Allowed, Reserved, CostOf, Since
<1> QED
  BY <1>1, <1>2, <1>3 DEF Fits

\* What the transaction that holds the lock has read is so for as long as it
\* holds it.
ReadingFits ==
  transaction # None =>
    /\ Asked(transaction.request) /\ Len(transaction.counts) <= 6
    /\ ~transaction.reached =>
         \A s \in {Workspace, drafts[transaction.request].ask.client} :
           Fits(s, drafts[transaction.request].ask)

\* The row the decision on a request adds.
RowOf(ask) ==
  [client |-> ask.client, job |-> ask.job, cost |-> ask.cost, at |-> ask.at,
   allowed |-> Admits(ask)]

LEMMA AdmitIs ==
  ASSUME TypeOK, ReadingFits, NEW r \in Requests, Admit(r), NEW ask, ask = drafts[r].ask
  PROVE  LET n == Len(admissions) + 1
         IN /\ ask \in Ask /\ RowOf(ask) \in Admission
            /\ admissions' \in Seq(Admission)
            /\ n \notin DOMAIN admissions /\ DOMAIN admissions' = DOMAIN admissions \cup {n}
            /\ \A i \in DOMAIN admissions : admissions'[i] = admissions[i]
            /\ admissions'[n] = RowOf(ask)
            /\ UNCHANGED <<now, policies, operations>>
<1>1. drafts[r] \in Draft
  BY DEF Admit, Admitting, ReadingFits, Asked, TypeOK, Draft
<1>2. ask \in Ask
  BY <1>1 DEF Draft
<1>3. Admits(ask) \in BOOLEAN
  BY DEF Admits
<1>4. RowOf(ask) \in Admission
  BY <1>2, <1>3 DEF RowOf, Ask, Admission
<1>5. admissions' = Append(admissions, RowOf(ask)) /\ UNCHANGED <<now, policies, operations>>
  BY DEF Admit, RowOf
<1>6. admissions \in Seq(Admission)
  BY DEF TypeOK
<1> HIDE DEF RowOf
<1>7. /\ admissions' \in Seq(Admission)
      /\ Len(admissions') = Len(admissions) + 1
      /\ \A i \in 1..Len(admissions) : admissions'[i] = admissions[i]
      /\ admissions'[Len(admissions) + 1] = RowOf(ask)
  BY <1>4, <1>5, <1>6
<1>8. /\ DOMAIN admissions = 1..Len(admissions) /\ Len(admissions) \in Nat
      /\ DOMAIN admissions' = 1..(Len(admissions) + 1)
  BY <1>6, <1>7
<1> QED
  BY <1>2, <1>4, <1>5, <1>7, <1>8

\* A window of any width either does not see the row, or is one of those the
\* transaction has counted, its new row aside.
LEMMA WindowAfter ==
  ASSUME TypeOK, ReadingFits, NEW r \in Requests, Admit(r), NEW ask, ask = drafts[r].ask,
         NEW s \in Scopes, NEW t \in Int, NEW width \in Nat
  PROVE  LET n == Len(admissions) + 1
             W == Window(s, t, width)
         IN /\ W \in SUBSET DOMAIN admissions
            /\ \/ Window(s, t, width)' = W
               \/ /\ Window(s, t, width)' = W \cup {n}
                  /\ W \subseteq Allowed(Since(s, ask.at - width, ask.at))
                  /\ Fits(s, ask)
<1> DEFINE n == Len(admissions) + 1
<1>1. /\ ask \in Ask
      /\ n \notin DOMAIN admissions /\ DOMAIN admissions' = DOMAIN admissions \cup {n}
      /\ \A i \in DOMAIN admissions : admissions'[i] = admissions[i]
      /\ admissions'[n] = RowOf(ask)
  BY AdmitIs
<1> HIDE DEF n
<1>2. Window(s, t, width) \in SUBSET DOMAIN admissions
  BY DEF Window
<1>3. /\ ask.at \in Int /\ RowOf(ask).at = ask.at /\ RowOf(ask).client = ask.client
      /\ RowOf(ask).allowed = Admits(ask)
  BY <1>1 DEF Ask, RowOf
<1>4. \A i \in DOMAIN admissions' :
        i \in Window(s, t, width)'
          <=> \/ i \in Window(s, t, width)
              \/ i = n /\ Admits(ask) /\ In(s, ask.client) /\ ask.at \in t..(t + width)
  BY <1>1, <1>3 DEF Window
<1>5. Window(s, t, width)' \subseteq DOMAIN admissions'
  BY DEF Window
<1>6. CASE Admits(ask) /\ In(s, ask.client) /\ ask.at \in t..(t + width)
  <2>1. Window(s, t, width)' = Window(s, t, width) \cup {n}
    BY <1>1, <1>2, <1>4, <1>5, <1>6
  <2>2. \A i \in Window(s, t, width) : admissions[i].at >= ask.at - width
    BY <1>2, <1>3, <1>6, RowsAre DEF Window
  <2>3. Window(s, t, width) \subseteq Allowed(Since(s, ask.at - width, ask.at))
    BY <1>2, <2>2 DEF Window, Allowed, Since
  <2>4. ~transaction.reached /\ s \in {Workspace, ask.client}
    BY <1>6 DEF Admits, In
  <2>5. Fits(s, ask)
    BY <2>4 DEF ReadingFits, Admit, Admitting
  <2> QED
    BY <1>2, <2>1, <2>3, <2>5 DEF n
<1>7. CASE ~(Admits(ask) /\ In(s, ask.client) /\ ask.at \in t..(t + width))
  BY <1>1, <1>2, <1>4, <1>5, <1>7
<1> QED
  BY <1>6, <1>7


-----------------------------------------------------------------------------
(* The invariant: the windows, what has been read of them under the lock,  *)
(* and that the operations can be counted.                                 *)

\* SpendWithinLimit of the costs as a function.
SpendFits ==
  \A s \in Scopes, t \in Times :
    LET spent == SumFunctionOnSet(CostOf, Window(s, t, QuotaWindow))
    IN spent <= DefaultLimits.quota /\ spent <= DefaultLimits.spend

IInv ==
  /\ TypeOK /\ IsFiniteSet(Created) /\ ReadingFits
  /\ RateWithinLimit /\ SpendFits /\ JobsWithinLimit

LEMMA NumbersAre ==
  /\ Times \subseteq Int
  /\ {RateWindow, ReservationWindow, QuotaWindow, BaselineWindow, ErrorWindow} \subseteq Nat
  /\ DefaultLimits.rate \in Nat /\ DefaultLimits.concurrency \in Nat
  /\ DefaultLimits.quota \in Nat /\ DefaultLimits.spend \in Nat
BY AdmissionAssumption DEF Times, Limits

LEMMA AdmitKeepsRate ==
  ASSUME TypeOK, ReadingFits, RateWithinLimit, NEW r \in Requests, Admit(r)
  PROVE  RateWithinLimit'
<1> SUFFICES ASSUME NEW s \in Scopes, NEW t \in Times
             PROVE  Cardinality(Window(s, t, RateWindow)') <= DefaultLimits.rate
  BY DEF RateWithinLimit
<1> DEFINE ask == drafts[r].ask
           n == Len(admissions) + 1
           W == Window(s, t, RateWindow)
           S == Since(s, ask.at - RateWindow, ask.at)
<1>1. Cardinality(W) <= DefaultLimits.rate
  BY DEF RateWithinLimit
<1>2. /\ W \in SUBSET DOMAIN admissions
      /\ \/ Window(s, t, RateWindow)' = W
         \/ /\ Window(s, t, RateWindow)' = W \cup {n}
            /\ W \subseteq Allowed(S) /\ Fits(s, ask)
  BY WindowAfter, NumbersAre
<1>3. CASE Window(s, t, RateWindow)' = W
  BY <1>1, <1>3
<1>4. CASE /\ Window(s, t, RateWindow)' = W \cup {n}
           /\ W \subseteq Allowed(S) /\ Fits(s, ask)
  <2>1. n \notin DOMAIN admissions
    BY AdmitIs
  <2>2. S \in SUBSET DOMAIN admissions /\ W \subseteq S
    BY <1>4 DEF Since, Allowed
  <2>3. Cardinality(S) + 1 <= EffectiveLimits(s).rate
    BY <1>4 DEF Fits
  <2> HIDE DEF S, W, n
  <2>4. /\ Cardinality(W) <= Cardinality(S) /\ Cardinality(W) \in Nat
        /\ Cardinality(S) \in Nat /\ IsFiniteSet(W)
    BY <1>2, <2>2, Counted
  <2>5. Cardinality(W \cup {n}) = Cardinality(W) + 1
    BY <1>2, <2>1, <2>4, FS_AddElement
  <2>6. EffectiveLimits(s).rate \in Nat /\ EffectiveLimits(s).rate <= DefaultLimits.rate
    BY EffectiveIs
  <2> QED
    BY <1>4, <2>3, <2>4, <2>5, <2>6, NumbersAre
<1> QED
  BY <1>2, <1>3, <1>4

LEMMA AdmitKeepsSpend ==
  ASSUME TypeOK, ReadingFits, SpendFits, NEW r \in Requests, Admit(r)
  PROVE  SpendFits'
<1> SUFFICES ASSUME NEW s \in Scopes, NEW t \in Times
             PROVE  LET spent == SumFunctionOnSet(CostOf', Window(s, t, QuotaWindow)')
                    IN spent <= DefaultLimits.quota /\ spent <= DefaultLimits.spend
  BY DEF SpendFits
<1> DEFINE ask == drafts[r].ask
           n == Len(admissions) + 1
           W == Window(s, t, QuotaWindow)
           S == Allowed(Since(s, ask.at - QuotaWindow, ask.at))
           Sum(f, R) == SumFunctionOnSet(f, R)
<1>1. Sum(CostOf, W) <= DefaultLimits.quota /\ Sum(CostOf, W) <= DefaultLimits.spend
  BY DEF SpendFits
<1>2. /\ W \in SUBSET DOMAIN admissions
      /\ \/ Window(s, t, QuotaWindow)' = W
         \/ /\ Window(s, t, QuotaWindow)' = W \cup {n}
            /\ W \subseteq S /\ Fits(s, ask)
  BY WindowAfter, NumbersAre
<1>3. /\ ask \in Ask /\ n \notin DOMAIN admissions
      /\ \A i \in DOMAIN admissions : CostOf'[i] = CostOf[i]
      /\ CostOf'[n] = ask.cost
  <2>1. /\ ask \in Ask /\ n \notin DOMAIN admissions
        /\ DOMAIN admissions' = DOMAIN admissions \cup {n}
        /\ \A i \in DOMAIN admissions : admissions'[i] = admissions[i]
        /\ admissions'[n] = RowOf(ask)
    BY AdmitIs
  <2>2. RowOf(ask).cost = ask.cost
    BY DEF RowOf
  <2> QED
    BY <2>1, <2>2 DEF CostOf
<1>4. IsFiniteSet(W) /\ \A i \in W : CostOf[i] \in Nat
  BY <1>2, Counted, RowsAre
<1> HIDE DEF n, W, S
<1>5. Sum(CostOf', W) = Sum(CostOf, W)
  BY <1>2, <1>3, <1>4, SumCongruence
<1>6. CASE Window(s, t, QuotaWindow)' = W
  BY <1>1, <1>5, <1>6
<1>7. CASE /\ Window(s, t, QuotaWindow)' = W \cup {n}
           /\ W \subseteq S /\ Fits(s, ask)
  <2>1. ask.cost \in Nat
    BY <1>3 DEF Ask
  <2>2. Sum(CostOf, W) \in Nat
    BY <1>4, SumSplit
  <2>3. Sum(CostOf', W \cup {n}) = ask.cost + Sum(CostOf, W)
    <3> DEFINE V == W \cup {n}
               costs == CostOf'
    <3>1. IsFiniteSet(V) /\ n \in V /\ V \ {n} = W
      BY <1>2, <1>3, <1>4, FS_AddElement
    <3>2. \A i \in V : costs[i] \in Nat
      BY <1>2, <1>3, <1>4, <2>1
    <3> HIDE DEF V, costs
    <3>3. Sum(costs, V) = costs[n] + Sum(costs, V \ {n})
      BY <3>1, <3>2, SumSplit
    <3> QED
      BY <1>3, <1>5, <3>1, <3>3 DEF V, costs
  <2>4. CASE ask.cost = 0
    BY <1>1, <1>7, <2>2, <2>3, <2>4
  <2>5. CASE ask.cost > 0
    <3>1. S \in SUBSET DOMAIN admissions /\ W \in SUBSET S
      BY <1>7 DEF S, Allowed, Since
    <3>3. Sum(CostOf, W) <= Sum(CostOf, S) /\ Sum(CostOf, S) \in Nat
      BY <3>1, Counted
    <3>4. /\ Sum(CostOf, S) + ask.cost <= EffectiveLimits(s).quota
          /\ Sum(CostOf, S) + ask.cost <= EffectiveLimits(s).spend
      BY <1>7, <2>5 DEF Fits, S
    <3>5. /\ EffectiveLimits(s).quota \in Nat
          /\ EffectiveLimits(s).quota <= DefaultLimits.quota
          /\ EffectiveLimits(s).spend \in Nat
          /\ EffectiveLimits(s).spend <= DefaultLimits.spend
      BY EffectiveIs
    <3>6. /\ ask.cost + Sum(CostOf, W) <= DefaultLimits.quota
          /\ ask.cost + Sum(CostOf, W) <= DefaultLimits.spend
      <4> HIDE DEF Sum, ask
      <4> QED
        BY <2>1, <2>2, <3>3, <3>4, <3>5, NumbersAre
    <3> QED
      BY <1>7, <2>3, <3>6
  <2> QED
    BY <2>1, <2>4, <2>5
<1> QED
  BY <1>2, <1>6, <1>7

LEMMA AdmitKeepsJobs ==
  ASSUME TypeOK, ReadingFits, JobsWithinLimit, NEW r \in Requests, Admit(r)
  PROVE  JobsWithinLimit'
<1> SUFFICES ASSUME NEW s \in Scopes, NEW t \in Times
             PROVE  Cardinality({i \in Window(s, t, ReservationWindow)' : admissions'[i].job})
                      <= DefaultLimits.concurrency
  BY DEF JobsWithinLimit
<1> DEFINE ask == drafts[r].ask
           n == Len(admissions) + 1
           W == Window(s, t, ReservationWindow)
           J == {i \in W : admissions[i].job}
           K == {i \in Window(s, t, ReservationWindow)' : admissions'[i].job}
           S == Since(s, ask.at - ReservationWindow, ask.at)
           R == Reserved(s, ask.at)
<1>1. Cardinality(J) <= DefaultLimits.concurrency
  BY DEF JobsWithinLimit
<1>2. /\ W \in SUBSET DOMAIN admissions
      /\ \/ Window(s, t, ReservationWindow)' = W
         \/ /\ Window(s, t, ReservationWindow)' = W \cup {n}
            /\ W \subseteq Allowed(S) /\ Fits(s, ask)
  BY WindowAfter, NumbersAre
<1>3. /\ ask \in Ask /\ n \notin DOMAIN admissions
      /\ \A i \in DOMAIN admissions : admissions'[i] = admissions[i]
      /\ admissions'[n].job = ask.job
  <2>1. /\ ask \in Ask /\ n \notin DOMAIN admissions
        /\ \A i \in DOMAIN admissions : admissions'[i] = admissions[i]
        /\ admissions'[n] = RowOf(ask)
    BY AdmitIs
  <2>2. RowOf(ask).job = ask.job
    BY DEF RowOf
  <2> QED
    BY <2>1, <2>2
<1>4. CASE Window(s, t, ReservationWindow)' = W \/ ~ask.job
  <2>1. K = J
    BY <1>2, <1>3, <1>4
  <2> QED
    BY <1>1, <2>1
<1>5. CASE /\ Window(s, t, ReservationWindow)' = W \cup {n}
           /\ W \subseteq Allowed(S) /\ Fits(s, ask)
           /\ ask.job
  <2>1. K = J \cup {n} /\ n \notin J
    BY <1>2, <1>3, <1>5
  <2>2. J \subseteq R
    BY <1>5 DEF Reserved
  <2>4. R \in SUBSET DOMAIN admissions
    BY DEF Reserved, Allowed, Since
  <2>5. Cardinality(R) + 1 <= EffectiveLimits(s).concurrency
    BY <1>5 DEF Fits
  <2>6. /\ EffectiveLimits(s).concurrency \in Nat
        /\ EffectiveLimits(s).concurrency <= DefaultLimits.concurrency
    BY EffectiveIs
  <2>7. J \in SUBSET DOMAIN admissions
    BY <1>2
  <2> HIDE DEF J, K, R, n, ask
  <2>8. /\ IsFiniteSet(J) /\ Cardinality(J) \in Nat /\ Cardinality(R) \in Nat
        /\ Cardinality(J) <= Cardinality(R)
    BY <2>2, <2>4, <2>7, Counted
  <2>9. Cardinality(K) = Cardinality(J) + 1
    BY <2>1, <2>8, FS_AddElement
  <2>10. Cardinality(K) <= DefaultLimits.concurrency
    BY <2>4, <2>5, <2>6, <2>8, <2>9, NumbersAre
  <2> QED
    BY <2>10 DEF K
<1> QED
  BY <1>2, <1>4, <1>5


-----------------------------------------------------------------------------
(* The steps.                                                              *)

\* A step that leaves the log as it is leaves the windows as they are.
LEMMA LogUnchanged ==
  ASSUME UNCHANGED admissions
  PROVE  /\ RateWithinLimit => RateWithinLimit'
         /\ SpendFits => SpendFits'
         /\ JobsWithinLimit => JobsWithinLimit'
<1>1. \A s, t, width : Window(s, t, width)' = Window(s, t, width)
  BY DEF Window
<1>2. CostOf' = CostOf
  BY DEF CostOf
<1> QED
  BY <1>1, <1>2 DEF RateWithinLimit, SpendFits, JobsWithinLimit

\* What one request does to its draft another's transaction does not see.
LEMMA ReadingKept ==
  ASSUME ReadingFits, UNCHANGED <<policies, transaction, admissions>>,
         transaction # None =>
           drafts'[transaction.request] = drafts[transaction.request]
  PROVE  ReadingFits'
<1> SUFFICES ASSUME transaction # None PROVE ReadingFits'
  BY DEF ReadingFits
<1>1. PICK ask : ask = drafts[transaction.request].ask
  OBVIOUS
<1>2. \A s : Fits(s, ask)' = Fits(s, ask)
  BY FitsUnchanged
<1>3. /\ Asked(transaction.request)' = Asked(transaction.request)
      /\ drafts'[transaction.request].ask = ask
  BY <1>1 DEF Asked
<1>4. ~transaction.reached => \A s \in {Workspace, ask.client} : Fits(s, ask)'
  BY <1>1, <1>2 DEF ReadingFits
<1> QED
  BY <1>1, <1>3, <1>4 DEF ReadingFits

LEMMA ArriveKeeps ==
  ASSUME IInv, NEW r \in Requests, Arrive(r)
  PROVE  IInv'
<1>1. PICK c \in Clients, asked \in Capabilities, at \in (now - Skew)..(now + Skew) :
        drafts' = [drafts EXCEPT ![r] =
          [pc |-> "draft", ask |-> [client |-> c, job |-> asked.job, cost |-> asked.cost,
                                    recovery |-> asked.recovery, at |-> at]]]
  BY DEF Arrive
<1>2. at \in Int
  BY AdmissionAssumption DEF IInv, TypeOK
<1>3. PICK ask : ask = [client |-> c, job |-> asked.job, cost |-> asked.cost,
                        recovery |-> asked.recovery, at |-> at]
  OBVIOUS
<1>4. ask \in Ask
  BY <1>2, <1>3, AdmissionAssumption DEF Ask
<1>5. PICK draft \in Draft : draft = [pc |-> "draft", ask |-> ask]
  BY <1>4 DEF Draft
<1>6. drafts' = [drafts EXCEPT ![r] = draft]
  BY <1>1, <1>3, <1>5
<1>7. drafts' \in [Requests -> Draft \cup {None}]
  BY <1>6 DEF IInv, TypeOK, Draft
<1>8. UNCHANGED <<now, policies, transaction, admissions, operations>>
  BY DEF Arrive
<1>9. TypeOK'
  BY <1>7, <1>8 DEF IInv, TypeOK, Draft
<1>10. ReadingFits'
  <2>1. transaction # None =>
          drafts'[transaction.request] = drafts[transaction.request]
    BY <1>6 DEF Arrive, IInv, ReadingFits, Asked, TypeOK
  <2> QED
    BY <1>8, <2>1, ReadingKept DEF IInv
<1> QED
  BY <1>8, <1>9, <1>10, LogUnchanged DEF IInv, Created

\* The transaction reads what is so.
LEMMA BeginKeeps ==
  ASSUME IInv, NEW r \in Requests, Begin(r)
  PROVE  IInv'
<1> DEFINE reached == \E i \in 1..2 : LimitReached(ScopesOf(drafts[r].ask)[i], drafts[r].ask)
           surging == \E i \in 1..2 : Surging(ScopesOf(drafts[r].ask)[i], drafts[r].ask)
<1>1. PICK ask, scopes : ask = drafts[r].ask /\ scopes = ScopesOf(ask)
  OBVIOUS
<1>2. UNCHANGED <<now, policies, drafts, admissions, operations>> /\ Asked(r)
  BY DEF Begin
<1>3. /\ reached \in BOOLEAN /\ surging \in BOOLEAN
      /\ reached <=> \E i \in 1..2 : LimitReached(scopes[i], ask)
  BY <1>1
<1>4. transaction' =
           [request |-> r, reached |-> reached, surging |-> surging,
            concurrency |-> [i \in 1..2 |-> EffectiveLimits(scopes[i]).concurrency],
            counts |-> <<>>]
  BY <1>1 DEF Begin
<1> HIDE DEF reached, surging
<1>5. ask \in Ask
  BY <1>1, <1>2 DEF IInv, TypeOK, Asked
<1>6. scopes[1] = Workspace /\ scopes[2] = ask.client
  BY <1>1 DEF ScopesOf
<1>7. scopes[1] \in Scopes /\ scopes[2] \in Scopes
  BY <1>5, <1>6 DEF Scopes, Ask
<1>8. transaction' \in Reading
  <2>1. \A i \in 1..2 : scopes[i] \in Scopes
    BY <1>7
  <2>2. [i \in 1..2 |-> EffectiveLimits(scopes[i]).concurrency] \in [1..2 -> Nat]
    BY <2>1, EffectiveIs DEF IInv
  <2>3. <<>> \in Seq(Nat)
    OBVIOUS
  <2> QED
    BY <1>3, <1>4, <2>2, <2>3 DEF Reading
<1>9. TypeOK'
  BY <1>2, <1>8 DEF IInv, TypeOK
<1>10. ReadingFits'
  <2>1. transaction'.request = r /\ Asked(r)'
    BY <1>2, <1>4 DEF Asked
  <2>2. ASSUME ~reached, NEW s \in {Workspace, ask.client}
        PROVE  Fits(s, ask)'
    <3>1. \A i \in 1..2 : ~LimitReached(scopes[i], ask)
      BY <1>3, <2>2
    <3>2. ~LimitReached(s, ask) /\ s \in Scopes
      BY <1>6, <1>7, <2>2, <3>1
    <3>3. Fits(s, ask)
      BY <1>5, <3>2, NotReachedFits DEF IInv
    <3> QED
      BY <1>2, <3>3, FitsUnchanged
  <2>3. /\ drafts'[r].ask = ask /\ Len(transaction'.counts) <= 6
        /\ transaction'.reached = reached
    BY <1>1, <1>2, <1>4
  <2> QED
    BY <2>1, <2>2, <2>3 DEF ReadingFits
<1>11. RateWithinLimit' /\ SpendFits' /\ JobsWithinLimit'
  BY <1>2, LogUnchanged DEF IInv
<1>12. IsFiniteSet(Created)'
  BY <1>2 DEF IInv, Created
<1> QED
  BY <1>9, <1>10, <1>11, <1>12 DEF IInv

LEMMA CountKeeps ==
  ASSUME IInv, NEW r \in Requests, Count(r)
  PROVE  IInv'
<1>1. PICK found : /\ found = Statements(drafts[r].ask)[Len(transaction.counts) + 1]
                   /\ transaction' = [transaction EXCEPT
                        !.counts = Append(transaction.counts, Cardinality(found))]
  BY DEF Count
<1>2. UNCHANGED <<now, policies, drafts, admissions, operations>>
  BY DEF Count
<1>3. transaction \in Reading /\ transaction.counts \in Seq(Nat)
  BY DEF Count, Admitting, IInv, TypeOK, Reading
<1>4. Len(transaction.counts) + 1 \in 1..6
  <2>1. PICK n \in Nat : n = Len(transaction.counts)
    BY <1>3
  <2>2. n <= 6 /\ n # 6
    BY <2>1 DEF Count, Admitting, AllCounted, IInv, ReadingFits
  <2>3. n + 1 \in 1..6
    BY <2>2
  <2> QED
    BY <2>1, <2>3
<1>5. Cardinality(found) \in Nat
  <2>1. \A s, ask : /\ Running(s) \subseteq Created
                    /\ Completed(s, ask) \subseteq Created
                    /\ Failed(s, ask) \subseteq Created
    BY DEF Running, Completed, Failed, Created
  <2>2. found \subseteq Created
    BY <1>1, <1>4, <2>1 DEF Statements
  <2> QED
    BY <2>2, FS_Subset, FS_CardinalityType DEF IInv
<1>6. /\ Append(transaction.counts, Cardinality(found)) \in Seq(Nat)
      /\ Len(Append(transaction.counts, Cardinality(found))) <= 6
  BY <1>3, <1>4, <1>5
<1>7. /\ transaction' \in Reading /\ Len(transaction'.counts) <= 6
      /\ transaction'.request = transaction.request
      /\ transaction'.reached = transaction.reached
      /\ transaction # None
  BY <1>1, <1>3, <1>6 DEF Reading, Count, Admitting
<1>8. TypeOK'
  BY <1>2, <1>7 DEF IInv, TypeOK
<1>9. ReadingFits'
  <2>1. PICK q, ask : q = transaction.request /\ ask = drafts[q].ask
    OBVIOUS
  <2>2. \A s : Fits(s, ask)' = Fits(s, ask)
    BY <1>2, FitsUnchanged
  <2>3. Asked(q)' /\ (~transaction.reached => \A s \in {Workspace, ask.client} : Fits(s, ask)')
    BY <1>2, <1>7, <2>1, <2>2 DEF IInv, ReadingFits, Asked
  <2> QED
    BY <1>2, <1>7, <2>1, <2>3 DEF ReadingFits
<1> QED
  BY <1>2, <1>8, <1>9, LogUnchanged DEF IInv, Created

\* A transaction that ends leaves its draft with another state.
LEMMA DraftMoved ==
  ASSUME TypeOK, NEW r \in Requests, Admitting(r), ReadingFits,
         NEW pc \in {"admitted", "refused", "failed"},
         drafts' = [drafts EXCEPT ![r].pc = pc]
  PROVE  drafts' \in [Requests -> Draft \cup {None}]
<1>1. drafts[r] \in Draft
  BY DEF Admitting, ReadingFits, Asked, TypeOK, Draft
<1>2. PICK draft : draft = [drafts[r] EXCEPT !.pc = pc]
  OBVIOUS
<1>3. draft \in Draft
  BY <1>1, <1>2 DEF Draft
<1>4. drafts' = [drafts EXCEPT ![r] = draft]
  BY <1>2 DEF TypeOK
<1> QED
  BY <1>3, <1>4 DEF TypeOK, Draft

LEMMA AdmitKeeps ==
  ASSUME IInv, NEW r \in Requests, Admit(r)
  PROVE  IInv'
<1>1. PICK ask : ask = drafts[r].ask
  OBVIOUS
<1>2. admissions' \in Seq(Admission) /\ UNCHANGED <<now, policies, operations>>
  BY <1>1, AdmitIs DEF IInv
<1>3. drafts' \in [Requests -> Draft \cup {None}]
  <2>1. PICK pc \in {"admitted", "refused"} : drafts' = [drafts EXCEPT ![r].pc = pc]
    BY DEF Admit
  <2> QED
    BY <2>1, DraftMoved DEF Admit, IInv
<1>4. transaction' = None
  BY DEF Admit
<1>5. TypeOK'
  BY <1>2, <1>3, <1>4 DEF IInv, TypeOK, Draft
<1>6. IsFiniteSet(Created)' /\ ReadingFits'
  BY <1>2, <1>4 DEF IInv, Created, ReadingFits
<1> QED
  BY <1>5, <1>6, AdmitKeepsRate, AdmitKeepsSpend, AdmitKeepsJobs DEF IInv

\* A transaction that adds no row.
LEMMA EndKeeps ==
  ASSUME IInv, NEW r \in Requests, Throw(r) \/ Lose(r)
  PROVE  IInv'
<1>1. UNCHANGED <<now, policies, admissions, operations>> /\ transaction' = None
  BY DEF Throw, Lose
<1>2. drafts' \in [Requests -> Draft \cup {None}]
  <2>1. CASE drafts' = drafts
    BY <2>1 DEF IInv, TypeOK, Draft
  <2>2. CASE drafts' = [drafts EXCEPT ![r].pc = "failed"]
    BY <2>2, DraftMoved DEF IInv, Throw, Lose
  <2> QED
    BY <2>1, <2>2 DEF Throw, Lose
<1>3. TypeOK'
  BY <1>1, <1>2 DEF IInv, TypeOK, Draft
<1> QED
  BY <1>1, <1>3, LogUnchanged DEF IInv, Created, ReadingFits

LEMMA EnqueueKeeps ==
  ASSUME IInv, NEW r \in Requests, Enqueue(r)
  PROVE  IInv'
<1>1. UNCHANGED <<now, policies, transaction, admissions>> /\ drafts[r] \in Draft
  BY DEF Enqueue, IInv, TypeOK, Draft
<1>2. drafts' \in [Requests -> Draft \cup {None}]
  <2>1. PICK draft : draft = [drafts[r] EXCEPT !.pc = "done"]
    OBVIOUS
  <2>2. draft \in Draft
    BY <1>1, <2>1 DEF Draft
  <2>3. drafts' = [drafts EXCEPT ![r] = draft]
    BY <2>1 DEF IInv, TypeOK, Enqueue
  <2> QED
    BY <2>2, <2>3 DEF IInv, TypeOK, Draft
<1>3. PICK row \in Operation : row = [client |-> drafts[r].ask.client, status |-> "queued",
                                      completedAt |-> 0]
  BY <1>1 DEF Draft, Ask, Operation, Statuses
<1>4. operations' = [operations EXCEPT ![r] = row]
  BY <1>3 DEF Enqueue
<1>5. operations' \in [Requests -> Operation \cup {None}]
  BY <1>4 DEF IInv, TypeOK, Operation
<1>6. IsFiniteSet(Created')
  <2>1. IsFiniteSet(Created \cup {r})
    BY FS_AddElement DEF IInv
  <2>2. Created' \subseteq Created \cup {r}
    BY <1>4 DEF Created, IInv, TypeOK
  <2> QED
    BY <2>1, <2>2, FS_Subset
<1>7. TypeOK'
  BY <1>1, <1>2, <1>5 DEF IInv, TypeOK, Draft, Operation
<1>8. ReadingFits'
  <2>1. transaction # None =>
          drafts'[transaction.request] = drafts[transaction.request]
    BY DEF Enqueue, IInv, ReadingFits, Asked, TypeOK
  <2> QED
    BY <1>1, <2>1, ReadingKept DEF IInv
<1> QED
  BY <1>1, <1>6, <1>7, <1>8, LogUnchanged DEF IInv

LEMMA WorkKeeps ==
  ASSUME IInv, NEW r \in Requests, Work(r)
  PROVE  IInv'
<1>1. UNCHANGED <<now, policies, drafts, transaction, admissions>> /\ operations[r] \in Operation
  BY DEF Work, IInv, TypeOK, Operation
<1>2. PICK status \in Statuses :
        operations' = [operations EXCEPT
          ![r].status = status, ![r].completedAt = IF status \in Terminal THEN now ELSE 0]
  BY DEF Work, Statuses
<1>3. PICK at \in Nat : at = IF status \in Terminal THEN now ELSE 0
  BY AdmissionAssumption DEF IInv, TypeOK
<1>4. PICK row : row = [operations[r] EXCEPT !.status = status, !.completedAt = at]
  OBVIOUS
<1>5. row \in Operation
  BY <1>1, <1>4 DEF Operation
<1>6. operations' = [operations EXCEPT ![r] = row]
  BY <1>2, <1>3, <1>4 DEF IInv, TypeOK
<1>7. operations' \in [Requests -> Operation \cup {None}]
  BY <1>5, <1>6 DEF IInv, TypeOK, Operation
<1>8. IsFiniteSet(Created')
  <2>1. Created' \subseteq Created
    BY <1>6 DEF Created, IInv, TypeOK, Work
  <2> QED
    BY <2>1, FS_Subset DEF IInv
<1>9. TypeOK'
  BY <1>1, <1>7 DEF IInv, TypeOK, Operation
<1>10. ReadingFits'
  BY <1>1, ReadingKept DEF IInv
<1> QED
  BY <1>1, <1>8, <1>9, <1>10, LogUnchanged DEF IInv

LEMMA OthersKeep ==
  ASSUME IInv, (\E s \in Scopes : SetPolicy(s)) \/ Tick \/ UNCHANGED vars
  PROVE  IInv'
<1>1. UNCHANGED <<drafts, transaction, admissions, operations>>
  BY DEF SetPolicy, Tick, vars
<1>2. now' \in 0..MaxTime
  BY AdmissionAssumption DEF SetPolicy, Tick, vars, IInv, TypeOK
<1>3. policies' \in [Scopes -> PolicyLimits \cup {None}]
  BY DEF SetPolicy, Tick, vars, IInv, TypeOK
<1>4. TypeOK'
  BY <1>1, <1>2, <1>3 DEF IInv, TypeOK
<1>5. ReadingFits'
  <2>1. CASE transaction = None
    BY <1>1, <2>1 DEF ReadingFits
  <2>2. CASE transaction # None
    <3>1. UNCHANGED policies
      BY <2>2 DEF SetPolicy, Tick, vars
    <3> QED
      BY <1>1, <3>1, ReadingKept DEF IInv
  <2> QED
    BY <2>1, <2>2
<1> QED
  BY <1>1, <1>4, <1>5, LogUnchanged DEF IInv, Created

LEMMA Invariance == Spec => []IInv
<1>1. Init => IInv
  <2> SUFFICES ASSUME Init PROVE IInv
    OBVIOUS
  <2>1. TypeOK /\ Created = {} /\ DOMAIN admissions = {}
    BY AdmissionAssumption DEF Init, TypeOK, Created
  <2>2. \A s, t, width : Window(s, t, width) = {}
    BY <2>1 DEF Window
  <2>3. IsFiniteSet({}) /\ Cardinality({}) = 0 /\ SumFunctionOnSet(CostOf, {}) = 0
    BY FS_EmptySet, SumFacts
  <2>4. RateWithinLimit /\ SpendFits
    BY <2>2, <2>3, NumbersAre DEF RateWithinLimit, SpendFits
  <2>5. JobsWithinLimit
    <3>1. \A s, t, width : {i \in Window(s, t, width) : admissions[i].job} = {}
      BY <2>2
    <3> QED
      BY <2>3, <3>1, NumbersAre DEF JobsWithinLimit
  <2>6. ReadingFits
    BY DEF Init, ReadingFits
  <2> QED
    BY <2>1, <2>3, <2>4, <2>5, <2>6 DEF IInv
<1>2. IInv /\ [Next]_vars => IInv'
  BY ArriveKeeps, BeginKeeps, CountKeeps, AdmitKeeps, EndKeeps, EnqueueKeeps, WorkKeeps,
     OthersKeep DEF Next
<1> QED
  BY <1>1, <1>2, PTL DEF Spec

(* However requests overtake each other on their way to the lock, however  *)
(* far apart their clocks are and whatever policies are set in between, no *)
(* window of any scope holds more requests, spend or jobs than its limit.  *)
THEOREM WindowsStayWithinLimits == Spec => []WindowsHold
<1>1. ASSUME IInv PROVE WindowsHold
  <2>1. \A s, t, width : Window(s, t, width) \in SUBSET DOMAIN admissions
    BY DEF Window
  <2>2. \A s, t, width :
          MapThenSumSet(Cost, Window(s, t, width))
            = SumFunctionOnSet(CostOf, Window(s, t, width))
    <3> SUFFICES ASSUME NEW s, NEW t, NEW width
                 PROVE  MapThenSumSet(Cost, Window(s, t, width))
                          = SumFunctionOnSet(CostOf, Window(s, t, width))
      OBVIOUS
    <3> DEFINE W == Window(s, t, width)
    <3>1. W \in SUBSET DOMAIN admissions
      BY <2>1
    <3> HIDE DEF W
    <3>2. MapThenSumSet(Cost, W) = SumFunctionOnSet(CostOf, W)
      BY <1>1, <3>1, Counted DEF IInv
    <3> QED
      BY <3>2 DEF W
  <2>3. SpendWithinLimit
    BY <1>1, <2>2 DEF IInv, SpendFits, SpendWithinLimit
  <2> QED
    BY <1>1, <2>3 DEF IInv, WindowsHold
<1> QED
  BY <1>1, Invariance, PTL

-----------------------------------------------------------------------------
(* What an admission has found.                                            *)

\* Only the transaction admits a draft, and only one it has counted fit.
Admitted(r) == drafts[r] # None /\ drafts[r].pc = "draft" /\ drafts'[r].pc = "admitted"

LEMMA AdmittedIs ==
  ASSUME IInv, [Next]_vars, NEW r \in Requests, Admitted(r)
  PROVE  /\ Admit(r) /\ drafts[r].ask \in Ask
         /\ \A s \in {Workspace, drafts[r].ask.client} : Fits(s, drafts[r].ask)
<1>1. drafts[r] \in Draft /\ drafts \in [Requests -> Draft \cup {None}]
  BY DEF Admitted, IInv, TypeOK, Draft
<1>2. ASSUME NEW q \in Requests, q # r,
             \/ Arrive(q) \/ Begin(q) \/ Count(q) \/ Admit(q) \/ Throw(q) \/ Lose(q)
             \/ Enqueue(q)
      PROVE  FALSE
  <2>1. drafts'[r] = drafts[r]
    BY <1>1, <1>2 DEF Arrive, Begin, Count, Admit, Throw, Lose, Enqueue
  <2> QED
    BY <2>1 DEF Admitted
<1>3. ~(Arrive(r) \/ Begin(r) \/ Count(r) \/ Enqueue(r))
  BY DEF Admitted, Arrive, Begin, Count, Enqueue
<1>4. ~(UNCHANGED drafts)
  BY DEF Admitted
<1>5. ~(Throw(r) \/ Lose(r))
  <2>1. drafts' = [drafts EXCEPT ![r].pc = "failed"] => drafts'[r].pc = "failed"
    BY <1>1 DEF Draft
  <2> QED
    BY <1>4, <2>1 DEF Throw, Lose, Admitted
<1>6. Admit(r)
  BY <1>2, <1>3, <1>4, <1>5 DEF Next, Work, SetPolicy, Tick, vars
<1>7. drafts'[r].pc = IF Admits(drafts[r].ask) THEN "admitted" ELSE "refused"
  BY <1>1, <1>6 DEF Admit, Draft
<1>8. ~transaction.reached /\ transaction # None /\ transaction.request = r
  BY <1>6, <1>7 DEF Admitted, Admits, Admit, Admitting
<1> QED
  BY <1>1, <1>6, <1>8 DEF IInv, ReadingFits, Draft

PolicyKept ==
  \A r \in Requests :
    Admitted(r) => \A s \in {Workspace, drafts[r].ask.client} : policies[s] # None
      => \A t \in (drafts[r].ask.at - RateWindow)..drafts[r].ask.at :
           Cardinality(Window(s, t, RateWindow)') <= policies[s].rate

(* What is admitted under a policy leaves every window it falls into       *)
(* within that policy's rate, though others were admitted before it was    *)
(* set, by other clocks and under other limits.                            *)
THEOREM PoliciesHold == Spec => PolicyHolds
<1>1. ASSUME IInv, [Next]_vars PROVE PolicyKept
  <2> SUFFICES ASSUME NEW r \in Requests, Admitted(r),
                      NEW s \in {Workspace, drafts[r].ask.client}, policies[s] # None,
                      NEW t \in (drafts[r].ask.at - RateWindow)..drafts[r].ask.at
               PROVE  Cardinality(Window(s, t, RateWindow)') <= policies[s].rate
    BY DEF PolicyKept
  <2> DEFINE ask == drafts[r].ask
             n == Len(admissions) + 1
             W == Window(s, t, RateWindow)
             S == Since(s, ask.at - RateWindow, ask.at)
  <2>1. Admit(r) /\ Fits(s, ask) /\ ask \in Ask /\ TypeOK /\ ReadingFits
    BY <1>1, AdmittedIs DEF IInv
  <2>2. /\ ask.at \in Int /\ s \in Scopes /\ t \in Int /\ t >= ask.at - RateWindow
        /\ RateWindow \in Nat
    BY <2>1, AdmissionAssumption DEF Ask, Scopes
  <2>3. /\ n \notin DOMAIN admissions /\ DOMAIN admissions' = DOMAIN admissions \cup {n}
        /\ \A i \in DOMAIN admissions : admissions'[i] = admissions[i]
    BY <2>1, AdmitIs
  <2>4. Window(s, t, RateWindow)' \subseteq S \cup {n}
    <3>1. \A i \in W : admissions[i].at >= ask.at - RateWindow
      BY <2>1, <2>2, RowsAre DEF Window
    <3>2. W \subseteq S
      BY <3>1 DEF Window, Since
    <3>3. Window(s, t, RateWindow)' = W \/ Window(s, t, RateWindow)' = W \cup {n}
      BY <2>1, <2>2, WindowAfter
    <3> QED
      BY <3>2, <3>3
  <2>5. S \in SUBSET DOMAIN admissions
    BY DEF Since
  <2>6. Cardinality(S) + 1 <= EffectiveLimits(s).rate
    BY <2>1 DEF Fits
  <2>7. /\ EffectiveLimits(s).rate \in Nat /\ policies[s].rate \in Nat
        /\ EffectiveLimits(s).rate <= policies[s].rate
    BY <2>1, <2>2, EffectiveIs
  <2> DEFINE V == Window(s, t, RateWindow)'
  <2> HIDE DEF S, n, V
  <2>8. /\ Cardinality(S) \in Nat /\ IsFiniteSet(S \cup {n})
        /\ Cardinality(S \cup {n}) = Cardinality(S) + 1
    BY <2>1, <2>3, <2>5, Counted, FS_AddElement
  <2>9. Cardinality(V) <= Cardinality(S) + 1 /\ Cardinality(V) \in Nat
    BY <2>4, <2>8, FS_Subset, FS_CardinalityType DEF V
  <2>10. Cardinality(V) <= policies[s].rate
    BY <2>6, <2>7, <2>8, <2>9
  <2> QED
    BY <2>10 DEF V
<1>2. Spec => [][PolicyKept]_vars
  BY <1>1, Invariance, PTL DEF Spec
<1> QED
  BY <1>2, PTL DEF PolicyHolds, PolicyKept, Admitted
===============================================================================
