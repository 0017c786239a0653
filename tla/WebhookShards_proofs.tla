------------------------- MODULE WebhookShards_proofs -------------------------
(***************************************************************************)
(* What holds of WebhookShards for every set of workers and shard counts,  *)
(* every lease, lag and number of faults.                                  *)
(*                                                                         *)
(* A claim reads in one statement and writes in another.  What carries the *)
(* argument over that gap is DoomedOK: what a claim is about to delete is  *)
(* over, and stays so, because the row is locked; and no two claims hold   *)
(* the same row.                                                           *)
(***************************************************************************)
EXTENDS WebhookShards, FiniteSetTheorems, WellFoundedInduction, TLAPS

DoomedOK ==
  \A w \in Workers : worker[w].pc = "claiming" =>
    /\ \A s \in worker[w].doomed : lease[s] # NoLease /\ lease[s].left <= 0
    /\ \A x \in Workers \ {w} :
         worker[x].pc = "claiming" => worker[w].doomed \cap worker[x].doomed = {}

IInv == TypeOK /\ DoomedOK

-----------------------------------------------------------------------------
\* Every set of shards that has one has a first one.
LEMMA LeastOf ==
  ASSUME NEW n \in Nat, NEW S \in SUBSET 0..(n - 1), S # {}
  PROVE \E m \in S : \A x \in S : m <= x
<1> PICK T : T = {0..m : m \in S}
  OBVIOUS
<1>1. T \subseteq FiniteSubsetsOf(Nat) /\ T # {}
  <2>1. ASSUME NEW m \in S PROVE 0..m \subseteq Nat /\ IsFiniteSet(0..m)
    BY FS_Interval
  <2> QED
    BY <2>1 DEF FiniteSubsetsOf
<1>2. PICK t \in T : \A u \in T : ~(<<u, t>> \in StrictSubsetOrdering(Nat))
  BY <1>1, WFMin, FS_StrictSubsetOrderingWellFounded
<1>3. PICK m \in S : t = 0..m
  OBVIOUS
<1>4. ASSUME NEW x \in S, x < m PROVE FALSE
  <2>1. 0..x \in T /\ 0..x \subseteq 0..m /\ 0..x # 0..m
    <3>1. m \in 0..m /\ m \notin 0..x
      BY <1>4
    <3> QED
      BY <1>4, <3>1
  <2>2. <<0..x, t>> \in StrictSubsetOrdering(Nat)
    BY <1>3, <2>1 DEF StrictSubsetOrdering
  <2> QED
    BY <1>2, <2>1, <2>2
<1> QED
  BY <1>4

LEMMA Lefts == /\ Past \in Int /\ LeaseDuration \in Nat /\ Lag \in Nat
               /\ Past <= 0 /\ LeaseDuration > 0
               /\ \A lag \in 0..Lag : LeaseDuration - lag \in Past..LeaseDuration
BY ShardAssumptions DEF Past

LEMMA RowIs ==
  ASSUME TypeOK, NEW s \in Leased
  PROVE s \in Shards /\ lease[s] \in Row /\ lease[s].left \in Int
BY DEF TypeOK, Leased, Row

-----------------------------------------------------------------------------
(* What no step does to a lease that is not over.                          *)

HonouredOn(s) ==
  s \in Leased /\ lease[s].left > 0 /\ lease'[s] # lease[s]
    => \/ /\ lease'[s] # NoLease
          /\ lease'[s] = [lease[s] EXCEPT !.left = lease'[s].left]
       \/ /\ lease'[s] = NoLease
          /\ worker[Owner(s)].pc = "releasing"
          /\ worker[Owner(s)].shard = s

LEMMA ClaimReadHonours ==
  ASSUME IInv, NEW w \in Workers, ClaimRead(w), NEW s \in Shards
  PROVE HonouredOn(s)
<1>1. PICK lag \in 0..Lag : lease' = Without(Over(lag)) \/ lease' = lease
  BY DEF ClaimRead
<1>2. s \in Over(lag) => lease[s].left <= 0
  BY RowIs, Lefts DEF Over, IInv
<1>3. lease'[s] # lease[s] => s \in Over(lag)
  BY <1>1 DEF Without, IInv, TypeOK
<1>4. s \in Leased => lease[s].left \in Int
  BY RowIs DEF IInv
<1> QED
  BY <1>2, <1>3, <1>4 DEF HonouredOn

LEMMA ClaimCreateHonours ==
  ASSUME IInv, NEW w \in Workers, ClaimCreate(w), NEW s \in Shards
  PROVE HonouredOn(s)
<1> SUFFICES ASSUME s \in Leased, lease[s].left > 0
             PROVE lease'[s] = lease[s]
  BY DEF HonouredOn
<1>1. lease[s].left \in Int
  BY RowIs DEF IInv
<1>2. worker[w].pc = "claiming" /\ s \notin worker[w].doomed
  BY <1>1 DEF IInv, DoomedOK, ClaimCreate
<1>3. CASE Insertable(w)
  <2>1. s # worker[w].shard
    BY <1>2, <1>3 DEF Insertable
  <2>2. \E row : lease' = [Without(worker[w].doomed) EXCEPT ![worker[w].shard] = row]
    BY <1>3 DEF ClaimCreate
  <2> QED
    BY <1>2, <2>1, <2>2 DEF Without
<1>4. CASE ~Insertable(w)
  BY <1>4 DEF ClaimCreate
<1> QED
  BY <1>3, <1>4

LEMMA BeatHonours ==
  ASSUME IInv, NEW w \in Workers, Beat(w), NEW s \in Shards
  PROVE HonouredOn(s)
<1> SUFFICES ASSUME s \in Leased
             PROVE /\ lease'[s] # NoLease
                   /\ lease'[s] = [lease[s] EXCEPT !.left = lease'[s].left]
  BY DEF HonouredOn
<1>1. lease[s] \in Row /\ lease[s] # NoLease
  BY RowIs DEF IInv, Leased
<1>2. PICK lag \in 0..Lag :
        lease' = [lease EXCEPT ![worker[w].shard].left = LeaseDuration - lag]
  BY DEF Beat
<1>3. PICK left \in Past..LeaseDuration : left = LeaseDuration - lag
  BY Lefts
<1>4. CASE s = worker[w].shard
  <2>1. lease'[s] = [lease[s] EXCEPT !.left = left]
    BY <1>2, <1>3, <1>4 DEF IInv, TypeOK
  <2>2. lease'[s] \in Row /\ lease'[s].left = left
    BY <1>1, <2>1 DEF Row
  <2> QED
    BY <2>1, <2>2, AbsenceAssumption
<1>5. CASE s # worker[w].shard
  <2>1. lease'[s] = lease[s]
    BY <1>2, <1>5 DEF IInv, TypeOK
  <2>2. lease[s] = [lease[s] EXCEPT !.left = lease[s].left]
    BY <1>1 DEF Row
  <2> QED
    BY <1>1, <2>1, <2>2
<1> QED
  BY <1>4, <1>5

LEMMA ReleaseHonours ==
  ASSUME IInv, NEW w \in Workers, Release(w), NEW s \in Shards
  PROVE HonouredOn(s)
<1>1. CASE Mine(w) /\ s = worker[w].shard
  <2>1. lease'[s] = NoLease
    BY <1>1 DEF Release, Without
  <2> QED
    BY <1>1, <2>1 DEF HonouredOn, Mine, Release
<1>2. CASE ~(Mine(w) /\ s = worker[w].shard)
  <2>1. lease'[s] = lease[s]
    BY <1>2 DEF Release, Without, IInv, TypeOK
  <2> QED
    BY <2>1 DEF HonouredOn
<1> QED
  BY <1>1, <1>2

LEMMA OlderRow ==
  ASSUME NEW row \in Row
  PROVE /\ Older(row) \in Row /\ Older(row) # NoLease
        /\ Older(row) = [row EXCEPT !.left = Older(row).left]
        /\ Older(row).left <= row.left \/ row.left = Past
        /\ row.left <= 0 => Older(row).left <= 0
<1>1. row.left \in Past..LeaseDuration /\ row.left \in Int
  BY Lefts DEF Row
<1>2. PICK left \in Past..LeaseDuration :
        left = IF row.left > Past THEN row.left - 1 ELSE Past
  BY <1>1, Lefts
<1>3. Older(row) = [row EXCEPT !.left = left]
  BY <1>2 DEF Older
<1>4. Older(row) \in Row /\ Older(row).left = left
  BY <1>3 DEF Row
<1> QED
  BY <1>1, <1>2, <1>3, <1>4, Lefts, AbsenceAssumption

LEMMA TickHonours ==
  ASSUME IInv, Tick, NEW s \in Shards
  PROVE HonouredOn(s)
<1> SUFFICES ASSUME s \in Leased
             PROVE /\ lease'[s] # NoLease
                   /\ lease'[s] = [lease[s] EXCEPT !.left = lease'[s].left]
  BY DEF HonouredOn
<1>1. lease'[s] = Older(lease[s]) /\ lease[s] \in Row
  BY RowIs DEF IInv, Tick
<1> QED
  BY <1>1, OlderRow

-----------------------------------------------------------------------------
(* What a process may be doing.                                            *)

IdleRow == [pc : {"idle"}, count : Counts]
ClaimRow == [pc : {"claiming"}, count : Counts, shard : Shards,
             doomed : SUBSET Shards, left : Past..LeaseDuration]
RunRow == [pc : {"serving", "releasing"}, count : Counts, shard : Shards]

LEMMA WorkerIs ==
  ASSUME TypeOK, NEW w \in Workers
  PROVE /\ worker \in [Workers -> IdleRow \cup ClaimRow \cup RunRow]
        /\ worker[w].count \in Counts
        /\ worker[w].pc = "idle" => worker[w] \in IdleRow
        /\ worker[w].pc = "claiming" => worker[w] \in ClaimRow
        /\ worker[w].pc \in {"serving", "releasing"} => worker[w] \in RunRow
<1>1. worker \in [Workers -> IdleRow \cup ClaimRow \cup RunRow]
  BY DEF TypeOK, IdleRow, ClaimRow, RunRow
<1>2. /\ \A row \in IdleRow : row.pc = "idle" /\ row.count \in Counts
      /\ \A row \in ClaimRow : row.pc = "claiming" /\ row.count \in Counts
      /\ \A row \in RunRow : row.pc \in {"serving", "releasing"} /\ row.count \in Counts
  BY DEF IdleRow, ClaimRow, RunRow
<1> QED
  BY <1>1, <1>2

\* A process that goes from what it is doing to something other than a claim.
LEMMA WorkerMoves ==
  ASSUME IInv, NEW w \in Workers, NEW row \in IdleRow \cup RunRow,
         worker' = [worker EXCEPT ![w] = row],
         lease' \in [Shards -> {NoLease} \cup Row], faults' \in 0..MaxFaults,
         \A x \in Workers \ {w} : worker[x].pc = "claiming" =>
           \A s \in worker[x].doomed : lease'[s] # NoLease /\ lease'[s].left <= 0
  PROVE IInv'
<1>1. worker \in [Workers -> IdleRow \cup ClaimRow \cup RunRow]
  BY WorkerIs DEF IInv
<1>2. worker' \in [Workers -> IdleRow \cup ClaimRow \cup RunRow]
  BY <1>1
<1>3. TypeOK'
  BY <1>2 DEF TypeOK, IdleRow, ClaimRow, RunRow
<1>4. worker'[w].pc # "claiming" /\ \A x \in Workers \ {w} : worker'[x] = worker[x]
  BY <1>1 DEF IdleRow, RunRow
<1>5. DoomedOK'
  BY <1>4 DEF IInv, DoomedOK
<1> QED
  BY <1>3, <1>5 DEF IInv

\* The rows other claims are about to delete, where nothing is done to them.
LEMMA LeaseKept ==
  ASSUME IInv, UNCHANGED lease
  PROVE /\ lease' \in [Shards -> {NoLease} \cup Row]
        /\ \A x \in Workers : worker[x].pc = "claiming" =>
             \A s \in worker[x].doomed : lease'[s] # NoLease /\ lease'[s].left <= 0
BY DEF IInv, TypeOK, DoomedOK

LEMMA FaultIs == ASSUME TypeOK, Fault PROVE faults' \in 0..MaxFaults
BY ShardAssumptions DEF TypeOK, Fault

LEMMA ClaimReadKeeps == ASSUME IInv, NEW w \in Workers, ClaimRead(w) PROVE IInv'
<1>1. PICK lag \in 0..Lag :
         LET rest == Leased \ Over(lag)
             free == Free(w, rest)
         IN /\ \A s \in Over(lag) : ~Locked(s)
            /\ Compatible(w, rest)
            /\ IF free = {} \/ \E s \in rest : Owner(s) = w
               THEN lease' = Without(Over(lag)) /\ UNCHANGED worker
               ELSE /\ worker' = [worker EXCEPT ![w] =
                         [pc |-> "claiming", count |-> worker[w].count,
                          shard |-> CHOOSE s \in free :
                                      \A t \in free : s <= t,
                          doomed |-> Over(lag),
                          left |-> LeaseDuration - lag]]
                    /\ UNCHANGED lease
  BY DEF ClaimRead
<1>2. \A s \in Over(lag) : /\ s \in Shards /\ lease[s] # NoLease /\ lease[s].left <= 0
  BY RowIs, Lefts DEF Over, Leased, IInv
<1>3. \A x \in Workers : worker[x].pc = "claiming" => worker[x].doomed \cap Over(lag) = {}
  BY <1>1 DEF Locked
<1>4. UNCHANGED faults /\ worker[w].pc = "idle"
  BY DEF ClaimRead
<1>5. PICK free : free = Free(w, Leased \ Over(lag))
  OBVIOUS
<1>6. CASE lease' = Without(Over(lag)) /\ UNCHANGED worker
  <2>1. lease' \in [Shards -> {NoLease} \cup Row]
    BY <1>6 DEF Without, IInv, TypeOK
  <2>2. TypeOK'
    BY <1>4, <1>6, <2>1 DEF IInv, TypeOK
  <2>3. \A x \in Workers : worker[x].pc = "claiming" =>
          \A s \in worker[x].doomed : lease'[s] = lease[s] /\ s \in Shards
    <3>1. \A x \in Workers : worker[x].pc = "claiming" => worker[x].doomed \subseteq Shards
      BY WorkerIs DEF IInv, ClaimRow
    <3> QED
      BY <1>3, <1>6, <3>1 DEF Without
  <2>4. DoomedOK'
    BY <1>6, <2>3 DEF IInv, DoomedOK
  <2> QED
    BY <2>2, <2>4 DEF IInv
<1>7. CASE /\ free # {} /\ UNCHANGED lease
           /\ worker' = [worker EXCEPT ![w] =
                         [pc |-> "claiming", count |-> worker[w].count,
                          shard |-> CHOOSE s \in free :
                                      \A t \in free : s <= t,
                          doomed |-> Over(lag),
                          left |-> LeaseDuration - lag]]
  <2>1. worker[w].count \in Counts /\ worker[w].count \in Nat
    BY WorkerIs, ShardAssumptions DEF IInv
  <2>2. free \subseteq 0..(worker[w].count - 1)
    BY <1>5 DEF Free
  <2>3. PICK shard : shard = CHOOSE s \in free : \A t \in free : s <= t
    OBVIOUS
  <2>4. shard \in free
    BY <1>7, <2>1, <2>2, <2>3, LeastOf
  <2>5. shard \in Shards
    BY <2>1, <2>2, <2>4 DEF Shards
  <2>6. PICK left \in Past..LeaseDuration : left = LeaseDuration - lag
    BY Lefts
  <2>7. PICK row : row = [pc |-> "claiming", count |-> worker[w].count, shard |-> shard,
                          doomed |-> Over(lag), left |-> left]
    OBVIOUS
  <2>8. row \in ClaimRow /\ row.pc = "claiming" /\ row.doomed = Over(lag)
    BY <1>2, <2>1, <2>5, <2>7 DEF ClaimRow
  <2>9. worker' = [worker EXCEPT ![w] = row]
    BY <1>7, <2>3, <2>6, <2>7
  <2>10. worker \in [Workers -> IdleRow \cup ClaimRow \cup RunRow]
    BY WorkerIs DEF IInv
  <2>11. TypeOK'
    <3>1. worker' \in [Workers -> IdleRow \cup ClaimRow \cup RunRow]
      BY <2>8, <2>9, <2>10
    <3> QED
      BY <1>4, <1>7, <3>1 DEF IInv, TypeOK, IdleRow, ClaimRow, RunRow
  <2>12. worker'[w] = row /\ \A x \in Workers \ {w} : worker'[x] = worker[x]
    BY <2>9, <2>10
  <2>13. DoomedOK'
    <3> SUFFICES ASSUME NEW x \in Workers, worker'[x].pc = "claiming"
                 PROVE /\ \A s \in worker'[x].doomed : lease[s] # NoLease /\ lease[s].left <= 0
                       /\ \A y \in Workers \ {x} : worker'[y].pc = "claiming"
                            => worker'[x].doomed \cap worker'[y].doomed = {}
      BY <1>7 DEF DoomedOK
    <3>1. CASE x = w
      BY <1>2, <1>3, <2>8, <2>12, <3>1
    <3>2. CASE x # w
      <4>1. worker[x].pc = "claiming" /\ worker'[x].doomed = worker[x].doomed
        BY <2>12, <3>2
      <4>2. worker[x].doomed \cap Over(lag) = {}
        BY <1>3, <4>1
      <4>3. \A y \in Workers \ {x} : worker'[y].pc = "claiming"
              => worker[x].doomed \cap worker'[y].doomed = {}
        <5> SUFFICES ASSUME NEW y \in Workers \ {x}, worker'[y].pc = "claiming"
                     PROVE worker[x].doomed \cap worker'[y].doomed = {}
          OBVIOUS
        <5>1. CASE y = w
          BY <2>8, <2>12, <4>2, <5>1
        <5>2. CASE y # w
          BY <2>12, <4>1, <5>2 DEF IInv, DoomedOK
        <5> QED
          BY <5>1, <5>2
      <4> QED
        BY <4>1, <4>3 DEF IInv, DoomedOK
    <3> QED
      BY <3>1, <3>2
  <2> QED
    BY <2>11, <2>13 DEF IInv
<1> QED
  BY <1>1, <1>5, <1>6, <1>7

LEMMA ClaimCreateKeeps == ASSUME IInv, NEW w \in Workers, ClaimCreate(w) PROVE IInv'
<1>1. worker[w] \in ClaimRow /\ worker[w].pc = "claiming" /\ UNCHANGED faults
  BY WorkerIs DEF IInv, ClaimCreate
<1>2. PICK shard \in Shards, doomed \in SUBSET Shards :
        shard = worker[w].shard /\ doomed = worker[w].doomed
  BY <1>1 DEF ClaimRow
<1>3. faults' \in 0..MaxFaults
  BY <1>1 DEF IInv, TypeOK
<1>4. CASE Insertable(w)
  <2>1. PICK row : row = [owner |-> w, count |-> worker[w].count, left |-> worker[w].left]
    OBVIOUS
  <2>2. row \in Row
    BY <1>1, <2>1 DEF ClaimRow, Row
  <2>3. lease' = [Without(doomed) EXCEPT ![shard] = row]
    BY <1>2, <1>4, <2>1 DEF ClaimCreate
  <2>4. lease' \in [Shards -> {NoLease} \cup Row]
    BY <2>2, <2>3 DEF Without, IInv, TypeOK
  <2>5. \A s \in Shards : s \notin doomed /\ s # shard => lease'[s] = lease[s]
    BY <2>3 DEF Without
  <2>6. PICK run : run = [pc |-> "serving", count |-> worker[w].count, shard |-> shard]
    OBVIOUS
  <2>7. run \in RunRow /\ worker' = [worker EXCEPT ![w] = run]
    BY <1>1, <1>2, <1>4, <2>6 DEF ClaimCreate, ClaimRow, RunRow
  <2>8. ASSUME NEW x \in Workers \ {w}, worker[x].pc = "claiming", NEW s \in worker[x].doomed
        PROVE lease'[s] # NoLease /\ lease'[s].left <= 0
    <3>1. /\ lease[s] # NoLease /\ lease[s].left <= 0 /\ s \in Shards
          /\ s \notin doomed
      BY <1>1, <1>2, <2>8, WorkerIs DEF IInv, DoomedOK, ClaimRow
    <3>2. s # shard
      BY <1>2, <1>4, <3>1 DEF Insertable, Leased
    <3> QED
      BY <2>5, <3>1, <3>2
  <2> QED
    BY <1>3, <2>4, <2>7, <2>8, WorkerMoves
<1>5. CASE ~Insertable(w)
  <2>1. UNCHANGED lease /\ worker' = [worker EXCEPT ![w] = Started(worker[w].count)]
    BY <1>5 DEF ClaimCreate
  <2>2. Started(worker[w].count) \in IdleRow
    BY <1>1 DEF Started, ClaimRow, IdleRow
  <2> QED
    BY <1>3, <2>1, <2>2, LeaseKept, WorkerMoves
<1> QED
  BY <1>4, <1>5

LEMMA BeatKeeps == ASSUME IInv, NEW w \in Workers, Beat(w) PROVE IInv'
<1>1. PICK lag \in 0..Lag :
         /\ Renewable(w, lag)
         /\ ~Locked(worker[w].shard)
         /\ lease' = [lease EXCEPT ![worker[w].shard].left = LeaseDuration - lag]
  BY DEF Beat
<1>2. PICK shard \in Shards : shard = worker[w].shard
  BY WorkerIs DEF IInv, Beat, RunRow
<1>3. PICK left \in Past..LeaseDuration : left = LeaseDuration - lag
  BY Lefts
<1>4. lease[shard] \in Row
  BY <1>1, <1>2 DEF Renewable, Mine, IInv, TypeOK
<1>5. PICK row : row = [lease[shard] EXCEPT !.left = left]
  OBVIOUS
<1>6. row \in Row
  BY <1>4, <1>5 DEF Row
<1>7. lease' = [lease EXCEPT ![shard] = row]
  BY <1>1, <1>2, <1>3, <1>5 DEF IInv, TypeOK
<1>8. TypeOK'
  BY <1>6, <1>7 DEF IInv, TypeOK, Beat
<1>9. UNCHANGED worker
  BY DEF Beat
<1>10. \A x \in Workers : worker[x].pc = "claiming" =>
         \A s \in worker[x].doomed : lease'[s] = lease[s]
  BY <1>1, <1>2, <1>7 DEF Locked, IInv, TypeOK
<1>11. DoomedOK'
  BY <1>9, <1>10 DEF IInv, DoomedOK
<1> QED
  BY <1>8, <1>11 DEF IInv

\* A process that is told to stop, or stops of itself.
LEMMA StoppingKeeps ==
  ASSUME IInv, NEW w \in Workers, worker[w].pc = "serving", Stopping(w),
         UNCHANGED lease, faults' \in 0..MaxFaults
  PROVE IInv'
<1>1. worker[w] \in RunRow
  BY WorkerIs DEF IInv
<1>2. PICK row : row = [worker[w] EXCEPT !.pc = "releasing"]
  OBVIOUS
<1>3. row \in RunRow
  BY <1>1, <1>2 DEF RunRow
<1>4. worker' = [worker EXCEPT ![w] = row]
  BY <1>2 DEF Stopping, IInv, TypeOK
<1> QED
  BY <1>3, <1>4, LeaseKept, WorkerMoves

LEMMA ReleaseKeeps == ASSUME IInv, NEW w \in Workers, Release(w) PROVE IInv'
<1>1. /\ Started(worker[w].count) \in IdleRow
      /\ worker' = [worker EXCEPT ![w] = Started(worker[w].count)]
  BY WorkerIs DEF IInv, Started, IdleRow, Release
<1>2. faults' \in 0..MaxFaults
  BY DEF IInv, TypeOK, Release
<1>3. CASE Mine(w)
  <2>1. ~Locked(worker[w].shard) /\ lease' = Without({worker[w].shard})
    BY <1>3 DEF Release
  <2>2. lease' \in [Shards -> {NoLease} \cup Row]
    BY <2>1 DEF Without, IInv, TypeOK
  <2>3. ASSUME NEW x \in Workers \ {w}, worker[x].pc = "claiming", NEW s \in worker[x].doomed
        PROVE lease'[s] # NoLease /\ lease'[s].left <= 0
    <3>1. s # worker[w].shard /\ s \in Shards
      BY <2>1, <2>3, WorkerIs DEF Locked, IInv, ClaimRow
    <3>2. lease'[s] = lease[s]
      BY <2>1, <3>1 DEF Without
    <3> QED
      BY <2>3, <3>2 DEF IInv, DoomedOK
  <2> QED
    BY <1>1, <1>2, <2>2, <2>3, WorkerMoves
<1>4. CASE ~Mine(w)
  BY <1>1, <1>2, <1>4, LeaseKept, WorkerMoves DEF Release
<1> QED
  BY <1>3, <1>4

LEMMA CrashKeeps == ASSUME IInv, NEW w \in Workers, Crash(w) PROVE IInv'
<1>1. PICK n \in Counts : worker' = [worker EXCEPT ![w] = Started(n)]
  BY DEF Crash
<1>2. Started(n) \in IdleRow
  BY DEF Started, IdleRow
<1>3. faults' \in 0..MaxFaults
  BY FaultIs DEF IInv, Crash
<1> QED
  BY <1>1, <1>2, <1>3, LeaseKept, WorkerMoves DEF Crash

LEMMA TickKeeps == ASSUME IInv, Tick PROVE IInv'
<1>1. faults' \in 0..MaxFaults
  BY FaultIs DEF IInv, TypeOK, Tick
<1>2. \A s \in Shards : /\ s \in Leased => lease'[s] = Older(lease[s]) /\ lease[s] \in Row
                        /\ s \notin Leased => lease'[s] = NoLease
  BY RowIs DEF IInv, Tick
<1>3. lease' \in [Shards -> {NoLease} \cup Row]
  <2>1. \A s \in Shards : lease'[s] \in {NoLease} \cup Row
    BY <1>2, OlderRow
  <2> QED
    BY <2>1 DEF Tick
<1>4. ASSUME NEW w \in Workers, worker[w].pc = "claiming"
      PROVE /\ worker'[w] \in ClaimRow /\ worker'[w].doomed = worker[w].doomed
            /\ worker'[w].pc = "claiming"
  <2>1. worker[w] \in ClaimRow
    BY <1>4, WorkerIs DEF IInv
  <2>2. PICK left \in Past..LeaseDuration :
          left = IF worker[w].left > Past THEN worker[w].left - 1 ELSE Past
    BY <2>1, Lefts DEF ClaimRow
  <2>3. worker'[w] = [worker[w] EXCEPT !.left = left]
    BY <1>4, <2>2 DEF Tick, Older
  <2> QED
    BY <2>1, <2>3 DEF ClaimRow
<1>5. ASSUME NEW w \in Workers, worker[w].pc # "claiming" PROVE worker'[w] = worker[w]
  BY <1>5 DEF Tick
<1>6. TypeOK'
  <2>1. worker \in [Workers -> IdleRow \cup ClaimRow \cup RunRow]
    BY WorkerIs DEF IInv, TypeOK, IdleRow, ClaimRow, RunRow
  <2>2. \A w \in Workers : worker'[w] \in IdleRow \cup ClaimRow \cup RunRow
    BY <1>4, <1>5, <2>1
  <2>3. worker' \in [Workers -> IdleRow \cup ClaimRow \cup RunRow]
    BY <2>2 DEF Tick
  <2> QED
    BY <1>1, <1>3, <2>3 DEF TypeOK, IdleRow, ClaimRow, RunRow
<1>7. \A w \in Workers : /\ worker'[w].pc = "claiming" <=> worker[w].pc = "claiming"
                         /\ worker[w].pc = "claiming"
                              => /\ worker'[w].doomed = worker[w].doomed
                                 /\ worker[w].doomed \subseteq Shards
  BY <1>4, <1>5, WorkerIs DEF IInv, ClaimRow
<1>8. \A s \in Shards : lease[s] # NoLease /\ lease[s].left <= 0
                          => lease'[s] # NoLease /\ lease'[s].left <= 0
  BY <1>2, OlderRow DEF Leased
<1>9. DoomedOK'
  BY <1>7, <1>8 DEF IInv, DoomedOK
<1> QED
  BY <1>6, <1>9 DEF IInv

-----------------------------------------------------------------------------
(* The invariant, and what follows from it.                                *)

LEMMA Initially == Init => IInv
<1> SUFFICES ASSUME Init PROVE IInv
  OBVIOUS
<1>1. PICK n \in Counts : worker = [w \in Workers |-> Started(n)]
  BY DEF Init
<1>2. TypeOK
  BY <1>1, ShardAssumptions DEF Init, TypeOK, Started
<1>3. DoomedOK
  BY <1>1 DEF DoomedOK, Started
<1> QED
  BY <1>2, <1>3 DEF IInv

LEMMA StepKeeps == IInv /\ [Next]_vars => IInv'
<1> SUFFICES ASSUME IInv, [Next]_vars PROVE IInv'
  OBVIOUS
<1>1. ASSUME NEW w \in Workers, ClaimRead(w) \/ ClaimCreate(w) PROVE IInv'
  BY <1>1, ClaimReadKeeps, ClaimCreateKeeps
<1>2. ASSUME NEW w \in Workers, Beat(w) \/ Release(w) \/ Crash(w) PROVE IInv'
  BY <1>2, BeatKeeps, ReleaseKeeps, CrashKeeps
<1>3. ASSUME NEW w \in Workers, BeatRefused(w) PROVE IInv'
  <2>1. faults' \in 0..MaxFaults
    BY <1>3 DEF IInv, TypeOK, BeatRefused
  <2> QED
    BY <1>3, <2>1, StoppingKeeps DEF BeatRefused
<1>4. ASSUME NEW w \in Workers, RunEnds(w) PROVE IInv'
  <2>1. faults' \in 0..MaxFaults
    BY <1>4, FaultIs DEF IInv, RunEnds
  <2> QED
    BY <1>4, <2>1, StoppingKeeps DEF RunEnds
<1>5. CASE Tick
  BY <1>5, TickKeeps
<1>6. CASE UNCHANGED vars
  BY <1>6 DEF IInv, TypeOK, DoomedOK, vars
<1> QED
  BY <1>1, <1>2, <1>3, <1>4, <1>5, <1>6 DEF Next

LEMMA StepHonours == ASSUME IInv, [Next]_vars, NEW s \in Shards PROVE HonouredOn(s)
<1>1. ASSUME NEW w \in Workers, ClaimRead(w) \/ ClaimCreate(w) PROVE HonouredOn(s)
  BY <1>1, ClaimReadHonours, ClaimCreateHonours
<1>2. ASSUME NEW w \in Workers, Beat(w) \/ Release(w) PROVE HonouredOn(s)
  BY <1>2, BeatHonours, ReleaseHonours
<1>3. ASSUME NEW w \in Workers, BeatRefused(w) \/ RunEnds(w) \/ Crash(w)
      PROVE HonouredOn(s)
  BY <1>3 DEF HonouredOn, BeatRefused, RunEnds, Crash
<1>4. CASE Tick
  BY <1>4, TickHonours
<1>5. CASE UNCHANGED vars
  BY <1>5 DEF HonouredOn, vars
<1> QED
  BY <1>1, <1>2, <1>3, <1>4, <1>5 DEF Next

LEMMA Invariance == Spec => []IInv
BY Initially, StepKeeps, PTL DEF Spec

(* claim, renew and release never take a shard from the worker that holds  *)
(* it before its lease is over, although a claim decides in one statement  *)
(* what it deletes in another.                                             *)
THEOREM ShardLeasesHonoured == Spec => LeaseHonoured
<1>1. ASSUME IInv, [Next]_vars
      PROVE \A s \in Leased :
         lease[s].left > 0 /\ lease'[s] # lease[s]
           => \/ /\ lease'[s] # NoLease
                 /\ lease'[s] = [lease[s] EXCEPT !.left = lease'[s].left]
              \/ /\ lease'[s] = NoLease
                 /\ worker[Owner(s)].pc = "releasing"
                 /\ worker[Owner(s)].shard = s
  BY <1>1, StepHonours DEF HonouredOn, Leased
<1> QED
  BY <1>1, Invariance, PTL DEF Spec, LeaseHonoured
================================================================================
