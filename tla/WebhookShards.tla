---------------------------- MODULE WebhookShards ----------------------------
(***************************************************************************)
(* The shards of one pool of webhook delivery workers: the rows of         *)
(* v2WebhookWorkerShardLease and the processes that claim a shard, serve   *)
(* it under heartbeats, release it and claim again.  Which deliveries a    *)
(* worker finds in its shard, and sends, is WebhookDeliveries.             *)
(*                                                                         *)
(* Time is relative, as in WebhookDeliveries: a lease is kept as the time  *)
(* it has left, which Tick shortens down to Past, and a command's now is   *)
(* up to Lag behind the present.                                           *)
(***************************************************************************)
EXTENDS Integers, FiniteSets

CONSTANTS
    Workers,        \* worker processes, each its own leaseOwner
    Counts,         \* the shard counts the pool is deployed with
    NoLease,        \* no row for a shard
    LeaseDuration,
    Lag,            \* how far a clock reading may be behind
    MaxFaults       \* bound on crashes, failed runs and late heartbeats

ASSUME ShardAssumptions ==
    /\ Counts # {} /\ Counts \subseteq Nat \ {0}
    /\ IsFiniteSet(Counts)
    /\ LeaseDuration \in Nat \ {0}
    /\ Lag \in Nat /\ MaxFaults \in Nat

VARIABLES
    lease,      \* the row of each shard of the pool
    worker,     \* what each process is doing, and the count it was given
    faults      \* how many faults there have been

vars == <<lease, worker, faults>>

Past == -Lag
Shards == UNION {0..(n - 1) : n \in Counts}

Row == [owner : Workers, count : Counts, left : Past..LeaseDuration]

Started(n) == [pc |-> "idle", count |-> n]

ASSUME AbsenceAssumption == NoLease \notin Row

TypeOK ==
    /\ lease \in [Shards -> {NoLease} \cup Row]
    /\ worker \in [Workers ->
         [pc : {"idle"}, count : Counts]
         \cup [pc : {"claiming"}, count : Counts, shard : Shards,
               doomed : SUBSET Shards, left : Past..LeaseDuration]
         \cup [pc : {"serving", "releasing"}, count : Counts,
               shard : Shards]]
    /\ faults \in 0..MaxFaults

Init ==
    /\ lease = [s \in Shards |-> NoLease]
    /\ \E n \in Counts : worker = [w \in Workers |-> Started(n)]
    /\ faults = 0

-----------------------------------------------------------------------------
(* claim.  The transaction deletes the leases that are over, reads the     *)
(* rest, and inserts its own row; it is read committed, so others commit   *)
(* between its reads and its insert.  A row it has deleted is locked, and  *)
(* still there for the others, until it commits.                           *)

Leased == {s \in Shards : lease[s] # NoLease}
Owner(s) == lease[s].owner
\* Mutants: a lease counts as over an instant early; or it never does.
Over_OneEarly(lag) == {s \in Leased : lease[s].left <= 1 - lag}
Over_Never(lag) == {s \in Leased : lease[s].left < -lag - LeaseDuration}

Over(lag) == {s \in Leased : lease[s].left <= -lag}

Locked(s) == \E w \in Workers : worker[w].pc = "claiming"
                                  /\ s \in worker[w].doomed

Without(shards) == [s \in Shards |-> IF s \in shards THEN NoLease ELSE lease[s]]

Compatible(w, rest) == \A s \in rest : lease[s].count = worker[w].count

Free(w, rest) == {s \in 0..(worker[w].count - 1) : s \notin rest}

ClaimRead(w) ==
    /\ worker[w].pc = "idle"
    /\ \E lag \in 0..Lag :
         LET rest == Leased \ Over(lag)
             free == Free(w, rest)
         IN /\ \A s \in Over(lag) : ~Locked(s)
            /\ Compatible(w, rest)
            /\ IF free = {} \/ \E s \in rest : Owner(s) = w
               THEN lease' = Without(Over(lag)) /\ UNCHANGED worker
               ELSE /\ worker' = [worker EXCEPT ![w] =
                         [pc |-> "claiming", count |-> worker[w].count,
                          shard |-> CHOOSE s \in free :
                                      \A t \in free : s <= t,
                          doomed |-> Over(lag),
                          left |-> LeaseDuration - lag]]
                    /\ UNCHANGED lease
    /\ UNCHANGED faults

\* One row per shard and one per owner, or the transaction is rolled back
\* and the claim has found nothing.
Insertable(w) ==
    \A s \in Leased \ worker[w].doomed :
      s # worker[w].shard /\ Owner(s) # w

ClaimCreate(w) ==
    /\ worker[w].pc = "claiming"
    /\ IF Insertable(w)
       THEN /\ lease' = [Without(worker[w].doomed) EXCEPT ![worker[w].shard] =
                 [owner |-> w, count |-> worker[w].count,
                  left |-> worker[w].left]]
            /\ worker' = [worker EXCEPT ![w] =
                 [pc |-> "serving", count |-> worker[w].count,
                  shard |-> worker[w].shard]]
       ELSE /\ worker' = [worker EXCEPT ![w] = Started(worker[w].count)]
            /\ UNCHANGED lease
    /\ UNCHANGED faults

-----------------------------------------------------------------------------
(* A run of a shard.  A process claims again only when its last run is     *)
(* over, so the id and the random token of its row are those of the one    *)
(* row it owns.                                                            *)

Mine(w) ==
    /\ lease[worker[w].shard] # NoLease
    /\ Owner(worker[w].shard) = w
    /\ lease[worker[w].shard].count = worker[w].count

Renewable(w, lag) == Mine(w) /\ lease[worker[w].shard].left > -lag

Stopping(w) == worker' = [worker EXCEPT ![w].pc = "releasing"]

\* A heartbeat that is refused, or fails, aborts the run.
Beat(w) ==
    /\ worker[w].pc = "serving"
    /\ \E lag \in 0..Lag :
         /\ Renewable(w, lag)
         /\ ~Locked(worker[w].shard)
         /\ lease' = [lease EXCEPT ![worker[w].shard].left =
                        LeaseDuration - lag]
    /\ UNCHANGED <<worker, faults>>

\* Mutant: a refused heartbeat is not acted on.
BeatRefused_Ignored(w) ==
    /\ worker[w].pc = "serving"
    /\ \E lag \in 0..Lag : ~Renewable(w, lag)
    /\ UNCHANGED <<lease, worker, faults>>

BeatRefused(w) ==
    /\ worker[w].pc = "serving"
    /\ \E lag \in 0..Lag : ~Renewable(w, lag)
    /\ Stopping(w)
    /\ UNCHANGED <<lease, faults>>

Fault == faults < MaxFaults /\ faults' = faults + 1

\* The heartbeat throws, the run of the shard ends or throws, or the process
\* is told to stop.
RunEnds(w) ==
    /\ Fault
    /\ worker[w].pc = "serving"
    /\ Stopping(w)
    /\ UNCHANGED lease

\* release: its own row if it is still there, over or not.
Release(w) ==
    /\ worker[w].pc = "releasing"
    /\ IF Mine(w)
       THEN /\ ~Locked(worker[w].shard)
            /\ lease' = Without({worker[w].shard})
       ELSE UNCHANGED lease
    /\ worker' = [worker EXCEPT ![w] = Started(worker[w].count)]
    /\ UNCHANGED faults

\* The process dies, or the release fails; a new deployment may give the
\* process that takes its place another count.  What it had not committed
\* is rolled back.
Crash(w) ==
    /\ Fault
    /\ \E n \in Counts : worker' = [worker EXCEPT ![w] = Started(n)]
    /\ UNCHANGED lease

\* Who must act before any more time passes: a server renews its lease
\* before it is over (heartbeats come three to a lease), and a claim takes
\* far less than the lease it asks for.  To be late all the same is a fault.
Pressed ==
    {w \in Workers :
       \/ worker[w].pc = "serving" /\ Mine(w) /\ lease[worker[w].shard].left = 1
       \/ worker[w].pc = "claiming" /\ worker[w].left <= 2}

Older(row) == [row EXCEPT !.left = IF @ > Past THEN @ - 1 ELSE Past]

Tick ==
    /\ IF Pressed = {} THEN UNCHANGED faults ELSE Fault
    /\ lease' = [s \in Shards |->
         IF s \in Leased THEN Older(lease[s]) ELSE NoLease]
    /\ worker' = [w \in Workers |->
         IF worker[w].pc = "claiming" THEN Older(worker[w]) ELSE worker[w]]

Next ==
    \/ \E w \in Workers :
         \/ ClaimRead(w) \/ ClaimCreate(w)
         \/ Beat(w) \/ BeatRefused(w)
         \/ RunEnds(w) \/ Release(w) \/ Crash(w)
    \/ Tick

\* The loop claims again after every run and every wait, a commit or a
\* rollback ends every transaction, heartbeats are repeated for as long as
\* the shard is served, and time passes.
Fairness ==
    /\ WF_vars(Tick)
    /\ \A w \in Workers :
         /\ WF_vars(ClaimRead(w))
         /\ WF_vars(ClaimCreate(w))
         /\ WF_vars(Beat(w))
         /\ WF_vars(BeatRefused(w))
         /\ WF_vars(Release(w))

Spec == Init /\ [][Next]_vars
LiveSpec == Spec /\ Fairness

-----------------------------------------------------------------------------
(* A lease that is not over goes only to its own renewal, or by the hand   *)
(* of its owner: no claim of others, and no late release of an old run,    *)
(* takes a shard from the process that serves it.                          *)
LeaseHonoured ==
    [][\A s \in Leased :
         lease[s].left > 0 /\ lease'[s] # lease[s]
           => \/ /\ lease'[s] # NoLease
                 /\ lease'[s] = [lease[s] EXCEPT !.left = lease'[s].left]
              \/ /\ lease'[s] = NoLease
                 /\ worker[Owner(s)].pc = "releasing"
                 /\ worker[Owner(s)].shard = s]_vars

(* A process that lost the row of the shard it serves, because its lease   *)
(* ran out under it, learns of it and stops: two processes serve the same  *)
(* shard only for a while.                                                 *)
LoserStops ==
    \A w \in Workers :
      (worker[w].pc = "serving" /\ ~Mine(w)) ~> worker[w].pc # "serving"

(* With a process for every shard, none stays unserved for good: what a    *)
(* dead process held is over in time, and one that waits gets it.          *)
EveryShardServed ==
    \A s \in Shards :
      []<>(\E w \in Workers : worker[w].pc = "serving" /\ worker[w].shard = s)
=============================================================================
