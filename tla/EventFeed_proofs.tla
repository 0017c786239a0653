---------------------------- MODULE EventFeed_proofs ----------------------------
(***************************************************************************)
(* What holds of EventFeed for all writers, ids, page limits, delays and   *)
(* margins, and for clocks without a bound.                                *)
(*                                                                         *)
(* The heart of it is Safe: a position the reader may be at lies behind    *)
(* the start of every transaction that is open, by the margin less the     *)
(* delay within which such a transaction is seen.  So nothing is committed *)
(* behind a cursor, and no cursor is further ahead of a later watermark    *)
(* than the slack.                                                         *)
(***************************************************************************)
EXTENDS EventFeed, FiniteSetTheorems, TLAPS

Transactions ==
    \A w \in Open :
      /\ tx[w].start <= now /\ tx[w].start <= tx[w].at
      /\ tx[w].seen \/ now <= tx[w].start + Delay

Distinct ==
    /\ \A p, q \in outbox : p.id = q.id => p = q
    /\ \A w \in Open, p \in outbox : p.id # tx[w].id
    /\ \A v, w \in Open : tx[v].id = tx[w].id => v = w

\* Not past the bound, and not at the bound itself unless it comes before
\* every event there.
Within(c, bound) == c.at < bound \/ (c.at = bound /\ c.id = Floor)

Safe(c) ==
    /\ Within(c, now - Margin)
    /\ \A w \in Open : Within(c, tx[w].start + Delay - Margin)

ReaderSafe ==
    /\ Joined => Safe(reader.cursor)
    /\ reader.pc = "listing" => Safe(Head(reader.watermark))

ServedBehind ==
    \A i \in Ids : served[i] > 0 =>
      /\ Joined
      /\ \E p \in outbox : p.id = i /\ ~Before(reader.cursor, p)

IInv ==
    /\ TypeOK /\ Transactions /\ Distinct /\ IsFiniteSet(outbox)
    /\ ReaderSafe /\ NothingBehindCursor /\ ServedBehind

-----------------------------------------------------------------------------
(* Positions are ordered by time and then by id.                           *)

LEMMA Order ==
    ASSUME NEW p \in Position, NEW q \in Position, NEW r \in Position
    PROVE  /\ ~Before(p, p)
           /\ Before(p, q) => ~Before(q, p)
           /\ Before(p, q) /\ Before(q, r) => Before(p, r)
           /\ ~Before(q, p) /\ Before(q, r) => Before(p, r)
           /\ Before(p, q) /\ ~Before(r, q) => Before(p, r)
           /\ ~Before(q, p) /\ ~Before(r, q) => ~Before(r, p)
           /\ Before(p, q) \/ Before(q, p) \/ (p.at = q.at /\ p.id = q.id)
BY DEF Before, Position

\* A set of numbers that is not empty has a least one.
LEMMA LeastNat ==
    ASSUME NEW S \in SUBSET Nat, S # {}
    PROVE  \E n \in S : \A m \in S : n <= m
<1> PICK T : T = {0..n : n \in S}
  OBVIOUS
<1>1. T \subseteq FiniteSubsetsOf(Nat) /\ T # {}
  <2>1. ASSUME NEW n \in S PROVE 0..n \in SUBSET Nat /\ IsFiniteSet(0..n)
    BY FS_Interval
  <2> QED
    BY <2>1 DEF FiniteSubsetsOf
<1>2. PICK t \in T : \A u \in T : ~(<<u, t>> \in StrictSubsetOrdering(Nat))
  BY <1>1, WFMin, FS_StrictSubsetOrderingWellFounded
<1>3. PICK n \in S : t = 0..n
  OBVIOUS
<1>4. ASSUME NEW m \in S, m < n PROVE FALSE
  <2>1. 0..m \in T /\ 0..m \subseteq 0..n /\ 0..m # 0..n
    <3>1. n \in 0..n /\ n \notin 0..m
      BY <1>4
    <3> QED
      BY <1>4, <3>1
  <2>2. <<0..m, t>> \in StrictSubsetOrdering(Nat)
    BY <1>3, <2>1 DEF StrictSubsetOrdering
  <2> QED
    BY <1>2, <2>1, <2>2
<1> QED
  BY <1>4

\* A finite set of positions has a first one and a last one.
LEMMA First ==
    ASSUME NEW S \in SUBSET Position, IsFiniteSet(S), S # {}
    PROVE  \E p \in S : \A q \in S : ~Before(q, p)
<1> PICK T : T = {{q \in S : Before(q, p)} : p \in S}
  OBVIOUS
<1>1. T \subseteq FiniteSubsetsOf(S) /\ T # {}
  <2>1. ASSUME NEW p \in S
        PROVE  {q \in S : Before(q, p)} \in SUBSET S /\ IsFiniteSet({q \in S : Before(q, p)})
    BY FS_Subset
  <2> QED
    BY <2>1 DEF FiniteSubsetsOf
<1>2. PICK t \in T : \A u \in T : ~(<<u, t>> \in StrictSubsetOrdering(S))
  BY <1>1, WFMin, FS_StrictSubsetOrderingWellFounded
<1>3. PICK p \in S : t = {q \in S : Before(q, p)}
  OBVIOUS
<1>4. ASSUME NEW q \in S, Before(q, p) PROVE FALSE
  <2> PICK u : u = {r \in S : Before(r, q)}
    OBVIOUS
  <2>1. u \in T /\ u \subseteq t /\ q \in t /\ q \notin u
    BY <1>3, <1>4, Order
  <2>2. <<u, t>> \in StrictSubsetOrdering(S)
    BY <1>3, <2>1 DEF StrictSubsetOrdering
  <2> QED
    BY <1>2, <2>1, <2>2
<1> QED
  BY <1>4

LEMMA Latest ==
    ASSUME NEW S \in SUBSET Position, IsFiniteSet(S), S # {}
    PROVE  \E p \in S : \A q \in S : ~Before(p, q)
<1> PICK T : T = {{q \in S : Before(p, q)} : p \in S}
  OBVIOUS
<1>1. T \subseteq FiniteSubsetsOf(S) /\ T # {}
  <2>1. ASSUME NEW p \in S
        PROVE  {q \in S : Before(p, q)} \in SUBSET S /\ IsFiniteSet({q \in S : Before(p, q)})
    BY FS_Subset
  <2> QED
    BY <2>1 DEF FiniteSubsetsOf
<1>2. PICK t \in T : \A u \in T : ~(<<u, t>> \in StrictSubsetOrdering(S))
  BY <1>1, WFMin, FS_StrictSubsetOrderingWellFounded
<1>3. PICK p \in S : t = {q \in S : Before(p, q)}
  OBVIOUS
<1>4. ASSUME NEW q \in S, Before(p, q) PROVE FALSE
  <2> PICK u : u = {r \in S : Before(q, r)}
    OBVIOUS
  <2>1. u \in T /\ u \subseteq t /\ q \in t /\ q \notin u
    BY <1>3, <1>4, Order
  <2>2. <<u, t>> \in StrictSubsetOrdering(S)
    BY <1>3, <2>1 DEF StrictSubsetOrdering
  <2> QED
    BY <1>2, <2>1, <2>2
<1> QED
  BY <1>4

-----------------------------------------------------------------------------
(* What the parts of the invariant say of single values.                   *)

LEMMA ReaderTyped ==
    ASSUME TypeOK
    PROVE  /\ Joined => reader.cursor \in Position /\ reader.from \in Position
           /\ reader.pc = "listing" => Joined /\ reader.watermark \in Int
           /\ reader.pc = "idle" => Joined
BY DEF TypeOK, Joined

LEMMA IdsTyped == Ids \subseteq Nat /\ \A i \in Ids : i > Floor
BY FeedAssumptions DEF Floor

LEMMA RowsTyped ==
    ASSUME TypeOK
    PROVE  /\ \A p \in outbox : p \in Position /\ p.id \in Ids /\ p.id > Floor /\ p.at \in Nat
           /\ \A w \in Open : tx[w] \in Tx
<1>1. ASSUME NEW p \in outbox
      PROVE  p \in Position /\ p.id \in Ids /\ p.id > Floor /\ p.at \in Nat
  <2>1. p \in [at : Nat, id : Ids]
    BY DEF TypeOK
  <2>2. p.id \in Ids /\ p.at \in Nat
    BY <2>1
  <2>3. p.id \in Nat /\ p.id > 0
    BY <2>2, IdsTyped DEF Floor
  <2>4. p \in Position
    <3> PICK a \in Nat, i \in Nat : p = [at |-> a, id |-> i]
      BY <2>1, IdsTyped
    <3> QED
      BY DEF Position
  <2> QED
    BY <2>2, <2>3, <2>4 DEF Floor
<1>2. ASSUME NEW w \in Open PROVE tx[w] \in Tx
  BY DEF TypeOK, Open
<1> QED
  BY <1>1, <1>2

\* The watermark is the time, or the start of a transaction seen open, less
\* the margin, and no transaction seen open starts before that.
LEMMA WatermarkIs ==
    ASSUME TypeOK
    PROVE  \E m \in Nat :
             /\ Watermark = m - Margin /\ m <= now
             /\ \A w \in Open : tx[w].seen => m <= tx[w].start
             /\ m = now \/ \E w \in Open : tx[w].seen /\ m = tx[w].start
<1> PICK starts : starts = {now} \cup {tx[w].start : w \in {v \in Open : tx[v].seen}}
  OBVIOUS
<1>1. starts \in SUBSET Nat /\ starts # {}
  <2>1. \A w \in Open : tx[w].start \in Nat
    BY RowsTyped DEF Tx
  <2> QED
    BY <2>1 DEF TypeOK
<1> PICK m : m = CHOOSE s \in starts : \A t \in starts : s <= t
  OBVIOUS
<1>2. m \in starts /\ \A t \in starts : m <= t
  BY <1>1, LeastNat
<1>3. Watermark = m - Margin
  BY DEF Watermark
<1>4. m \in Nat /\ m <= now /\ \A w \in Open : tx[w].seen => m <= tx[w].start
  BY <1>1, <1>2
<1>5. m = now \/ \E w \in Open : tx[w].seen /\ m = tx[w].start
  BY <1>2
<1> QED
  BY <1>3, <1>4, <1>5

\* Whatever is open, the watermark is a safe place to be.
LEMMA WatermarkSafe ==
    ASSUME TypeOK, Transactions
    PROVE  Watermark \in Int /\ Safe(Head(Watermark))
<1> PICK m \in Nat :
      /\ Watermark = m - Margin /\ m <= now
      /\ \A w \in Open : tx[w].seen => m <= tx[w].start
  BY WatermarkIs
<1> PICK c : c = Head(Watermark)
  OBVIOUS
<1>1. c.at = m - Margin /\ c.id = Floor
  BY DEF Head
<1>2. now \in Nat /\ Within(c, now - Margin)
  BY <1>1, FeedAssumptions DEF Within, TypeOK
<1>3. ASSUME NEW w \in Open PROVE Within(c, tx[w].start + Delay - Margin)
  <2> PICK start : start = tx[w].start
    OBVIOUS
  <2>1. start \in Nat
    BY RowsTyped DEF Tx
  <2>2. m <= start + Delay
    BY <1>2, <2>1, FeedAssumptions DEF Transactions
  <2>3. m - Margin <= start + Delay - Margin
    BY <2>1, <2>2, FeedAssumptions
  <2> QED
    BY <1>1, <2>1, <2>3, FeedAssumptions DEF Within
<1> QED
  BY <1>2, <1>3, FeedAssumptions DEF Safe

\* A safe place is not ahead of the watermark by more than the slack.
LEMMA SafeAccepted ==
    ASSUME TypeOK, NEW c \in Position, Safe(c)
    PROVE  Accepted(c, Watermark)
<1> PICK m \in Nat :
      /\ Watermark = m - Margin
      /\ m = now \/ \E w \in Open : tx[w].seen /\ m = tx[w].start
  BY WatermarkIs
<1>1. c.at \in Int /\ now \in Nat
  BY DEF Position, TypeOK
<1> PICK at \in Int : at = c.at
  BY <1>1
<1> SUFFICES at <= (m - Margin) + Slack
  BY DEF Accepted
<1>2. CASE m = now
  <2>1. c.at <= now - Margin
    BY <1>1, FeedAssumptions DEF Safe, Within
  <2> QED
    BY <1>2, <2>1, FeedAssumptions
<1>3. CASE \E w \in Open : m = tx[w].start
  <2>1. m \in Nat /\ Within(c, m + Delay - Margin)
    BY <1>3 DEF Safe
  <2>2. at <= m + Delay - Margin
    BY <2>1, FeedAssumptions DEF Within
  <2> QED
    BY <2>1, <2>2, FeedAssumptions
<1> QED
  BY <1>2, <1>3

\* A safe place comes before whatever a transaction may still commit.
LEMMA SafeBefore ==
    ASSUME TypeOK, Transactions, NEW c \in Position, Safe(c), NEW w \in Open
    PROVE  Before(c, [at |-> tx[w].at, id |-> tx[w].id])
<1> PICK start, at, id : start = tx[w].start /\ at = tx[w].at /\ id = tx[w].id
  OBVIOUS
<1>1. start \in Nat /\ at \in Nat /\ id \in Nat /\ id > Floor /\ start <= at
  <2>1. tx[w] \in Tx
    BY RowsTyped
  <2>2. id \in Ids /\ start \in Nat /\ at \in Nat
    BY <2>1 DEF Tx
  <2> QED
    BY <2>2, IdsTyped DEF Transactions
<1>2. Within(c, start + Delay - Margin)
  BY DEF Safe
<1>3. c.at < start \/ (c.at = start /\ c.id = Floor) \/ c.at < at
  BY <1>1, <1>2, FeedAssumptions DEF Within, Position
<1> QED
  BY <1>1, <1>3 DEF Before, Position

-----------------------------------------------------------------------------
(* The writers and the clock, with a reader that waits.                    *)

\* What is safe stays so: transactions that begin do so at the time, and
\* time does not go back.
LEMMA SafeKept ==
    ASSUME TypeOK, NEW c \in Position, Safe(c), now' \in Nat, now' >= now,
           \A w \in Open' : \/ w \in Open /\ tx'[w].start = tx[w].start
                            \/ tx'[w].start = now
    PROVE  Safe(c)'
<1>1. now \in Nat /\ c.at \in Int /\ Within(c, now - Margin)
  BY DEF TypeOK, Position, Safe
<1>2. Within(c, now' - Margin)
  BY <1>1, FeedAssumptions DEF Within
<1>3. ASSUME NEW w \in Open' PROVE Within(c, tx'[w].start + Delay - Margin)
  <2>1. CASE w \in Open /\ tx'[w].start = tx[w].start
    BY <2>1 DEF Safe
  <2>2. CASE tx'[w].start = now
    <3>1. Within(c, now + Delay - Margin)
      BY <1>1, FeedAssumptions DEF Within
    <3> QED
      BY <2>2, <3>1
  <2> QED
    BY <2>1, <2>2
<1>4. Within(c, now - Margin)'
  BY <1>2 DEF Within
<1> QED
  BY <1>3, <1>4 DEF Safe, Within

LEMMA ReaderWaits ==
    ASSUME IInv, UNCHANGED <<reader, served>>, TypeOK', Transactions', Distinct',
           IsFiniteSet(outbox'), now' >= now, outbox \subseteq outbox',
           \A p \in outbox' : p \in outbox \/ (Joined => Before(reader.cursor, p)),
           \A w \in Open' : \/ w \in Open /\ tx'[w].start = tx[w].start
                            \/ tx'[w].start = now
    PROVE  IInv'
<1>1. now' \in Nat
  BY DEF TypeOK
<1>2. ReaderSafe'
  <2>1. ASSUME Joined PROVE Safe(reader.cursor)'
    <3> PICK c \in Position : c = reader.cursor
      BY <2>1, ReaderTyped DEF IInv
    <3>1. Safe(c)
      BY <2>1 DEF IInv, ReaderSafe
    <3>2. Safe(c)'
      BY <1>1, <3>1, SafeKept DEF IInv
    <3> QED
      BY <3>2
  <2>2. ASSUME reader.pc = "listing" PROVE Safe(Head(reader.watermark))'
    <3> PICK c : c = Head(reader.watermark)
      OBVIOUS
    <3>1. c \in Position /\ Safe(c)
      BY <2>2, ReaderTyped DEF IInv, ReaderSafe, Head, Position, Floor
    <3>2. Safe(c)'
      BY <1>1, <3>1, SafeKept DEF IInv
    <3>3. c = Head(reader.watermark)'
      BY DEF Head
    <3> QED
      BY <3>2, <3>3
  <2> QED
    BY <2>1, <2>2 DEF ReaderSafe, Joined
<1>3. NothingBehindCursor'
  BY DEF IInv, NothingBehindCursor, Joined, Due
<1>4. ServedBehind'
  BY DEF IInv, ServedBehind, Joined
<1> QED
  BY <1>2, <1>3, <1>4 DEF IInv

LEMMA BeginKeeps == ASSUME IInv, NEW w \in Writers, Begin(w) PROVE IInv'
<1> PICK id \in Ids \ Used, at \in {now, now + 1} :
      tx' = [tx EXCEPT ![w] = [start |-> now, at |-> at, id |-> id, seen |-> FALSE]]
  BY DEF Begin
<1> PICK new : new = [start |-> now, at |-> at, id |-> id, seen |-> FALSE]
  OBVIOUS
<1>1. /\ TypeOK /\ now \in Nat /\ tx \in [Writers -> {NoTx} \cup Tx] /\ tx[w] = NoTx
      /\ UNCHANGED <<now, outbox, reader, served>> /\ tx' = [tx EXCEPT ![w] = new]
  BY DEF IInv, TypeOK, Begin
<1>2. new \in Tx /\ new.start = now /\ new.at = at /\ new.id = id /\ now <= at
  BY <1>1 DEF Tx
<1>3. \A v \in Open' : \/ v \in Open /\ v # w /\ tx'[v] = tx[v]
                       \/ v = w /\ tx'[v] = new
  BY <1>1 DEF Open
<1>4. TypeOK'
  BY <1>1, <1>2 DEF TypeOK
<1>5. Transactions'
  BY <1>1, <1>2, <1>3, FeedAssumptions DEF IInv, Transactions
<1>6. Distinct'
  <2>1. (\A p \in outbox : p.id # id) /\ \A v \in Open : tx[v].id # id
    BY DEF Used
  <2> QED
    BY <1>1, <1>2, <1>3, <2>1 DEF IInv, Distinct
<1>7. /\ now' >= now /\ outbox' = outbox /\ IsFiniteSet(outbox')
      /\ \A v \in Open' : \/ v \in Open /\ tx'[v].start = tx[v].start
                          \/ tx'[v].start = now
  BY <1>1, <1>2, <1>3 DEF IInv
<1> QED
  BY <1>1, <1>4, <1>5, <1>6, <1>7, ReaderWaits

LEMMA SeenKeeps == ASSUME IInv, NEW w \in Writers, Seen(w) PROVE IInv'
<1> PICK new : new = [tx[w] EXCEPT !.seen = TRUE]
  OBVIOUS
<1>1. /\ TypeOK /\ now \in Nat /\ tx \in [Writers -> {NoTx} \cup Tx] /\ w \in Open
      /\ UNCHANGED <<now, outbox, reader, served>> /\ tx' = [tx EXCEPT ![w] = new]
  BY DEF IInv, TypeOK, Seen
<1>2. /\ new \in Tx /\ new.start = tx[w].start /\ new.at = tx[w].at /\ new.id = tx[w].id
      /\ new.seen = TRUE
  BY <1>1, RowsTyped DEF Tx
<1>3. \A v \in Open' : v \in Open /\ tx'[v] = IF v = w THEN new ELSE tx[v]
  BY <1>1 DEF Open
<1>4. TypeOK'
  BY <1>1, <1>2 DEF TypeOK
<1>5. Transactions' /\ Distinct'
  BY <1>1, <1>2, <1>3 DEF IInv, Transactions, Distinct
<1>6. /\ now' >= now /\ outbox' = outbox /\ IsFiniteSet(outbox')
      /\ \A v \in Open' : v \in Open /\ tx'[v].start = tx[v].start
  BY <1>1, <1>2, <1>3 DEF IInv
<1> QED
  BY <1>1, <1>4, <1>5, <1>6, ReaderWaits

\* What is committed lies before the cursor, being of an open transaction.
LEMMA EndKeeps ==
    ASSUME IInv, NEW w \in Writers, Commit(w) \/ Rollback(w) PROVE IInv'
<1> PICK row : row = [at |-> tx[w].at, id |-> tx[w].id]
  OBVIOUS
<1>1. /\ TypeOK /\ now \in Nat /\ tx \in [Writers -> {NoTx} \cup Tx] /\ w \in Open
      /\ UNCHANGED <<now, reader, served>> /\ tx' = [tx EXCEPT ![w] = NoTx]
      /\ outbox' = outbox \cup {row} \/ outbox' = outbox
  BY DEF IInv, TypeOK, Commit, Rollback
<1>2. tx[w] \in Tx /\ row \in [at : Nat, id : Ids] /\ row.id = tx[w].id
  BY <1>1, RowsTyped DEF Tx
<1>3. \A v \in Open' : v \in Open /\ v # w /\ tx'[v] = tx[v]
  BY <1>1 DEF Open
<1>4. TypeOK'
  BY <1>1, <1>2 DEF TypeOK
<1>5. Transactions'
  BY <1>1, <1>3 DEF IInv, Transactions
<1>6. Distinct'
  <2>1. /\ \A p, q \in outbox : p.id = q.id => p = q
        /\ \A p \in outbox : p.id # row.id
        /\ \A v \in Open, p \in outbox : p.id # tx[v].id
        /\ \A v \in Open : v # w => tx[v].id # row.id
        /\ \A u, v \in Open : tx[u].id = tx[v].id => u = v
    BY <1>1, <1>2 DEF IInv, Distinct
  <2> QED
    BY <1>1, <1>3, <2>1 DEF Distinct
<1>7. Joined => Before(reader.cursor, row)
  BY <1>1, ReaderTyped, SafeBefore DEF IInv, ReaderSafe
<1>8. IsFiniteSet(outbox')
  BY <1>1, FS_AddElement DEF IInv
<1>9. /\ now' >= now /\ outbox \subseteq outbox'
      /\ \A p \in outbox' : p \in outbox \/ p = row
      /\ \A v \in Open' : v \in Open /\ tx'[v].start = tx[v].start
  BY <1>1, <1>3
<1> QED
  BY <1>1, <1>4, <1>5, <1>6, <1>7, <1>8, <1>9, ReaderWaits

LEMMA TickKeeps == ASSUME IInv, Tick PROVE IInv'
<1>1. /\ TypeOK /\ now \in Nat /\ now' = now + 1
      /\ UNCHANGED <<tx, outbox, reader, served>> /\ Open' = Open
  BY DEF IInv, TypeOK, Tick, Open
<1>2. TypeOK'
  BY <1>1 DEF TypeOK
<1>3. Transactions'
  <2>1. ASSUME NEW w \in Open
        PROVE  /\ tx[w].start <= now + 1 /\ tx[w].start <= tx[w].at
               /\ tx[w].seen \/ now + 1 <= tx[w].start + Delay
    <3>1. tx[w].start \in Nat
      BY <1>1, RowsTyped DEF Tx
    <3>2. tx[w].seen \/ now < tx[w].start + Delay
      BY DEF Tick
    <3> QED
      BY <1>1, <3>1, <3>2, FeedAssumptions DEF IInv, Transactions
  <2> QED
    BY <1>1, <2>1 DEF Transactions
<1>4. Distinct' /\ IsFiniteSet(outbox') /\ now' >= now
  BY <1>1 DEF IInv, Distinct
<1> QED
  BY <1>1, <1>2, <1>3, <1>4, ReaderWaits

-----------------------------------------------------------------------------
(* The reader.                                                             *)

\* What the reader does leaves the writers' part of the invariant.
LEMMA WritersWait ==
    ASSUME IInv, UNCHANGED <<now, tx, outbox>>
    PROVE  /\ Transactions' /\ Distinct' /\ IsFiniteSet(outbox')
           /\ \A c \in Position : Safe(c) => Safe(c)'
<1>1. Open' = Open
  BY DEF Open
<1>2. Transactions' /\ Distinct' /\ IsFiniteSet(outbox')
  BY <1>1 DEF IInv, Transactions, Distinct
<1>3. ASSUME NEW c \in Position, Safe(c) PROVE Safe(c)'
  BY <1>1, <1>3 DEF Safe, Within
<1> QED
  BY <1>2, <1>3

LEMMA JoinKeeps == ASSUME IInv, Join PROVE IInv'
<1> PICK from \in {Head(-Margin), Head(Watermark)} :
      reader' = [pc |-> "idle", cursor |-> from, from |-> from]
  BY DEF Join
<1>1. UNCHANGED <<now, tx, outbox, served>> /\ TypeOK /\ Transactions /\ ~Joined
  BY DEF IInv, Join, Joined
<1>2. Head(-Margin) \in Position /\ Safe(Head(-Margin))
  <2> PICK c : c = Head(-Margin)
    OBVIOUS
  <2>1. c.at = -Margin /\ c.id = Floor /\ c \in Position
    BY FeedAssumptions DEF Head, Position, Floor
  <2>2. ASSUME NEW t \in Nat PROVE Within(c, t - Margin)
    BY <2>1, FeedAssumptions DEF Within
  <2>3. ASSUME NEW w \in Open PROVE Within(c, tx[w].start + Delay - Margin)
    <3> PICK start \in Nat : start = tx[w].start
      BY <1>1, RowsTyped DEF Tx
    <3>1. Within(c, start + Delay - Margin)
      BY <2>1, FeedAssumptions DEF Within
    <3> QED
      BY <3>1
  <2>4. Within(c, now - Margin)
    BY <1>1, <2>2 DEF TypeOK
  <2> QED
    BY <2>1, <2>3, <2>4 DEF Safe
<1>3. Head(Watermark) \in Position /\ Safe(Head(Watermark))
  BY <1>1, WatermarkSafe DEF Head, Position, Floor
<1>4. from \in Position /\ Safe(from) /\ reader'.pc = "idle" /\ reader'.cursor = from
      /\ reader'.from = from
  BY <1>2, <1>3
<1>5. TypeOK'
  BY <1>1, <1>4 DEF TypeOK
<1>6. ReaderSafe'
  BY <1>1, <1>4, WritersWait DEF ReaderSafe
<1>7. NothingBehindCursor'
  BY <1>4 DEF NothingBehindCursor, Due
<1>8. ServedBehind'
  BY <1>1 DEF IInv, ServedBehind
<1> QED
  BY <1>1, <1>5, <1>6, <1>7, <1>8, WritersWait DEF IInv

LEMMA ReadWatermarkKeeps == ASSUME IInv, ReadWatermark PROVE IInv'
<1> PICK watermark \in Int : watermark = Watermark
  BY WatermarkSafe DEF IInv
<1> PICK c \in Position, from \in Position : c = reader.cursor /\ from = reader.from
  BY ReaderTyped DEF IInv, ReadWatermark
<1>1. /\ UNCHANGED <<now, tx, outbox, served>> /\ TypeOK /\ Joined
      /\ reader' = [pc |-> "listing", cursor |-> c, from |-> from, watermark |-> watermark]
  BY ReaderTyped DEF IInv, ReadWatermark
<1>2. /\ reader'.pc = "listing" /\ reader'.cursor = c /\ reader'.from = from
      /\ reader'.watermark = watermark /\ Joined'
  BY <1>1 DEF Joined
<1>3. TypeOK'
  BY <1>1 DEF TypeOK
<1>4. Safe(c) /\ Safe(Head(watermark)) /\ Head(watermark) \in Position
  BY <1>1, WatermarkSafe DEF IInv, ReaderSafe, Head, Position, Floor
<1>5. ReaderSafe'
  <2>1. Safe(c)' /\ Safe(Head(watermark))'
    BY <1>1, <1>4, WritersWait
  <2> PICK h : h = Head(watermark)
    OBVIOUS
  <2>2. Safe(h)' /\ h = Head(reader.watermark)'
    BY <1>2, <2>1 DEF Head
  <2> QED
    BY <1>2, <2>1, <2>2 DEF ReaderSafe
<1>6. NothingBehindCursor'
  BY <1>1, <1>2 DEF IInv, NothingBehindCursor, Due
<1>7. ServedBehind'
  BY <1>1, <1>2 DEF IInv, ServedBehind
<1> QED
  BY <1>1, <1>3, <1>5, <1>6, <1>7, WritersWait DEF IInv

\* The page is a beginning of the rows there are to serve.
LEMMA PageIs ==
    ASSUME IInv, reader.pc = "listing"
    PROVE  /\ Page \subseteq Rows /\ Rows \subseteq outbox /\ Rows \in SUBSET Position
           /\ IsFiniteSet(Rows)
           /\ \A p \in Page, q \in Rows : Before(q, p) => q \in Page
           /\ Page # Rows => Page # {}
<1>1. /\ Page \subseteq Rows /\ Rows \subseteq outbox /\ Rows \in SUBSET Position
      /\ IsFiniteSet(Rows)
  BY RowsTyped, FS_Subset DEF IInv, Page, Rows
<1>2. ASSUME NEW p \in Page, NEW q \in Rows, Before(q, p) PROVE q \in Page
  <2> PICK mine, his : /\ mine = {r \in Rows : Before(r, q)}
                       /\ his = {r \in Rows : Before(r, p)}
    OBVIOUS
  <2>1. mine \in SUBSET his /\ his \in SUBSET Rows
    BY <1>1, <1>2, Order
  <2>2. IsFiniteSet(his) /\ IsFiniteSet(mine) /\ Cardinality(mine) <= Cardinality(his)
    BY <1>1, <2>1, FS_Subset
  <2>3. Cardinality(his) < Limit
    BY DEF Page
  <2>4. Cardinality(mine) \in Nat /\ Cardinality(his) \in Nat
    BY <2>2, FS_CardinalityType
  <2>5. Cardinality(mine) < Limit
    BY <2>2, <2>3, <2>4, FeedAssumptions
  <2> QED
    BY <2>5 DEF Page
<1>3. ASSUME Page # Rows PROVE Page # {}
  <2>1. Rows # {}
    BY <1>1, <1>3
  <2> PICK p \in Rows : \A q \in Rows : ~Before(q, p)
    BY <1>1, <2>1, First
  <2>2. {q \in Rows : Before(q, p)} = {}
    OBVIOUS
  <2>3. Cardinality({q \in Rows : Before(q, p)}) = 0
    BY <2>2, FS_EmptySet
  <2>4. p \in Page
    BY <2>3, FeedAssumptions DEF Page
  <2> QED
    BY <2>4
<1> QED
  BY <1>1, <1>2, <1>3

LEMMA LastIs ==
    ASSUME IInv, reader.pc = "listing", Page # {}
    PROVE  Last(Page) \in Page /\ \A q \in Page : ~Before(Last(Page), q)
<1>1. Page \in SUBSET Position /\ IsFiniteSet(Page)
  BY PageIs, FS_Subset
<1>2. \E p \in Page : \A q \in Page : ~Before(p, q)
  BY <1>1, Latest
<1> QED
  BY <1>2 DEF Last

\* A page and the place reached by it: the page is what lies between the
\* cursor and that place.
LEMMA ReachedIs ==
    ASSUME IInv, reader.pc = "listing"
    PROVE  /\ Reached(Page) \in Position /\ Safe(Reached(Page))
           /\ \A p \in Page : ~Before(Reached(Page), p)
           /\ \A p \in outbox :
                Before(reader.cursor, p) /\ ~Before(Reached(Page), p) => p \in Page
<1> PICK c \in Position, w \in Int : c = reader.cursor /\ w = reader.watermark
  BY ReaderTyped DEF IInv
<1> PICK head, reached : head = Head(w) /\ reached = Reached(Page)
  OBVIOUS
<1>1. head \in Position /\ head.at = w /\ head.id = Floor /\ Safe(head) /\ Safe(c)
  BY ReaderTyped DEF IInv, ReaderSafe, Head, Position, Floor
<1>2. ASSUME NEW p \in Rows
      PROVE  p \in outbox /\ p \in Position /\ p.at < w /\ p.id > Floor /\ Before(c, p)
  BY RowsTyped DEF IInv, Rows
<1>3. ASSUME NEW p \in outbox, p.at < w, Before(c, p) PROVE p \in Rows
  BY <1>3 DEF Rows
<1>4. CASE Page = Rows
  <2>1. reached = head
    BY <1>4 DEF Reached
  <2>2. ASSUME NEW p \in Page PROVE ~Before(reached, p)
    <3>1. p \in Position /\ p.at < w
      BY <1>2, <1>4
    <3> QED
      BY <1>1, <2>1, <3>1 DEF Before, Position
  <2>3. ASSUME NEW p \in outbox, Before(c, p), ~Before(reached, p) PROVE p \in Page
    <3>1. p \in Position /\ p.id > Floor
      BY RowsTyped DEF IInv
    <3>2. p.at < w
      BY <1>1, <2>1, <2>3, <3>1 DEF Before, Position, Floor
    <3> QED
      BY <1>3, <1>4, <2>3, <3>2
  <2> QED
    BY <1>1, <2>1, <2>2, <2>3
<1>5. CASE Page # Rows
  <2>1. reached \in Page /\ \A p \in Page : ~Before(reached, p)
    BY <1>5, PageIs, LastIs DEF Reached
  <2>2. reached \in outbox /\ reached \in Position /\ reached.at < w
    BY <1>2, <2>1, PageIs
  <2>3. Safe(reached)
    <3>1. ASSUME NEW bound \in Int, Within(head, bound) PROVE Within(reached, bound)
      BY <1>1, <2>2, <3>1 DEF Within, Position
    <3>2. now - Margin \in Int
      BY FeedAssumptions DEF IInv, TypeOK
    <3>3. ASSUME NEW v \in Open PROVE tx[v].start + Delay - Margin \in Int
      <4>1. tx[v].start \in Nat
        BY RowsTyped DEF IInv, Tx
      <4> QED
        BY <4>1, FeedAssumptions
    <3> QED
      BY <1>1, <3>1, <3>2, <3>3 DEF Safe
  <2>4. ASSUME NEW p \in outbox, Before(c, p), ~Before(reached, p) PROVE p \in Page
    <3>1. p \in Position
      BY RowsTyped DEF IInv
    <3>2. p.at < w
      BY <2>2, <2>4, <3>1 DEF Before, Position
    <3>3. p \in Rows
      BY <1>3, <2>4, <3>2
    <3>4. CASE Before(p, reached)
      BY <2>1, <3>3, <3>4, PageIs
    <3>5. CASE p.id = reached.id
      BY <2>1, <2>2, <3>5 DEF IInv, Distinct
    <3> QED
      BY <2>2, <2>4, <3>1, <3>4, <3>5, Order
  <2> QED
    BY <2>1, <2>2, <2>3, <2>4
<1> QED
  BY <1>4, <1>5

\* The cursor is moved to the place reached, unless that would be back.
LEMMA ListIs ==
    ASSUME IInv, reader.pc = "listing"
    PROVE  /\ NextCursor(Page) \in Position /\ Safe(NextCursor(Page))
           /\ ~Before(NextCursor(Page), reader.cursor)
           /\ \A p \in Page :
                /\ p \in outbox /\ Before(reader.cursor, p) /\ ~Before(NextCursor(Page), p)
           /\ \A p \in outbox :
                Before(reader.cursor, p) /\ ~Before(NextCursor(Page), p) => p \in Page
<1> PICK c \in Position : c = reader.cursor
  BY ReaderTyped DEF IInv
<1> PICK reached, next : reached = Reached(Page) /\ next = NextCursor(Page)
  OBVIOUS
<1>1. /\ reached \in Position /\ Safe(reached)
      /\ \A p \in Page : ~Before(reached, p)
      /\ \A p \in outbox : Before(c, p) /\ ~Before(reached, p) => p \in Page
  BY ReachedIs
<1>2. Safe(c)
  BY ReaderTyped DEF IInv, ReaderSafe
<1>3. \A p \in Page : p \in outbox /\ Before(c, p) /\ p \in Position
  BY PageIs DEF Rows
<1>4. next = IF Before(reached, c) THEN c ELSE reached
  BY DEF NextCursor
<1>5. next \in Position /\ Safe(next)
  BY <1>1, <1>2, <1>4
<1>6. ~Before(next, c)
  BY <1>4, Order
<1>7. ASSUME NEW p \in Page PROVE ~Before(next, p)
  BY <1>1, <1>3, <1>4, Order
<1>8. ASSUME NEW p \in outbox, Before(c, p), ~Before(next, p) PROVE p \in Page
  BY <1>1, <1>4, <1>8
<1> QED
  BY <1>3, <1>5, <1>6, <1>7, <1>8

LEMMA ListKeeps == ASSUME IInv, List PROVE IInv'
<1> PICK c \in Position, from \in Position : c = reader.cursor /\ from = reader.from
  BY ReaderTyped DEF IInv, List
<1> PICK next, page : next = NextCursor(Page) /\ page = Page
  OBVIOUS
<1>1. /\ UNCHANGED <<now, tx, outbox>> /\ TypeOK /\ Joined /\ reader.pc = "listing"
      /\ reader' = [pc |-> "idle", cursor |-> next, from |-> from]
      /\ served' = [i \in Ids |->
           IF i \notin Hidden /\ \E p \in page : p.id = i THEN served[i] + 1 ELSE served[i]]
      /\ served \in [Ids -> Nat]
  BY ReaderTyped DEF IInv, List, TypeOK
<1>2. reader'.pc = "idle" /\ reader'.cursor = next /\ reader'.from = from /\ Joined'
  BY <1>1 DEF Joined
<1>3. /\ next \in Position /\ Safe(next) /\ ~Before(next, c)
      /\ \A p \in page : p \in outbox /\ Before(c, p) /\ ~Before(next, p)
      /\ \A p \in outbox : Before(c, p) /\ ~Before(next, p) => p \in page
  BY <1>1, ListIs
<1>4. TypeOK'
  BY <1>1, <1>3 DEF TypeOK
<1>5. ReaderSafe'
  BY <1>1, <1>2, <1>3, WritersWait DEF ReaderSafe
<1>6. NothingBehindCursor'
  <2> SUFFICES ASSUME NEW p \in outbox, Before(from, p), p.id \notin Hidden, ~Before(next, p)
               PROVE  served'[p.id] > 0
    BY <1>1, <1>2 DEF NothingBehindCursor, Due
  <2>1. p.id \in Ids
    BY <1>1, RowsTyped
  <2>2. CASE ~Before(c, p)
    <3>1. served[p.id] > 0
      BY <1>1, <2>2 DEF IInv, NothingBehindCursor, Due
    <3> QED
      BY <1>1, <2>1, <3>1
  <2>3. CASE Before(c, p)
    <3>1. p \in page
      BY <1>3, <2>3
    <3> QED
      BY <1>1, <2>1, <3>1
  <2> QED
    BY <2>2, <2>3
<1>7. ServedBehind'
  <2> SUFFICES ASSUME NEW i \in Ids, served'[i] > 0
               PROVE  \E p \in outbox : p.id = i /\ ~Before(next, p)
    BY <1>1, <1>2 DEF ServedBehind
  <2>1. CASE served[i] > 0
    <3> PICK p \in outbox : p.id = i /\ ~Before(c, p)
      BY <2>1 DEF IInv, ServedBehind
    <3>1. p \in Position
      BY <1>1, RowsTyped
    <3> QED
      BY <1>3, <3>1, Order
  <2>2. CASE ~(served[i] > 0)
    BY <1>1, <1>3, <2>2
  <2> QED
    BY <2>1, <2>2
<1> QED
  BY <1>1, <1>4, <1>5, <1>6, <1>7, WritersWait DEF IInv

-----------------------------------------------------------------------------
LEMMA Initially == Init => IInv
<1> SUFFICES ASSUME Init PROVE IInv
  OBVIOUS
<1>1. TypeOK
  BY DEF Init, TypeOK
<1>2. Open = {} /\ outbox = {} /\ ~Joined /\ \A i \in Ids : served[i] = 0
  BY DEF Init, Open, Joined
<1>3. Transactions /\ Distinct /\ IsFiniteSet(outbox)
  BY <1>2, FS_EmptySet DEF Transactions, Distinct
<1>4. ReaderSafe /\ NothingBehindCursor /\ ServedBehind
  BY <1>1, <1>2, ReaderTyped DEF ReaderSafe, NothingBehindCursor, ServedBehind
<1> QED
  BY <1>1, <1>3, <1>4 DEF IInv

LEMMA Invariance == Spec => []IInv
<1>1. ASSUME IInv, [Next]_vars PROVE IInv'
  <2>1. CASE \E w \in Writers : Begin(w) \/ Seen(w) \/ Commit(w) \/ Rollback(w)
    BY <1>1, <2>1, BeginKeeps, SeenKeeps, EndKeeps
  <2>2. CASE Join \/ ReadWatermark \/ List
    BY <1>1, <2>2, JoinKeeps, ReadWatermarkKeeps, ListKeeps
  <2>3. CASE Tick
    BY <1>1, <2>3, TickKeeps
  <2>4. CASE UNCHANGED vars
    <3>1. TypeOK' /\ Transactions' /\ Distinct' /\ IsFiniteSet(outbox')
      BY <1>1, <2>4, WritersWait DEF vars, IInv, TypeOK
    <3>2. now' >= now /\ Open' = Open
      BY <1>1, <2>4 DEF vars, IInv, TypeOK, Open
    <3> QED
      BY <1>1, <2>4, <3>1, <3>2, ReaderWaits DEF vars
  <2> QED
    BY <1>1, <2>1, <2>2, <2>3, <2>4 DEF Next
<1> QED
  BY <1>1, Initially, PTL DEF Spec

\* Whatever transactions are open, and for however long: nothing is left
\* behind the cursor, and the service never refuses a cursor it gave out.
THEOREM CursorIsSound == Spec => []CursorSound
<1>1. ASSUME IInv PROVE CursorSound
  <2>1. ASSUME Joined PROVE Accepted(reader.cursor, Watermark)
    BY <1>1, <2>1, ReaderTyped, SafeAccepted DEF IInv, ReaderSafe
  <2> QED
    BY <1>1, <2>1 DEF CursorSound, CursorAccepted, IInv
<1> QED
  BY <1>1, Invariance, PTL

OrderedStep ==
    \A p \in outbox :
      served'[p.id] # served[p.id]
        => /\ served'[p.id] = served[p.id] + 1
           /\ \A q \in outbox : served[q.id] > 0 => Before(q, p)

\* Over any number of pages, of any length, events are served in the order
\* of their positions and none of them twice.
THEOREM InOrder == Spec => ServedInOrder
<1>1. ASSUME IInv, [Next]_vars PROVE [OrderedStep]_vars
  <2>1. CASE List
    <3> PICK c \in Position : c = reader.cursor
      BY <1>1, <2>1, ReaderTyped DEF IInv, List
    <3> SUFFICES ASSUME NEW p \in outbox, served'[p.id] # served[p.id]
                 PROVE  /\ served'[p.id] = served[p.id] + 1
                        /\ \A q \in outbox : served[q.id] > 0 => Before(q, p)
      BY DEF OrderedStep
    <3>1. p.id \in Ids /\ p \in Position
      BY <1>1, RowsTyped DEF IInv
    <3>2. served'[p.id] = served[p.id] + 1 /\ \E r \in Page : r.id = p.id
      BY <2>1, <3>1 DEF List
    <3>3. p \in Page
      BY <1>1, <2>1, <3>2, PageIs DEF IInv, Distinct, List
    <3>4. Before(c, p)
      BY <1>1, <2>1, <3>3, PageIs DEF Rows, List
    <3>5. ASSUME NEW q \in outbox, served[q.id] > 0 PROVE Before(q, p)
      <4>1. q.id \in Ids /\ q \in Position
        BY <1>1, RowsTyped DEF IInv
      <4>2. ~Before(c, q)
        BY <1>1, <3>5, <4>1 DEF IInv, ServedBehind, Distinct
      <4> QED
        BY <3>1, <3>4, <4>1, <4>2, Order
    <3> QED
      BY <3>2, <3>5
  <2>2. CASE UNCHANGED served
    BY <2>2 DEF OrderedStep
  <2> QED
    BY <1>1, <2>1, <2>2
       DEF Next, vars, Begin, Seen, Commit, Rollback, Join, ReadWatermark, Tick
<1> QED
  BY <1>1, Invariance, PTL DEF Spec, ServedInOrder, OrderedStep
================================================================================
