------------------------------ MODULE EventFeed ------------------------------
(***************************************************************************)
(* The feed of public events.  Writers add rows to the outbox inside their *)
(* transactions; a row carries the start of its transaction and appears at *)
(* its commit, so rows do not appear in the order of their times.  A       *)
(* reader pages through the outbox with a cursor, up to a watermark that   *)
(* it computes first, from the starts of the transactions it sees open.    *)
(*                                                                         *)
(* The reader is one lineage of cursors: a page whose answer is lost       *)
(* leaves its client with the cursor it had, which is no step here.        *)
(***************************************************************************)
EXTENDS Integers, FiniteSets

CONSTANTS
    Writers,    \* transactions that may be open at once
    Ids,        \* ids of the events, in the order the database gives them
    Hidden,     \* events the feed reads over: of no project
    NoTx,       \* a writer outside a transaction
    Limit,      \* events per page
    Delay,      \* how long a transaction has begun before it is seen open
    Margin,     \* the safety margin of the watermark
    Slack,      \* how far a cursor may be ahead of the watermark
    LastStart,  \* bound on the start of a transaction
    MaxTime     \* bound on the clock

Floor == 0

ASSUME FeedAssumptions ==
    /\ Ids \subseteq Nat \ {Floor} /\ IsFiniteSet(Ids) /\ Hidden \subseteq Ids
    /\ Limit \in Nat \ {0}
    /\ Delay \in Nat /\ Margin \in Nat /\ Slack \in Nat
    /\ Delay <= Margin /\ Delay <= Slack
    /\ LastStart \in Nat /\ MaxTime \in Nat

VARIABLES
    now,
    tx,         \* the open transaction of each writer, with its event
    outbox,     \* the positions of the committed rows
    reader,     \* what the reader is at: its cursor, where it began, and the
                \* watermark it has in hand
    served      \* how often each event was served

vars == <<now, tx, outbox, reader, served>>

Position == [at : Int, id : Nat]

Before(p, q) == p.at < q.at \/ (p.at = q.at /\ p.id < q.id)

Tx == [start : Nat, at : Nat, id : Ids, seen : BOOLEAN]

TypeOK ==
    /\ now \in Nat
    /\ tx \in [Writers -> {NoTx} \cup Tx]
    /\ outbox \subseteq [at : Nat, id : Ids]
    /\ reader \in [pc : {"new"}]
                  \cup [pc : {"idle"}, cursor : Position, from : Position]
                  \cup [pc : {"listing"}, cursor : Position, from : Position,
                        watermark : Int]
    /\ served \in [Ids -> Nat]

Init ==
    /\ now = 0
    /\ tx = [w \in Writers |-> NoTx]
    /\ outbox = {}
    /\ reader = [pc |-> "new"]
    /\ served = [i \in Ids |-> 0]

Open == {w \in Writers : tx[w] # NoTx}
Used == {p.id : p \in outbox} \cup {tx[w].id : w \in Open}

-----------------------------------------------------------------------------
(* Writers.  createdAt is the start of the transaction, rounded to the     *)
(* precision of the column, which may be up.                               *)

Begin(w) ==
    /\ tx[w] = NoTx
    /\ now <= LastStart
    /\ \E id \in Ids \ Used, at \in {now, now + 1} :
         tx' = [tx EXCEPT ![w] =
                  [start |-> now, at |-> at, id |-> id, seen |-> FALSE]]
    /\ UNCHANGED <<now, outbox, reader, served>>

Seen(w) ==
    /\ w \in Open /\ ~tx[w].seen
    /\ tx' = [tx EXCEPT ![w].seen = TRUE]
    /\ UNCHANGED <<now, outbox, reader, served>>

Commit(w) ==
    /\ w \in Open /\ tx[w].seen
    /\ outbox' = outbox \cup {[at |-> tx[w].at, id |-> tx[w].id]}
    /\ tx' = [tx EXCEPT ![w] = NoTx]
    /\ UNCHANGED <<now, reader, served>>

Rollback(w) ==
    /\ w \in Open /\ tx[w].seen
    /\ tx' = [tx EXCEPT ![w] = NoTx]
    /\ UNCHANGED <<now, outbox, reader, served>>

-----------------------------------------------------------------------------
(* The reader.                                                             *)

\* Mutant: the watermark has no margin.
Watermark_NoMargin ==
    LET starts == {now} \cup {tx[w].start : w \in {v \in Open : tx[v].seen}}
    IN CHOOSE s \in starts : \A t \in starts : s <= t

Watermark ==
    LET starts == {now} \cup {tx[w].start : w \in {v \in Open : tx[v].seen}}
    IN (CHOOSE s \in starts : \A t \in starts : s <= t) - Margin

Head(watermark) == [at |-> watermark, id |-> Floor]

\* Mutant: a cursor may not be ahead of the watermark at all.
Accepted_NoSlack(cursor, watermark) == cursor.at <= watermark

Accepted(cursor, watermark) == cursor.at <= watermark + Slack

\* From the beginning, or from what is committed now.
Join ==
    /\ reader.pc = "new"
    /\ \E from \in {Head(-Margin), Head(Watermark)} :
         reader' = [pc |-> "idle", cursor |-> from, from |-> from]
    /\ UNCHANGED <<now, tx, outbox, served>>

ReadWatermark ==
    /\ reader.pc = "idle"
    /\ Accepted(reader.cursor, Watermark)
    /\ reader' = [pc |-> "listing", cursor |-> reader.cursor,
                  from |-> reader.from, watermark |-> Watermark]
    /\ UNCHANGED <<now, tx, outbox, served>>

Rows == {p \in outbox : p.at < reader.watermark /\ Before(reader.cursor, p)}

Page == {p \in Rows : Cardinality({q \in Rows : Before(q, p)}) < Limit}

Last(page) == CHOOSE p \in page : \A q \in page : ~Before(p, q)

\* Mutant: a page that was cut short also moves the cursor to the watermark.
Reached_Untruncated(page) == Head(reader.watermark)

Reached(page) ==
    IF page # Rows THEN Last(page) ELSE Head(reader.watermark)

\* Mutant: the cursor follows the watermark back.
NextCursor_Back(page) == Reached(page)

NextCursor(page) ==
    IF Before(Reached(page), reader.cursor) THEN reader.cursor
    ELSE Reached(page)

List ==
    /\ reader.pc = "listing"
    /\ reader' = [pc |-> "idle", cursor |-> NextCursor(Page),
                  from |-> reader.from]
    /\ served' = [i \in Ids |->
         IF i \notin Hidden /\ \E p \in Page : p.id = i
         THEN served[i] + 1 ELSE served[i]]
    /\ UNCHANGED <<now, tx, outbox>>

\* A transaction is seen open within Delay of its start.
Tick ==
    /\ now < MaxTime
    /\ \A w \in Open : tx[w].seen \/ now < tx[w].start + Delay
    /\ now' = now + 1
    /\ UNCHANGED <<tx, outbox, reader, served>>

Next ==
    \/ \E w \in Writers : Begin(w) \/ Seen(w) \/ Commit(w) \/ Rollback(w)
    \/ Join \/ ReadWatermark \/ List
    \/ Tick

\* Transactions end, a client goes on polling, and time passes.
Fairness ==
    /\ \A w \in Writers : WF_vars(Seen(w)) /\ WF_vars(Commit(w) \/ Rollback(w))
    /\ WF_vars(ReadWatermark) /\ WF_vars(List) /\ WF_vars(Tick)

Spec == Init /\ [][Next]_vars
LiveSpec == Spec /\ Fairness

-----------------------------------------------------------------------------
Joined == reader.pc # "new"
Due(p) == Before(reader.from, p) /\ p.id \notin Hidden

(* Nothing is skipped: a row that lies behind the cursor has been served,  *)
(* also if it was committed long after the cursor passed its time.         *)
NothingBehindCursor ==
    Joined => \A p \in outbox :
      Due(p) /\ ~Before(reader.cursor, p) => served[p.id] > 0

(* What is served comes after all that was served before it, so that       *)
(* nothing is served twice or out of order, over any number of pages.      *)
ServedInOrder ==
    [][\A p \in outbox :
         served'[p.id] # served[p.id]
           => /\ served'[p.id] = served[p.id] + 1
              /\ \A q \in outbox : served[q.id] > 0 => Before(q, p)]_vars

(* The watermark may step back, but never so far that a cursor the service *)
(* gave out is refused as one it cannot have given.                        *)
CursorAccepted == Joined => Accepted(reader.cursor, Watermark)

(* Every event of the lineage is served in the end, whatever transactions  *)
(* stay open for how long meanwhile.                                       *)
EverythingServed ==
    \A i \in Ids \ Hidden :
      (Joined /\ \E p \in outbox : p.id = i /\ Due(p)) ~> served[i] > 0

(* The cursor is always one the service accepts, with nothing left behind. *)
CursorSound == TypeOK /\ NothingBehindCursor /\ CursorAccepted
=============================================================================
