------------------------------ MODULE DocStore ------------------------------
(***************************************************************************)
(* The store that the documentation of semanticore-core implements the     *)
(* Storage trait with, and runs its reasoners on (core/src/storage.rs).    *)
(* Quads lie in a vector behind a mutex, so one may lie there twice; a     *)
(* write transaction stages what it inserts and removes and applies it on  *)
(* commit.  The store advertises concurrent_writes: false, so there is one *)
(* write transaction at a time; a read transaction stages nothing and has  *)
(* no state: each of its calls reads what is committed then.               *)
(***************************************************************************)
EXTENDS Transactions, FiniteSets

CONSTANTS
    Quads,
    MaxOps   \* bound: calls on one write transaction

ASSUME DocAssumption == MaxOps \in Nat

VARIABLES
    base,    \* how often each quad lies in the vector
    tx,      \* the write transaction
    log,     \* history: the calls made on it
    start    \* history: the quads committed when it began

dvars == <<base, tx, log, start>>

NoTx == [open |-> FALSE, inserted |-> {}, removed |-> {}]

Committed == {q \in Quads : base[q] > 0}

\* How often each quad is in what the transaction sees.
snapshot == [q \in Quads |-> (IF q \in tx.removed THEN 0 ELSE base[q])
                             + (IF q \in tx.inserted THEN 1 ELSE 0)]

contains(q) == snapshot[q] > 0

begin_write ==
    /\ ~tx.open
    /\ tx' = [NoTx EXCEPT !.open = TRUE]
    /\ log' = <<>>
    /\ start' = Committed
    /\ UNCHANGED base

Returns(op, q, result) ==
    /\ tx.open
    /\ Len(log) < MaxOps
    /\ log' = Append(log, [op |-> op, quad |-> q, result |-> result])
    /\ UNCHANGED <<base, start>>

\* Faulty variant: stages the quad without looking.
insert_always(q) ==
    /\ Returns("insert", q, ~contains(q))
    /\ tx' = IF q \in tx.removed THEN [tx EXCEPT !.removed = @ \ {q}]
             ELSE [tx EXCEPT !.inserted = @ \cup {q}]

insert(q) ==
    /\ Returns("insert", q, ~contains(q))
    /\ tx' = CASE contains(q) -> tx
               [] ~contains(q) /\ q \in tx.removed -> [tx EXCEPT !.removed = @ \ {q}]
               [] OTHER -> [tx EXCEPT !.inserted = @ \cup {q}]

\* Faulty variant: forgets that the quad may be staged.
remove_committed(q) ==
    /\ Returns("remove", q, contains(q))
    /\ tx' = IF contains(q) THEN [tx EXCEPT !.removed = @ \cup {q}] ELSE tx

remove(q) ==
    /\ Returns("remove", q, contains(q))
    /\ tx' = CASE ~contains(q) -> tx
               [] contains(q) /\ q \in tx.inserted -> [tx EXCEPT !.inserted = @ \ {q}]
               [] OTHER -> [tx EXCEPT !.removed = @ \cup {q}]

look(q) == Returns("contains", q, contains(q)) /\ UNCHANGED tx

commit ==
    /\ tx.open
    /\ base' = snapshot
    /\ tx' = NoTx
    /\ log' = <<>>
    /\ start' = {}

\* rollback, or a dropped transaction.
rollback ==
    /\ tx.open
    /\ tx' = NoTx
    /\ log' = <<>>
    /\ start' = {}
    /\ UNCHANGED base

\* load, and its counterpart, on a store that is not shared: the vector b after
\* a transaction that inserts, or removes, all the quads of S.
Loaded(b, S) == [q \in Quads |-> IF q \in S /\ b[q] = 0 THEN 1 ELSE b[q]]
Unloaded(b, S) == [q \in Quads |-> IF q \in S THEN 0 ELSE b[q]]

\* The owner of the store unloads and loads what it likes.
Bulk ==
    /\ ~tx.open
    /\ \E unload, load \in SUBSET Quads : base' = Loaded(Unloaded(base, unload), load)
    /\ UNCHANGED <<tx, log, start>>

DocInit ==
    /\ base = [q \in Quads |-> 0]
    /\ tx = NoTx
    /\ log = <<>>
    /\ start = {}

DocCall(q) == insert(q) \/ remove(q) \/ look(q)

DocNext == begin_write \/ (\E q \in Quads : DocCall(q)) \/ commit \/ rollback \/ Bulk

DocSpec == DocInit /\ [][DocNext]_dvars

-----------------------------------------------------------------------------
(* Properties *)

\* No quad lies twice in the vector, nor is a committed one staged to be
\* inserted: quad_count counts quads, and a scan yields each once.
NoQuadTwice == \A q \in Quads : base[q] =< 1 /\ snapshot[q] =< 1

\* "honoring read-your-writes within the transaction": the calls of a write
\* transaction return what they return one by one from the quads committed when
\* it began, and it sees what they leave.
ReadsItsWrites ==
    tx.open => /\ Legal(start, log)
               /\ \A q \in Quads : contains(q) <=> q \in Replay(start, log)
=============================================================================
