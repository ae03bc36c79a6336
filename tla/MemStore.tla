------------------------------ MODULE MemStore ------------------------------
(***************************************************************************)
(* MemStore, the reference implementation of the Storage trait that the    *)
(* storage test kit compares other stores with (testkit/src/mem.rs).  Each *)
(* transaction works on a private copy of the committed quads, and commit  *)
(* is refused when another commit came first.                              *)
(***************************************************************************)
EXTENDS Transactions, FiniteSets

CONSTANTS
    Quads,
    Txs,        \* slots for open transactions
    MaxOps,     \* bound: calls on one transaction
    MaxVersion  \* bound: successful commits

ASSUME MemAssumption == MaxOps \in Nat /\ MaxVersion \in Nat

VARIABLES
    version, quads,  \* the State behind the mutex
    tx,              \* the open transactions
    log, outcome,    \* history, as in SerialStore
    start            \* history: what was committed when each one began

vars == <<version, quads, tx, log, outcome, start>>

NoTx == [open |-> FALSE, writable |-> FALSE, base_version |-> 0, working |-> {}]

Begin(t, writable) ==
    /\ ~tx[t].open
    /\ tx' = [tx EXCEPT ![t] = [open |-> TRUE, writable |-> writable,
                                base_version |-> version, working |-> quads]]
    /\ start' = [start EXCEPT ![t] = quads]
    /\ outcome' = IF writable THEN "open" ELSE outcome
    /\ UNCHANGED <<version, quads, log>>

BeginRead(t) == Begin(t, FALSE)
BeginWrite(t) == Begin(t, TRUE)

Returns(t, op, q, result) ==
    /\ tx[t].open
    /\ Len(log[t]) < MaxOps
    /\ log' = [log EXCEPT ![t] = Append(@, [op |-> op, quad |-> q, result |-> result])]
    /\ outcome' = IF tx[t].writable THEN "open" ELSE outcome
    /\ UNCHANGED <<version, quads, start>>

\* A read-only transaction refuses insert and remove with an error.
Insert(t, q) ==
    /\ tx[t].writable
    /\ Returns(t, "insert", q, q \notin tx[t].working)
    /\ tx' = [tx EXCEPT ![t].working = @ \cup {q}]

Remove(t, q) ==
    /\ tx[t].writable
    /\ Returns(t, "remove", q, q \in tx[t].working)
    /\ tx' = [tx EXCEPT ![t].working = @ \ {q}]

Contains(t, q) ==
    /\ Returns(t, "contains", q, q \in tx[t].working)
    /\ UNCHANGED tx

\* A pattern binds some of the positions: the quads that agree with its quad
\* there.
matches_pattern(q, pattern) == \A f \in pattern.bound : q[f] = pattern.quad[f]

\* Faulty variant: a pattern for the default graph finds every graph.
quads_for_pattern_any_graph(t, pattern) ==
    {q \in tx[t].working : \A f \in pattern.bound :
        q[f] = pattern.quad[f] \/ (f = "graph" /\ pattern.quad.graph = "default graph")}

quads_for_pattern(t, pattern) == {q \in tx[t].working : matches_pattern(q, pattern)}

quad_count == Cardinality(quads)

named_graphs == {q.graph : q \in quads} \ {"default graph"}

Ends(t, how) ==
    /\ tx' = [tx EXCEPT ![t] = NoTx]
    /\ start' = [start EXCEPT ![t] = {}]
    /\ log' = [log EXCEPT ![t] = <<>>]
    /\ outcome' = IF tx[t].writable THEN how ELSE outcome

\* Faulty variant: no conflict check.
CommitUnchecked(t) ==
    /\ tx[t].writable
    /\ version < MaxVersion
    /\ quads' = tx[t].working
    /\ version' = version + 1
    /\ Ends(t, "committed")

\* Faulty variant: the version is not bumped.
CommitSameVersion(t) ==
    /\ tx[t].writable
    /\ version = tx[t].base_version
    /\ quads' = tx[t].working
    /\ Ends(t, "committed")
    /\ UNCHANGED version

Commit(t) ==
    /\ tx[t].writable
    /\ version = tx[t].base_version
    /\ version < MaxVersion
    /\ quads' = tx[t].working
    /\ version' = version + 1
    /\ Ends(t, "committed")

\* TransactionConflict.
Conflict(t) ==
    /\ tx[t].writable
    /\ version # tx[t].base_version
    /\ Ends(t, "aborted")
    /\ UNCHANGED <<version, quads>>

\* rollback, a dropped transaction, and the commit of a read-only one.
Rollback(t) ==
    /\ tx[t].open
    /\ Ends(t, "aborted")
    /\ UNCHANGED <<version, quads>>

Init ==
    /\ version = 0
    /\ quads = {}
    /\ tx = [t \in Txs |-> NoTx]
    /\ log = [t \in Txs |-> <<>>]
    /\ outcome = "open"
    /\ start = [t \in Txs |-> {}]

Transaction(t) ==
    \/ BeginRead(t) \/ BeginWrite(t)
    \/ \E q \in Quads : Insert(t, q) \/ Remove(t, q) \/ Contains(t, q)
    \/ Commit(t) \/ Conflict(t) \/ Rollback(t)

Next == \E t \in Txs : Transaction(t)

Spec == Init /\ [][Next]_vars

-----------------------------------------------------------------------------
(* Properties *)

\* A transaction whose base version is still current works on what is
\* committed, so the version check of commit tells whether anything changed.
VersionTellsChange ==
    \A t \in Txs : tx[t].open =>
        /\ tx[t].base_version =< version
        /\ tx[t].base_version = version => start[t] = quads

\* Write transactions are serializable, though none waits for another.
Serial == INSTANCE SerialStore WITH
    log <- [t \in Txs |-> IF tx[t].writable THEN log[t] ELSE <<>>]
SerialWrites == Serial!Spec
=============================================================================
