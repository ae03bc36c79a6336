--------------------------- MODULE MemStoreProofs ---------------------------
(***************************************************************************)
(* Proofs about MemStore, for any quads, transactions and bounds, and that *)
(* it passes the checks of the storage contract.                           *)
(***************************************************************************)
EXTENDS MemContract, CommonProofs

Txn == [open : BOOLEAN, writable : BOOLEAN, base_version : Nat, working : SUBSET Quads]

Shape ==
    /\ version \in Nat
    /\ quads \in SUBSET Quads
    /\ tx \in [Txs -> Txn]
    /\ start \in [Txs -> SUBSET Quads]
    /\ \A t \in Txs : tx[t].writable => tx[t].open

Inv == Shape /\ VersionTellsChange

USE DEF Shape, Txn

LEMMA InitInv == Init => Inv
BY DEF Init, Inv, NoTx, VersionTellsChange

\* Taking the copy and the version is one step under the mutex.
LEMMA BeginKeepsInv ==
    ASSUME Inv, NEW t \in Txs, NEW w \in BOOLEAN, Begin(t, w)
    PROVE  Inv'
BY DEF Inv, Begin, VersionTellsChange

\* An ended transaction leaves the others as they were.
LEMMA EndKeepsOthers ==
    ASSUME Inv, NEW t \in Txs, NEW how, Ends(t, how)
    PROVE  /\ tx' \in [Txs -> Txn] /\ start' \in [Txs -> SUBSET Quads]
           /\ ~tx'[t].open /\ ~tx'[t].writable
           /\ \A u \in Txs \ {t} : tx'[u] = tx[u] /\ start'[u] = start[u]
BY DEF Inv, Ends, NoTx

LEMMA CallKeepsInv ==
    ASSUME Inv, NEW t \in Txs, NEW q \in Quads, Insert(t, q) \/ Remove(t, q) \/ Contains(t, q)
    PROVE  Inv'
<1>1. UNCHANGED <<version, quads, start>>
    BY DEF Insert, Remove, Contains, Returns
<1>2. tx' \in [Txs -> Txn] /\ \A u \in Txs : /\ tx'[u].open = tx[u].open
                                           /\ tx'[u].writable = tx[u].writable
                                           /\ tx'[u].base_version = tx[u].base_version
    BY DEF Insert, Remove, Contains, Inv
<1> QED
    BY <1>1, <1>2 DEF Inv, VersionTellsChange

\* After a commit no open transaction has the current version as its base.
LEMMA CommitKeepsInv ==
    ASSUME Inv, NEW t \in Txs, Commit(t)
    PROVE  Inv'
<1>1. /\ quads' = tx[t].working /\ version' = version + 1 /\ Ends(t, "committed")
    BY DEF Commit
<1>2. \A u \in Txs : tx[u].open => tx[u].base_version <= version
    BY DEF Inv, VersionTellsChange
<1>3. \A u \in Txs : tx'[u].open => u # t /\ tx'[u].base_version < version'
    BY <1>1, <1>2, EndKeepsOthers DEF Inv
<1>4. Shape'
    BY <1>1, EndKeepsOthers DEF Inv
<1> QED
    BY <1>3, <1>4 DEF Inv, VersionTellsChange

LEMMA AbortKeepsInv ==
    ASSUME Inv, NEW t \in Txs, Conflict(t) \/ Rollback(t)
    PROVE  Inv'
<1>1. Ends(t, "aborted") /\ UNCHANGED <<version, quads>>
    BY DEF Conflict, Rollback
<1> QED
    BY <1>1, EndKeepsOthers DEF Inv, VersionTellsChange

LEMMA NextKeepsInv == Inv /\ [Next]_vars => Inv'
<1> SUFFICES ASSUME Inv, [Next]_vars PROVE Inv'
    OBVIOUS
<1>1. CASE UNCHANGED vars
    BY <1>1 DEF Inv, vars, VersionTellsChange
<1>2. CASE Next
  <2>1. PICK t \in Txs : Transaction(t)
      BY <1>2 DEF Next
  <2>2. CASE BeginRead(t) \/ BeginWrite(t)
      BY <2>2, BeginKeepsInv DEF BeginRead, BeginWrite
  <2>3. CASE \E q \in Quads : Insert(t, q) \/ Remove(t, q) \/ Contains(t, q)
      BY <2>3, CallKeepsInv
  <2>4. CASE Commit(t)
      BY <2>4, CommitKeepsInv
  <2>5. CASE Conflict(t) \/ Rollback(t)
      BY <2>5, AbortKeepsInv
  <2> QED
      BY <2>1, <2>2, <2>3, <2>4, <2>5 DEF Transaction
<1> QED
    BY <1>1, <1>2

LEMMA InvIsInvariant == Spec => []Inv
BY InitInv, NextKeepsInv, PTL DEF Spec

\* Optimistic concurrency control is sound: while the version commit compares
\* (mem.rs, MemTx::commit) is the one a transaction began with, its private
\* copy was taken from exactly what is committed now.
THEOREM ConflictCheckIsSound == Spec => []VersionTellsChange
<1>1. Inv => VersionTellsChange
    BY DEF Inv
<1> QED
    BY <1>1, InvIsInvariant, PTL

-----------------------------------------------------------------------------
(* Write transactions are serializable *)

\* The private copy of a transaction is what its calls make of the state it
\* began in, and they have returned what they return there.
CopyIsReplay ==
    /\ log \in [Txs -> Seq(Calls(Quads))]
    /\ \A t \in Txs :
          IF tx[t].open
          THEN Legal(start[t], log[t]) /\ Replay(start[t], log[t]) = tx[t].working
          ELSE log[t] = <<>>

\* The log that SerialStore has of a transaction.
WriteLog(t) == IF tx[t].writable THEN log[t] ELSE <<>>
WriteLogs == [t \in Txs |-> WriteLog(t)]

\* What one call does to the transaction that it is made on.
Made(t, c) ==
    /\ log' = [log EXCEPT ![t] = Append(@, c)]
    /\ tx' = [tx EXCEPT ![t].working = After(@, c)]
    /\ tx[t].open
    /\ Promised(tx[t].working, c)
    /\ outcome' = (IF tx[t].writable THEN "open" ELSE outcome)
    /\ UNCHANGED <<version, quads, start>>

LEMMA CallIsMade ==
    ASSUME Inv, NEW t \in Txs, NEW q \in Quads, Insert(t, q) \/ Remove(t, q) \/ Contains(t, q)
    PROVE  \E c \in Calls(Quads) : Made(t, c)
<1> DEFINE call(op, b) == [op |-> op, quad |-> q, result |-> b]
<1>1. CASE Insert(t, q)
  <2> DEFINE b == q \notin tx[t].working
  <2>1. Returns(t, "insert", q, b) /\ b \in BOOLEAN
      BY <1>1 DEF Insert
  <2>2. call("insert", b) \in Calls(Quads)
      BY <2>1 DEF Calls, Operations
  <2>3. After(tx[t].working, call("insert", b)) = tx[t].working \cup {q}
      BY DEF After
  <2>4. tx' = [tx EXCEPT ![t].working = After(@, call("insert", b))]
      BY <1>1, <2>3 DEF Insert, Inv
  <2>5. Promised(tx[t].working, call("insert", b))
      BY DEF Promised
  <2>6. Made(t, call("insert", b))
      BY <2>1, <2>4, <2>5 DEF Returns, Made
  <2> QED
      BY <2>2, <2>6
<1>2. CASE Remove(t, q)
  <2> DEFINE b == q \in tx[t].working
  <2>1. Returns(t, "remove", q, b) /\ b \in BOOLEAN
      BY <1>2 DEF Remove
  <2>2. call("remove", b) \in Calls(Quads)
      BY <2>1 DEF Calls, Operations
  <2>3. After(tx[t].working, call("remove", b)) = tx[t].working \ {q}
      BY DEF After
  <2>4. tx' = [tx EXCEPT ![t].working = After(@, call("remove", b))]
      BY <1>2, <2>3 DEF Remove, Inv
  <2>5. Promised(tx[t].working, call("remove", b))
      BY DEF Promised
  <2>6. Made(t, call("remove", b))
      BY <2>1, <2>4, <2>5 DEF Returns, Made
  <2> QED
      BY <2>2, <2>6
<1>3. CASE Contains(t, q)
  <2> DEFINE b == q \in tx[t].working
  <2>1. Returns(t, "contains", q, b) /\ b \in BOOLEAN
      BY <1>3 DEF Contains
  <2>2. call("contains", b) \in Calls(Quads)
      BY <2>1 DEF Calls, Operations
  <2>3. After(tx[t].working, call("contains", b)) = tx[t].working
      BY DEF After
  <2>4. tx' = [tx EXCEPT ![t].working = After(@, call("contains", b))]
      BY <1>3, <2>3 DEF Contains, Inv
  <2>5. Promised(tx[t].working, call("contains", b))
      BY DEF Promised
  <2>6. Made(t, call("contains", b))
      BY <2>1, <2>4, <2>5 DEF Returns, Made
  <2> QED
      BY <2>2, <2>6
<1> QED
    BY <1>1, <1>2, <1>3

LEMMA MadeKeepsReplay ==
    ASSUME Inv, CopyIsReplay, NEW t \in Txs, NEW c \in Calls(Quads), Made(t, c)
    PROVE  CopyIsReplay'
<1>1. /\ log[t] \in Seq(Calls(Quads)) /\ c.op \in Operations
      /\ Legal(start[t], log[t]) /\ Replay(start[t], log[t]) = tx[t].working
    BY DEF CopyIsReplay, Made, Calls
<1>2. Legal(start[t], Append(log[t], c))
    BY <1>1, LegalOneMore DEF Made
<1>3. Replay(start[t], Append(log[t], c)) = After(tx[t].working, c)
    BY <1>1, ReplayOneMore
<1>4. /\ log' \in [Txs -> Seq(Calls(Quads))]
      /\ log'[t] = Append(log[t], c)
      /\ \A u \in Txs \ {t} : log'[u] = log[u]
    BY <1>1 DEF CopyIsReplay, Made
<1>5. /\ tx'[t].working = After(tx[t].working, c)
      /\ tx'[t].open
      /\ \A u \in Txs \ {t} : tx'[u] = tx[u]
    BY DEF Made, Inv
<1> QED
    BY <1>2, <1>3, <1>4, <1>5 DEF CopyIsReplay, Made

LEMMA ReplayInvariant == Inv /\ CopyIsReplay /\ [Next]_vars => CopyIsReplay'
<1> SUFFICES ASSUME Inv, CopyIsReplay, [Next]_vars PROVE CopyIsReplay'
    OBVIOUS
<1>1. CASE UNCHANGED vars
    BY <1>1 DEF CopyIsReplay, vars
<1>2. ASSUME NEW t \in Txs, NEW w \in BOOLEAN, Begin(t, w) PROVE CopyIsReplay'
  <2>1. /\ tx'[t].open /\ tx'[t].working = quads /\ start'[t] = quads
        /\ \A u \in Txs \ {t} : tx'[u] = tx[u] /\ start'[u] = start[u]
        /\ log' = log /\ ~tx[t].open
      BY <1>2 DEF Begin, Inv
  <2> QED
      BY <2>1, ReplayNothing DEF CopyIsReplay
<1>3. ASSUME NEW t \in Txs, NEW how, Ends(t, how) PROVE CopyIsReplay'
  <2>1. log' \in [Txs -> Seq(Calls(Quads))] /\ log'[t] = <<>>
        /\ \A u \in Txs \ {t} : log'[u] = log[u]
      BY <1>3 DEF Ends, CopyIsReplay
  <2> QED
      BY <1>3, <2>1, EndKeepsOthers DEF CopyIsReplay
<1>4. CASE Next
  <2>1. PICK t \in Txs : Transaction(t)
      BY <1>4 DEF Next
  <2>2. CASE BeginRead(t) \/ BeginWrite(t)
      BY <2>2, <1>2 DEF BeginRead, BeginWrite
  <2>3. CASE \E q \in Quads : Insert(t, q) \/ Remove(t, q) \/ Contains(t, q)
      BY <2>3, CallIsMade, MadeKeepsReplay
  <2>4. CASE Commit(t) \/ Conflict(t) \/ Rollback(t)
      BY <2>4, <1>3 DEF Commit, Conflict, Rollback
  <2> QED
      BY <2>1, <2>2, <2>3, <2>4 DEF Transaction
<1> QED
    BY <1>1, <1>4

LEMMA ReplayIsInvariant == Spec => []CopyIsReplay
<1>1. Init => CopyIsReplay
    BY DEF Init, CopyIsReplay, NoTx
<1> QED
    BY <1>1, InvIsInvariant, ReplayInvariant, PTL DEF Spec

\* "A minimal snapshot-isolated, in-memory quad store" (mem.rs): whatever is
\* committed meanwhile, the calls of a transaction, read-only or not, return
\* what they return one by one from the state that was committed when it began.
THEOREM TransactionsSeeSnapshots == Spec => [](\A t \in Txs : Legal(start[t], log[t]))
<1>1. CopyIsReplay => \A t \in Txs : Legal(start[t], log[t])
    BY ReplayNothing DEF CopyIsReplay
<1> QED
    BY <1>1, ReplayIsInvariant, PTL

LEMMA SameTransactions ==
    /\ \A S, l : Serial!Legal(S, l) <=> Legal(S, l)
    /\ \A S, l : Serial!Replay(S, l) = Replay(S, l)
    /\ \A Q : Serial!Calls(Q) = Calls(Q)
BY DEF Serial!Legal, Legal, Serial!Replay, Replay, Serial!Calls, Calls, Serial!Operations,
       Operations, Serial!Promised, Promised, Serial!ReplayTo, ReplayTo, Serial!Stays, Stays

\* Each step of MemStore is a step of the serializable store, or none.
LEMMA StepIsSerial ==
    ASSUME Inv, CopyIsReplay, [Next]_vars
    PROVE  [Serial!Next]_(Serial!svars)
<1>1. CASE UNCHANGED vars
    BY <1>1 DEF vars, Serial!svars
<1>2. ASSUME NEW t \in Txs, BeginWrite(t) PROVE Serial!Begin(t)
  <2>1. /\ tx' = [tx EXCEPT ![t] = [open |-> TRUE, writable |-> TRUE,
                                    base_version |-> version, working |-> quads]]
        /\ outcome' = "open" /\ UNCHANGED <<quads, log>> /\ ~tx[t].open
      BY <1>2 DEF BeginWrite, Begin
  <2>2. log[t] = <<>>
      BY <2>1 DEF CopyIsReplay
  <2>3. \A u \in Txs : WriteLog(u)' = WriteLog(u)
      BY <2>1, <2>2 DEF WriteLog, Inv
  <2> QED
      BY <2>1, <2>2, <2>3 DEF Serial!Begin, WriteLog
<1>3. ASSUME NEW t \in Txs, BeginRead(t) PROVE UNCHANGED Serial!svars
  <2>1. /\ tx' = [tx EXCEPT ![t] = [open |-> TRUE, writable |-> FALSE,
                                    base_version |-> version, working |-> quads]]
        /\ UNCHANGED <<quads, log, outcome>> /\ ~tx[t].open
      BY <1>3 DEF BeginRead, Begin
  <2>2. log[t] = <<>>
      BY <2>1 DEF CopyIsReplay
  <2>3. \A u \in Txs : WriteLog(u)' = WriteLog(u)
      BY <2>1, <2>2 DEF WriteLog, Inv
  <2> QED
      BY <2>1, <2>3 DEF Serial!svars, WriteLog
<1>4. ASSUME NEW t \in Txs, NEW c \in Calls(Quads), Made(t, c), tx[t].writable
      PROVE  Serial!Make(t, c)
  <2>1. /\ \A u \in Txs : tx'[u].writable = tx[u].writable
        /\ log'[t] = Append(log[t], c)
        /\ \A u \in Txs \ {t} : log'[u] = log[u]
      BY <1>4 DEF Made, Inv, CopyIsReplay
  <2>2. WriteLogs' = [WriteLogs EXCEPT ![t] = Append(@, c)]
      BY <1>4, <2>1 DEF WriteLogs, WriteLog
  <2> QED
      BY <1>4, <2>2 DEF Serial!Make, Made, WriteLogs, WriteLog
<1>5. ASSUME NEW t \in Txs, NEW c \in Calls(Quads), Made(t, c), ~tx[t].writable
      PROVE  UNCHANGED Serial!svars
  <2>1. /\ \A u \in Txs : tx'[u].writable = tx[u].writable
        /\ \A u \in Txs \ {t} : log'[u] = log[u]
      BY <1>5 DEF Made, Inv, CopyIsReplay
  <2>2. \A u \in Txs : WriteLog(u)' = WriteLog(u)
      BY <1>5, <2>1 DEF WriteLog
  <2> QED
      BY <1>5, <2>2 DEF Serial!svars, Made, WriteLog
<1>6. ASSUME NEW t \in Txs, NEW how, Ends(t, how)
      PROVE  WriteLogs' = [WriteLogs EXCEPT ![t] = <<>>]
  <2>1. log'[t] = <<>> /\ \A u \in Txs \ {t} : log'[u] = log[u]
      BY <1>6 DEF Ends, CopyIsReplay
  <2> QED
      BY <1>6, <2>1, EndKeepsOthers DEF WriteLogs, WriteLog
<1>7. ASSUME NEW t \in Txs, Commit(t) PROVE Serial!Commit(t)
  <2>1. tx[t].writable /\ tx[t].open /\ version = tx[t].base_version /\ quads' = tx[t].working
      BY <1>7 DEF Commit, Inv
  <2>2. start[t] = quads
      BY <2>1 DEF Inv, VersionTellsChange
  <2>3. Legal(quads, WriteLogs[t]) /\ Replay(quads, WriteLogs[t]) = quads'
      BY <2>1, <2>2 DEF CopyIsReplay, WriteLogs, WriteLog
  <2>4. WriteLogs' = [WriteLogs EXCEPT ![t] = <<>>] /\ outcome' = "committed"
      BY <1>6, <1>7, <2>1 DEF Commit, Ends
  <2> QED
      BY <2>3, <2>4, SameTransactions DEF Serial!Commit, WriteLogs, WriteLog
<1>8. ASSUME NEW t \in Txs, Conflict(t) \/ Rollback(t)
      PROVE  Serial!Abort(t) \/ UNCHANGED Serial!svars
  <2>1. Ends(t, "aborted") /\ UNCHANGED quads
      BY <1>8 DEF Conflict, Rollback
  <2>2. WriteLogs' = [WriteLogs EXCEPT ![t] = <<>>]
      BY <1>6, <2>1
  <2>3. CASE tx[t].writable
      BY <2>1, <2>2, <2>3 DEF Ends, Serial!Abort, WriteLogs, WriteLog
  <2>4. CASE ~tx[t].writable
    <3>1. WriteLogs' = WriteLogs
        BY <2>2, <2>4 DEF WriteLogs, WriteLog
    <3> QED
        BY <2>1, <2>4, <3>1 DEF Ends, Serial!svars, WriteLogs, WriteLog
  <2> QED
      BY <2>3, <2>4
<1>9. CASE Next
  <2>1. PICK t \in Txs : Transaction(t)
      BY <1>9 DEF Next
  <2>2. CASE BeginRead(t) \/ BeginWrite(t)
      BY <2>2, <1>2, <1>3 DEF Serial!Next
  <2>3. CASE \E q \in Quads : Insert(t, q) \/ Remove(t, q) \/ Contains(t, q)
    <3>1. PICK c \in Calls(Quads) : Made(t, c)
        BY <2>3, CallIsMade
    <3> QED
        BY <3>1, <1>4, <1>5, SameTransactions DEF Serial!Next
  <2>4. CASE Commit(t)
      BY <2>4, <1>7 DEF Serial!Next
  <2>5. CASE Conflict(t) \/ Rollback(t)
      BY <2>5, <1>8 DEF Serial!Next
  <2> QED
      BY <2>1, <2>2, <2>3, <2>4, <2>5 DEF Transaction
<1> QED
    BY <1>1, <1>9

\* Transactions that write to MemStore are serializable, though none waits for
\* another: what commit (mem.rs, MemTx::commit) publishes is what its calls make
\* of the state committed at that moment, and they returned what they return
\* there.
THEOREM MemStoreIsSerial == Spec => SerialWrites
<1>1. Init => Serial!Init
    BY DEF Init, Serial!Init, NoTx
<1> QED
    BY <1>1, ReplayIsInvariant, InvIsInvariant, StepIsSerial, PTL DEF Spec, SerialWrites, Serial!Spec

-----------------------------------------------------------------------------
(* The contract *)

\* What a thread sees of the store: what is committed, and of each of its
\* transactions whether it is open and writable, whether nothing was committed
\* since it began, and its copy.
Observed(t) == [open |-> tx[t].open, writable |-> tx[t].writable,
                current |-> tx[t].open /\ tx[t].base_version = version,
                working |-> tx[t].working]
View(O) == [store |-> quads, tx |-> [t \in O |-> Observed(t)]]

Closed == [open |-> FALSE, writable |-> FALSE, current |-> FALSE, working |-> {}]
Tx(writable, current, S) ==
    [open |-> TRUE, writable |-> writable, current |-> current, working |-> S]
Stale(x) == [open |-> x.open, writable |-> x.writable, current |-> FALSE, working |-> x.working]

\* A view after a call on t, and after a commit of t.
Moves(V, t, x) ==
    [store |-> V.store, tx |-> [u \in DOMAIN V.tx |-> IF u = t THEN x ELSE V.tx[u]]]
Commits(V, t, S) ==
    [store |-> S, tx |-> [u \in DOMAIN V.tx |-> IF u = t THEN Closed ELSE Stale(V.tx[u])]]

\* Made in view V, call c returns what its check accepts and leads to view W.
Does(V, c, W) ==
    LET t == c.tx
        x == V.tx[t]
    IN  \/ /\ c.op \in {"begin_read", "begin_write"}
           /\ t \in DOMAIN V.tx /\ "ok" \in c.accepts
           /\ W = Moves(V, t, Tx(c.op = "begin_write", TRUE, V.store))
        \/ /\ c.op = "insert" /\ t \in DOMAIN V.tx /\ c.quad \in Quads /\ x.writable
           /\ C!Bit(c.quad \notin x.working) \in c.accepts
           /\ W = Moves(V, t, Tx(TRUE, x.current, x.working \cup {c.quad}))
        \/ /\ c.op = "remove" /\ t \in DOMAIN V.tx /\ c.quad \in Quads /\ x.writable
           /\ C!Bit(c.quad \in x.working) \in c.accepts
           /\ W = Moves(V, t, Tx(TRUE, x.current, x.working \ {c.quad}))
        \/ /\ c.op \in {"insert", "remove"} /\ t \in DOMAIN V.tx /\ ~x.writable
           /\ "error" \in c.accepts
           /\ W = V
        \/ /\ c.op = "contains" /\ t \in DOMAIN V.tx /\ c.quad \in Quads
           /\ C!Bit(c.quad \in x.working) \in c.accepts
           /\ W = V
        \/ /\ c.op = "scan" /\ t \in DOMAIN V.tx
           /\ {q \in x.working : matches_pattern(q, c.pattern)} \in c.accepts
           /\ W = V
        \/ /\ c.op = "commit" /\ t \in DOMAIN V.tx /\ x.writable /\ x.current
           /\ "ok" \in c.accepts
           /\ W = Commits(V, t, x.working)
        \/ /\ \/ c.op = "commit" /\ ~x.writable
              \/ c.op \in {"rollback", "drop"}
           /\ t \in DOMAIN V.tx /\ "ok" \in c.accepts
           /\ W = Moves(V, t, Closed)
        \/ /\ c.op = "quad_count" /\ Cardinality(V.store) \in c.accepts
           /\ W = V
        \/ /\ c.op = "named_graphs"
           /\ {q.graph : q \in V.store} \ {"default graph"} \in c.accepts
           /\ W = V

\* What Does says of a call is what MemStore does.
LEMMA ViewIs ==
    ASSUME NEW O, NEW t \in O
    PROVE  /\ View(O).store = quads /\ DOMAIN View(O).tx = O
           /\ View(O).tx[t].open = tx[t].open /\ View(O).tx[t].writable = tx[t].writable
           /\ View(O).tx[t].current = (tx[t].open /\ tx[t].base_version = version)
           /\ View(O).tx[t].working = tx[t].working
BY DEF View, Observed

LEMMA ViewMoves ==
    ASSUME NEW O \in SUBSET Txs, NEW t \in O, NEW x, quads' = quads,
           Observed(t)' = x, \A u \in O \ {t} : Observed(u)' = Observed(u)
    PROVE  View(O)' = Moves(View(O), t, x)
BY DEF View, Moves

LEMMA BeginView ==
    ASSUME Inv, NEW O \in SUBSET Txs, NEW t \in O, NEW w \in BOOLEAN, Begin(t, w)
    PROVE  View(O)' = Moves(View(O), t, Tx(w, TRUE, quads))
<1>1. quads' = quads /\ version' = version
    BY DEF Begin
<1>2. Observed(t)' = Tx(w, TRUE, quads)
    BY DEF Begin, Observed, Tx, Inv
<1>3. \A u \in O \ {t} : Observed(u)' = Observed(u)
    BY DEF Begin, Observed, Inv
<1> QED
    BY <1>1, <1>2, <1>3, ViewMoves

LEMMA WorkView ==
    ASSUME Inv, NEW O \in SUBSET Txs, NEW t \in O, NEW S,
           tx[t].open, tx[t].writable, UNCHANGED <<version, quads>>,
           tx' = [tx EXCEPT ![t].working = S]
    PROVE  View(O)' = Moves(View(O), t, Tx(TRUE, View(O).tx[t].current, S))
<1>1. Observed(t)' = Tx(TRUE, View(O).tx[t].current, S)
    BY ViewIs DEF Observed, Tx, Inv
<1>2. \A u \in O \ {t} : Observed(u)' = Observed(u)
    BY DEF Observed, Inv
<1> QED
    BY <1>1, <1>2, ViewMoves

LEMMA EndView ==
    ASSUME Inv, NEW O \in SUBSET Txs, NEW t \in O, NEW how, Ends(t, how),
           UNCHANGED <<version, quads>>
    PROVE  View(O)' = Moves(View(O), t, Closed)
<1>1. Observed(t)' = Closed
    BY DEF Observed, Closed, Inv, Ends, NoTx
<1>2. \A u \in O \ {t} : Observed(u)' = Observed(u)
    BY DEF Observed, Inv, Ends
<1> QED
    BY <1>1, <1>2, ViewMoves

LEMMA CommitView ==
    ASSUME Inv, NEW O \in SUBSET Txs, NEW t \in O, Commit(t)
    PROVE  View(O)' = Commits(View(O), t, tx[t].working)
<1>1. Observed(t)' = Closed
    BY DEF Observed, Closed, Inv, Ends, NoTx, Commit
<1>2. ASSUME NEW u \in O \ {t} PROVE Observed(u)' = Stale(Observed(u))
  <2>1. tx'[u] = tx[u] /\ version' = version + 1 /\ version \in Nat /\ tx[u].base_version \in Nat
      BY DEF Commit, Ends, Inv
  <2>2. tx[u].open => tx[u].base_version =< version
      BY DEF Inv, VersionTellsChange
  <2>3. ~ (tx'[u].open /\ tx'[u].base_version = version')
      BY <2>1, <2>2
  <2> QED
      BY <2>1, <2>3 DEF Observed, Stale
<1>3. quads' = tx[t].working
    BY DEF Commit
<1> QED
    BY <1>1, <1>2, <1>3 DEF View, Commits

\* A call that reads changes nothing.
LEMMA ReadsView ==
    ASSUME NEW O, NEW c, NEW result, Reads(c, result), result \in c.accepts
    PROVE  View(O)' = View(O) /\ wrong' = wrong /\ [Next]_vars
<1>1. UNCHANGED vars
    BY DEF Reads
<1>2. View(O)' = View(O)
    BY <1>1 DEF View, Observed, vars
<1> QED
    BY <1>1, <1>2 DEF Reads, Returned

\* What insert, remove and contains tell is their result.
LEMMA ToldIs ==
    ASSUME Inv, NEW c, c.tx \in Txs, NEW op, NEW result \in BOOLEAN,
           CopyIsReplay,
           op \in Operations, c.quad \in Quads,
           Returns(c.tx, op, c.quad, result), Told(c)
    PROVE  C!Bit(result) \in c.accepts => wrong' = wrong
<1> DEFINE entry == [op |-> op, quad |-> c.quad, result |-> result]
<1>1. log'[c.tx] = Append(log[c.tx], entry)
    BY DEF Returns, CopyIsReplay
<1>2. log[c.tx] \in Seq(Calls(Quads))
    BY DEF CopyIsReplay
<1>3. entry \in Calls(Quads) /\ entry.result = result
    BY DEF Calls
<1> HIDE DEF entry
<1>4. log'[c.tx][Len(log'[c.tx])] = entry
    BY <1>1, <1>2, <1>3
<1> QED
    BY <1>3, <1>4, Zenon DEF Told, Returned

\* What a check is told by a call on a view that it accepts, and what it is not.
LEMMA CallView ==
    ASSUME Inv, CopyIsReplay, NEW O \in SUBSET Txs, NEW c, Performs(c),
           NEW W, Does(View(O), c, W)
    PROVE  View(O)' = W /\ wrong' = wrong /\ [Next]_vars
<1> DEFINE t == c.tx
           V == View(O)
<1>1. t \in O => /\ t \in Txs /\ V.store = quads /\ DOMAIN V.tx = O
                 /\ V.tx[t].writable = tx[t].writable
                 /\ V.tx[t].current = (tx[t].open /\ tx[t].base_version = version)
                 /\ V.tx[t].working = tx[t].working
    BY ViewIs
<1>2. V.store = quads /\ DOMAIN V.tx = O
    BY DEF View
<1>3. t \in O => (tx[t].writable => tx[t].open) /\ tx[t].writable \in BOOLEAN
    BY DEF Inv
<1> HIDE DEF V
<1>4. CASE c.op \in {"begin_read", "begin_write"}
  <2>1. t \in O /\ "ok" \in c.accepts /\ W = Moves(V, t, Tx(c.op = "begin_write", TRUE, quads))
      BY <1>2, <1>4 DEF Does, V
  <2>2. Begin(t, c.op = "begin_write") /\ Returned("ok", c)
      BY <1>4 DEF Performs, BeginRead, BeginWrite
  <2>3. V' = W
      BY <2>1, <2>2, BeginView DEF V
  <2>4. Next
      BY <1>1, <1>4, <2>1, <2>2 DEF Next, Transaction, BeginRead, BeginWrite
  <2> QED
      BY <2>1, <2>2, <2>3, <2>4 DEF Returned, V
<1>5. CASE c.op = "insert" /\ V.tx[t].writable
  <2> DEFINE new == c.quad \notin tx[t].working
  <2>1. /\ t \in O /\ c.quad \in Quads /\ C!Bit(new) \in c.accepts
        /\ W = Moves(V, t, Tx(TRUE, V.tx[t].current, tx[t].working \cup {c.quad}))
      BY <1>1, <1>2, <1>5 DEF Does, V
  <2>2. Insert(t, c.quad) /\ Told(c)
      BY <1>1, <1>5, <2>1 DEF Performs
  <2>3. wrong' = wrong
    <3>1. Returns(t, "insert", c.quad, new) /\ new \in BOOLEAN
        BY <2>2 DEF Insert
    <3> HIDE DEF new
    <3> QED
        BY <1>1, <2>1, <2>2, <3>1, ToldIs DEF Operations
  <2>4. V' = W
    <3>1. /\ tx[t].open /\ tx[t].writable /\ UNCHANGED <<version, quads>>
          /\ tx' = [tx EXCEPT ![t].working = tx[t].working \cup {c.quad}]
        BY <1>1, <2>1, <2>2 DEF Insert, Returns, Inv
    <3> QED
        BY <2>1, <3>1, WorkView DEF V
  <2>5. Next
      BY <1>1, <2>1, <2>2 DEF Next, Transaction
  <2> QED
      BY <2>3, <2>4, <2>5 DEF V
<1>6. CASE c.op = "remove" /\ V.tx[t].writable
  <2> DEFINE there == c.quad \in tx[t].working
  <2>1. /\ t \in O /\ c.quad \in Quads /\ C!Bit(there) \in c.accepts
        /\ W = Moves(V, t, Tx(TRUE, V.tx[t].current, tx[t].working \ {c.quad}))
      BY <1>1, <1>2, <1>6 DEF Does, V
  <2>2. Remove(t, c.quad) /\ Told(c)
      BY <1>1, <1>6, <2>1 DEF Performs
  <2>3. wrong' = wrong
    <3>1. Returns(t, "remove", c.quad, there) /\ there \in BOOLEAN
        BY <2>2 DEF Remove
    <3> HIDE DEF there
    <3> QED
        BY <1>1, <2>1, <2>2, <3>1, ToldIs DEF Operations
  <2>4. V' = W
    <3>1. /\ tx[t].open /\ tx[t].writable /\ UNCHANGED <<version, quads>>
          /\ tx' = [tx EXCEPT ![t].working = tx[t].working \ {c.quad}]
        BY <1>1, <2>1, <2>2 DEF Remove, Returns, Inv
    <3> QED
        BY <2>1, <3>1, WorkView DEF V
  <2>5. Next
      BY <1>1, <2>1, <2>2 DEF Next, Transaction
  <2> QED
      BY <2>3, <2>4, <2>5 DEF V
<1>7. CASE c.op \in {"insert", "remove"} /\ ~V.tx[t].writable
  <2>1. t \in O /\ "error" \in c.accepts /\ W = V
      BY <1>2, <1>7 DEF Does, V
  <2>2. Reads(c, "error")
      BY <1>1, <1>7, <2>1 DEF Performs, Insert, Remove
  <2> QED
      BY <2>1, <2>2, ReadsView DEF V
<1>8. CASE c.op = "contains"
  <2> DEFINE there == c.quad \in tx[t].working
  <2>1. t \in O /\ c.quad \in Quads /\ C!Bit(there) \in c.accepts /\ W = V
      BY <1>1, <1>2, <1>8 DEF Does, V
  <2>2. Contains(t, c.quad) /\ Told(c)
      BY <1>8 DEF Performs
  <2>3. wrong' = wrong
    <3>1. Returns(t, "contains", c.quad, there) /\ there \in BOOLEAN
        BY <2>2 DEF Contains
    <3> HIDE DEF there
    <3> QED
        BY <1>1, <2>1, <2>2, <3>1, ToldIs DEF Operations
  <2>4. V' = V
      BY <2>2 DEF Contains, Returns, V, View, Observed
  <2>5. Next
      BY <1>1, <2>1, <2>2 DEF Next, Transaction
  <2> QED
      BY <2>1, <2>3, <2>4, <2>5 DEF V
<1>9. CASE c.op = "scan"
  <2>1. W = V /\ quads_for_pattern(t, c.pattern) \in c.accepts
      BY <1>1, <1>2, <1>9 DEF Does, V, quads_for_pattern
  <2>2. Reads(c, quads_for_pattern(t, c.pattern))
      BY <1>9 DEF Performs
  <2> QED
      BY <2>1, <2>2, ReadsView DEF V
<1>10. CASE c.op = "commit" /\ V.tx[t].writable
  <2>1. /\ t \in O /\ "ok" \in c.accepts /\ W = Commits(V, t, tx[t].working)
        /\ version = tx[t].base_version
      BY <1>1, <1>2, <1>10 DEF Does, V
  <2>2. Commit(t) /\ Returned("ok", c)
      BY <1>1, <1>10, <2>1 DEF Performs, Conflict
  <2>3. V' = W
      BY <2>1, <2>2, CommitView DEF V
  <2>4. Next
      BY <1>1, <2>1, <2>2 DEF Next, Transaction
  <2> QED
      BY <2>1, <2>2, <2>3, <2>4 DEF Returned, V
<1>11. CASE \/ c.op = "commit" /\ ~V.tx[t].writable
            \/ c.op \in {"rollback", "drop"}
  <2>1. t \in O /\ "ok" \in c.accepts /\ W = Moves(V, t, Closed)
      BY <1>2, <1>11 DEF Does, V
  <2>2. Rollback(t) /\ Returned("ok", c)
      BY <1>1, <1>11, <2>1 DEF Performs, Commit, Conflict
  <2>3. V' = W
      BY <2>1, <2>2, EndView DEF V, Rollback
  <2>4. Next
      BY <1>1, <2>1, <2>2 DEF Next, Transaction
  <2> QED
      BY <2>1, <2>2, <2>3, <2>4 DEF Returned, V
<1>12. CASE c.op = "quad_count"
  <2>1. W = V /\ quad_count \in c.accepts
      BY <1>2, <1>12 DEF Does, V, quad_count
  <2>2. Reads(c, quad_count)
      BY <1>12 DEF Performs
  <2> QED
      BY <2>1, <2>2, ReadsView DEF V
<1>13. CASE c.op = "named_graphs"
  <2>1. W = V /\ named_graphs \in c.accepts
      BY <1>2, <1>13 DEF Does, V, named_graphs
  <2>2. Reads(c, named_graphs)
      BY <1>13 DEF Performs
  <2> QED
      BY <2>1, <2>2, ReadsView DEF V
<1> QED
    BY <1>4, <1>5, <1>6, <1>7, <1>8, <1>9, <1>10, <1>11, <1>12, <1>13 DEF Does, V

\* The views from call to call of a script, all of whose calls are accepted.
IsRun(ann, V, s, W) ==
    /\ ann = [i \in 0 .. Len(s) |-> ann[i]]
    /\ ann[0] = V /\ ann[Len(s)] = W
    /\ \A i \in 1 .. Len(s) : Does(ann[i - 1], s[i], ann[i])

IsList(s) == s \in Seq({s[i] : i \in DOMAIN s})

Runs(V, s, W) == IsList(s) /\ \E ann : IsRun(ann, V, s, W)

LEMMA ListIs ==
    ASSUME NEW s
    PROVE  IsList(s) <=> \E n \in Nat : s = [i \in 1 .. n |-> s[i]]
<1>1. ASSUME IsList(s) PROVE \E n \in Nat : s = [i \in 1 .. n |-> s[i]]
  <2>1. Len(s) \in Nat /\ s = [i \in 1 .. Len(s) |-> s[i]]
    <3> DEFINE T == {s[i] : i \in DOMAIN s}
    <3>1. s \in Seq(T)
        BY <1>1 DEF IsList
    <3> HIDE DEF T
    <3> QED
        BY <3>1
  <2> QED
      BY <2>1
<1>2. ASSUME NEW n \in Nat, s = [i \in 1 .. n |-> s[i]] PROVE IsList(s)
  <2> DEFINE T == {s[i] : i \in DOMAIN s}
  <2>1. DOMAIN s = 1 .. n /\ \A i \in 1 .. n : s[i] \in T
      BY <1>2
  <2> HIDE DEF T
  <2>2. s \in Seq(T)
      BY <1>2, <2>1
  <2> QED
      BY <2>2 DEF IsList, T
<1> QED
    BY <1>1, <1>2

LEMMA ListLen ==
    ASSUME NEW s, NEW n \in Nat, s = [i \in 1 .. n |-> s[i]]
    PROVE  IsList(s) /\ Len(s) = n
<1>1. IsList(s)
    BY ListIs
<1> DEFINE T == {s[i] : i \in DOMAIN s}
<1>2. s \in Seq(T) /\ DOMAIN s = 1 .. n
    BY <1>1 DEF IsList
<1> HIDE DEF T
<1> QED
    BY <1>1, <1>2

LEMMA ListSum ==
    ASSUME NEW s, NEW t, IsList(s), IsList(t)
    PROVE  /\ Len(s) \in Nat /\ Len(t) \in Nat
           /\ IsList(s \o t) /\ Len(s \o t) = Len(s) + Len(t)
           /\ \A i \in 1 .. Len(s) : (s \o t)[i] = s[i]
           /\ \A i \in 1 .. Len(t) : (s \o t)[Len(s) + i] = t[i]
<1> DEFINE A == {s[i] : i \in DOMAIN s}
           B == {t[i] : i \in DOMAIN t}
           T == A \cup B
<1>1. s \in Seq(A) /\ t \in Seq(B) /\ A \subseteq T /\ B \subseteq T
    BY DEF IsList
<1> HIDE DEF A, B, T
<1>2. s \in Seq(T) /\ t \in Seq(T)
    BY <1>1
<1>3. /\ Len(s) \in Nat /\ Len(t) \in Nat /\ s \o t \in Seq(T) /\ Len(s \o t) = Len(s) + Len(t)
      /\ \A i \in 1 .. Len(s) : (s \o t)[i] = s[i]
      /\ \A i \in 1 .. Len(t) : (s \o t)[Len(s) + i] = t[i]
    BY <1>2
<1>4. IsList(s \o t)
  <2> DEFINE st == s \o t
             n == Len(s) + Len(t)
  <2>1. st \in Seq(T) /\ Len(st) = n /\ n \in Nat
      BY <1>3
  <2> HIDE DEF st, n
  <2>2. st = [i \in 1 .. n |-> st[i]]
      BY <2>1
  <2>3. IsList(st)
      BY <2>1, <2>2, ListLen
  <2> QED
      BY <2>3 DEF st
<1> QED
    BY <1>3, <1>4

\* One script after another.
LEMMA RunsBoth ==
    ASSUME NEW V, NEW W, NEW X, NEW s, NEW t, Runs(V, s, W), Runs(W, t, X)
    PROVE  Runs(V, s \o t, X)
<1>1. IsList(s) /\ IsList(t)
    BY DEF Runs
<1>2. PICK a : IsRun(a, V, s, W)
    BY DEF Runs
<1>3. PICK b : IsRun(b, W, t, X)
    BY DEF Runs
<1> DEFINE m == Len(s)
           n == Len(t)
           st == s \o t
           ann == [i \in 0 .. m + n |-> IF i =< m THEN a[i] ELSE b[i - m]]
<1>4. /\ m \in Nat /\ n \in Nat /\ IsList(st) /\ Len(st) = m + n
      /\ \A i \in 1 .. m : st[i] = s[i]
      /\ \A i \in 1 .. n : st[m + i] = t[i]
    BY <1>1, ListSum
<1>5. /\ a[0] = V /\ a[m] = W /\ \A i \in 1 .. m : Does(a[i - 1], s[i], a[i])
      /\ b[0] = W /\ b[n] = X /\ \A i \in 1 .. n : Does(b[i - 1], t[i], b[i])
    BY <1>2, <1>3 DEF IsRun
<1> HIDE DEF m, n, st
<1>6. ann[0] = V /\ ann[m + n] = X
    BY <1>4, <1>5
<1>7. \A i \in 0 .. m : ann[i] = a[i]
    BY <1>4
<1>8. ASSUME NEW i \in 0 .. n PROVE ann[m + i] = b[i]
  <2>1. m + i \in 0 .. m + n /\ (m + i) - m = i /\ (m + i =< m => i = 0 /\ m + i = m)
      BY <1>4
  <2> QED
      BY <1>5, <2>1
<1>9. ASSUME NEW i \in 1 .. m + n PROVE Does(ann[i - 1], st[i], ann[i])
  <2> HIDE DEF ann
  <2>1. CASE i =< m
    <3>1. i \in 1 .. m /\ i \in 0 .. m /\ i - 1 \in 0 .. m
        BY <1>4, <2>1
    <3> QED
        BY <1>4, <1>5, <1>7, <3>1
  <2>2. CASE i > m
    <3> DEFINE j == i - m
    <3>1. j \in 1 .. n /\ j \in 0 .. n /\ j - 1 \in 0 .. n /\ m + j = i /\ m + (j - 1) = i - 1
        BY <1>4, <2>2
    <3> HIDE DEF j
    <3>2. st[i] = t[j] /\ ann[i] = b[j] /\ ann[i - 1] = b[j - 1]
        BY <1>4, <1>8, <3>1
    <3> QED
        BY <1>5, <3>1, <3>2
  <2> QED
      BY <1>4, <2>1, <2>2
<1>10. IsRun(ann, V, st, X)
  <2>1. ann = [i \in 0 .. Len(st) |-> ann[i]]
      BY <1>4
  <2> HIDE DEF ann
  <2> QED
      BY <1>4, <1>6, <1>9, <2>1 DEF IsRun
<1> HIDE DEF ann
<1>11. Runs(V, st, X)
    BY <1>4, <1>10, Zenon DEF Runs
<1> QED
    BY <1>11 DEF st

\* A script whose views are known.
LEMMA RunsAlong ==
    ASSUME NEW n \in Nat, NEW s, s = [i \in 1 .. n |-> s[i]],
           NEW ann, ann = [i \in 0 .. n |-> ann[i]],
           \A i \in 1 .. n : Does(ann[i - 1], s[i], ann[i])
    PROVE  Runs(ann[0], s, ann[n])
<1>1. IsList(s) /\ Len(s) = n
    BY ListLen
<1>2. IsRun(ann, ann[0], s, ann[n])
    BY <1>1 DEF IsRun
<1> QED
    BY <1>1, <1>2, Zenon DEF Runs

LEMMA RunsNothing == \A V : Runs(V, <<>>, V)
<1> SUFFICES ASSUME NEW V PROVE Runs(V, <<>>, V)
    OBVIOUS
<1> DEFINE ann == [i \in 0 .. 0 |-> V]
           s == <<>>
<1>1. 0 \in Nat /\ s = [i \in 1 .. 0 |-> s[i]]
    OBVIOUS
<1>2. ann = [i \in 0 .. 0 |-> ann[i]] /\ ann[0] = V
    OBVIOUS
<1>3. \A i \in 1 .. 0 : Does(ann[i - 1], s[i], ann[i])
    OBVIOUS
<1> HIDE DEF ann, s
<1>4. Runs(ann[0], s, ann[0])
    BY <1>1, <1>2, <1>3, RunsAlong
<1> QED
    BY <1>2, <1>4 DEF s

LEMMA RunsOne ==
    ASSUME NEW V, NEW c, NEW W, Does(V, c, W)
    PROVE  Runs(V, <<c>>, W)
<1> DEFINE ann == [i \in 0 .. 1 |-> IF i = 0 THEN V ELSE W]
           s == <<c>>
<1>1. 1 \in Nat /\ s = [i \in 1 .. 1 |-> s[i]] /\ s[1] = c
    OBVIOUS
<1>2. ann = [i \in 0 .. 1 |-> ann[i]] /\ ann[0] = V /\ ann[1] = W
    OBVIOUS
<1> HIDE DEF ann, s
<1>3. \A i \in 1 .. 1 : Does(ann[i - 1], s[i], ann[i])
    BY <1>1, <1>2
<1>4. Runs(ann[0], s, ann[1])
    BY <1>1, <1>2, <1>3, RunsAlong
<1> QED
    BY <1>2, <1>4 DEF s

\* One call more.
LEMMA RunsThen ==
    ASSUME NEW V, NEW W, NEW X, NEW s, NEW c, Runs(V, s, W), Does(W, c, X)
    PROVE  Runs(V, s \o <<c>>, X)
BY RunsOne, RunsBoth

LEMMA RunsTwo ==
    ASSUME NEW V0, NEW V1, NEW V2, NEW a, NEW b, Does(V0, a, V1), Does(V1, b, V2)
    PROVE  Runs(V0, <<a, b>>, V2)
<1> DEFINE ann == [i \in 0 .. 2 |-> IF i = 0 THEN V0 ELSE IF i = 1 THEN V1 ELSE V2]
           s == <<a, b>>
<1>1. 2 \in Nat /\ s = [i \in 1 .. 2 |-> s[i]] /\ s[1] = a /\ s[2] = b
    OBVIOUS
<1>2. ann = [i \in 0 .. 2 |-> ann[i]] /\ ann[0] = V0 /\ ann[1] = V1 /\ ann[2] = V2
    OBVIOUS
<1> HIDE DEF ann, s
<1>3. ASSUME NEW i \in 1 .. 2 PROVE Does(ann[i - 1], s[i], ann[i])
  <2>1. (i = 1 /\ i - 1 = 0) \/ (i = 2 /\ i - 1 = 1)
      OBVIOUS
  <2> QED
      BY <1>1, <1>2, <2>1, Zenon
<1>4. Runs(ann[0], s, ann[2])
    BY <1>1, <1>2, <1>3, RunsAlong
<1> QED
    BY <1>2, <1>4 DEF s

LEMMA RunsThree ==
    ASSUME NEW V0, NEW V1, NEW V2, NEW V3, NEW a, NEW b, NEW c,
           Does(V0, a, V1), Does(V1, b, V2), Does(V2, c, V3)
    PROVE  Runs(V0, <<a, b, c>>, V3)
<1> DEFINE ann == [i \in 0 .. 3 |-> IF i = 0 THEN V0 ELSE IF i = 1 THEN V1
                                    ELSE IF i = 2 THEN V2 ELSE V3]
           s == <<a, b, c>>
<1>1. 3 \in Nat /\ s = [i \in 1 .. 3 |-> s[i]] /\ s[1] = a /\ s[2] = b /\ s[3] = c
    OBVIOUS
<1>2. /\ ann = [i \in 0 .. 3 |-> ann[i]]
      /\ ann[0] = V0 /\ ann[1] = V1 /\ ann[2] = V2 /\ ann[3] = V3
    OBVIOUS
<1> HIDE DEF ann, s
<1>3. ASSUME NEW i \in 1 .. 3 PROVE Does(ann[i - 1], s[i], ann[i])
  <2>1. (i = 1 /\ i - 1 = 0) \/ (i = 2 /\ i - 1 = 1) \/ (i = 3 /\ i - 1 = 2)
      OBVIOUS
  <2> QED
      BY <1>1, <1>2, <2>1, Zenon
<1>4. Runs(ann[0], s, ann[3])
    BY <1>1, <1>2, <1>3, RunsAlong
<1> QED
    BY <1>2, <1>4 DEF s

LEMMA RunsFive ==
    ASSUME NEW V0, NEW V1, NEW V2, NEW V3, NEW V4, NEW V5, NEW a, NEW b, NEW c, NEW d, NEW e,
           Does(V0, a, V1), Does(V1, b, V2), Does(V2, c, V3), Does(V3, d, V4), Does(V4, e, V5)
    PROVE  Runs(V0, <<a, b, c, d, e>>, V5)
<1> DEFINE ann == [i \in 0 .. 5 |-> IF i = 0 THEN V0 ELSE IF i = 1 THEN V1 ELSE IF i = 2 THEN V2
                                    ELSE IF i = 3 THEN V3 ELSE IF i = 4 THEN V4 ELSE V5]
           s == <<a, b, c, d, e>>
<1>1. /\ 5 \in Nat /\ s = [i \in 1 .. 5 |-> s[i]]
      /\ s[1] = a /\ s[2] = b /\ s[3] = c /\ s[4] = d /\ s[5] = e
    OBVIOUS
<1>2. /\ ann = [i \in 0 .. 5 |-> ann[i]]
      /\ ann[0] = V0 /\ ann[1] = V1 /\ ann[2] = V2 /\ ann[3] = V3 /\ ann[4] = V4 /\ ann[5] = V5
    OBVIOUS
<1> HIDE DEF ann, s
<1>3. ASSUME NEW i \in 1 .. 5 PROVE Does(ann[i - 1], s[i], ann[i])
  <2>1. \/ i = 1 /\ i - 1 = 0
        \/ i = 2 /\ i - 1 = 1
        \/ i = 3 /\ i - 1 = 2
        \/ i = 4 /\ i - 1 = 3
        \/ i = 5 /\ i - 1 = 4
      OBVIOUS
  <2> QED
      BY <1>1, <1>2, <2>1, Zenon
<1>4. Runs(ann[0], s, ann[5])
    BY <1>1, <1>2, <1>3, RunsAlong
<1> QED
    BY <1>2, <1>4 DEF s

LEMMA RunsSix ==
    ASSUME NEW V0, NEW V1, NEW V2, NEW V3, NEW V4, NEW V5, NEW V6,
           NEW a, NEW b, NEW c, NEW d, NEW e, NEW f,
           Does(V0, a, V1), Does(V1, b, V2), Does(V2, c, V3), Does(V3, d, V4), Does(V4, e, V5),
           Does(V5, f, V6)
    PROVE  Runs(V0, <<a, b, c, d, e, f>>, V6)
<1> DEFINE ann == [i \in 0 .. 6 |-> IF i = 0 THEN V0 ELSE IF i = 1 THEN V1 ELSE IF i = 2 THEN V2
                                    ELSE IF i = 3 THEN V3 ELSE IF i = 4 THEN V4
                                    ELSE IF i = 5 THEN V5 ELSE V6]
           s == <<a, b, c, d, e, f>>
<1>1. /\ 6 \in Nat /\ s = [i \in 1 .. 6 |-> s[i]]
      /\ s[1] = a /\ s[2] = b /\ s[3] = c /\ s[4] = d /\ s[5] = e /\ s[6] = f
    OBVIOUS
<1>2. /\ ann = [i \in 0 .. 6 |-> ann[i]]
      /\ ann[0] = V0 /\ ann[1] = V1 /\ ann[2] = V2 /\ ann[3] = V3 /\ ann[4] = V4
      /\ ann[5] = V5 /\ ann[6] = V6
    OBVIOUS
<1> HIDE DEF ann, s
<1>3. ASSUME NEW i \in 1 .. 6 PROVE Does(ann[i - 1], s[i], ann[i])
  <2>1. \/ i = 1 /\ i - 1 = 0
        \/ i = 2 /\ i - 1 = 1
        \/ i = 3 /\ i - 1 = 2
        \/ i = 4 /\ i - 1 = 3
        \/ i = 5 /\ i - 1 = 4
        \/ i = 6 /\ i - 1 = 5
      OBVIOUS
  <2> QED
      BY <1>1, <1>2, <2>1, Zenon
<1>4. Runs(ann[0], s, ann[6])
    BY <1>1, <1>2, <1>3, RunsAlong
<1> QED
    BY <1>2, <1>4 DEF s

-----------------------------------------------------------------------------
(* One call, in the view of a transaction *)

LEMMA MovesIs ==
    ASSUME NEW V, NEW t \in DOMAIN V.tx, NEW x
    PROVE  /\ Moves(V, t, x).store = V.store /\ DOMAIN Moves(V, t, x).tx = DOMAIN V.tx
           /\ Moves(V, t, x).tx[t] = x
           /\ \A u \in DOMAIN V.tx : u # t => Moves(V, t, x).tx[u] = V.tx[u]
           /\ \A y : Moves(Moves(V, t, x), t, y) = Moves(V, t, y)
           /\ \A S : Commits(Moves(V, t, x), t, S) = Commits(V, t, S)
BY DEF Moves, Commits

LEMMA TxIs ==
    ASSUME NEW w, NEW k, NEW S
    PROVE  /\ Tx(w, k, S).writable = w /\ Tx(w, k, S).current = k /\ Tx(w, k, S).working = S
           /\ Stale(Tx(w, k, S)) = Tx(w, FALSE, S)
           /\ Stale(Closed) = Closed
BY DEF Tx, Stale, Closed

LEMMA DoesBegin ==
    ASSUME NEW V, NEW t \in DOMAIN V.tx
    PROVE  /\ Does(V, C!BeginWrite(t), Moves(V, t, Tx(TRUE, TRUE, V.store)))
           /\ Does(V, C!BeginRead(t), Moves(V, t, Tx(FALSE, TRUE, V.store)))
<1>1. /\ C!BeginWrite(t).op = "begin_write" /\ C!BeginWrite(t).tx = t
      /\ C!BeginWrite(t).accepts = {"ok"}
      /\ C!BeginRead(t).op = "begin_read" /\ C!BeginRead(t).tx = t
      /\ C!BeginRead(t).accepts = {"ok"}
    BY DEF C!BeginWrite, C!BeginRead, C!Call
<1> QED
    BY <1>1 DEF Does

LEMMA OnIs ==
    ASSUME NEW op, NEW t, NEW q, NEW accepts
    PROVE  /\ C!On(op, t, q, accepts).op = op /\ C!On(op, t, q, accepts).tx = t
           /\ C!On(op, t, q, accepts).quad = q /\ C!On(op, t, q, accepts).accepts = accepts
BY DEF C!On

LEMMA DoesInsert ==
    ASSUME NEW V, NEW t \in DOMAIN V.tx, NEW k, NEW S, NEW q \in Quads, NEW accepts,
           C!Bit(q \notin S) \in accepts
    PROVE  Does(Moves(V, t, Tx(TRUE, k, S)), C!On("insert", t, q, accepts),
                Moves(V, t, Tx(TRUE, k, S \cup {q})))
<1> DEFINE W == Moves(V, t, Tx(TRUE, k, S))
           c == C!On("insert", t, q, accepts)
<1>1. c.op = "insert" /\ c.tx = t /\ c.quad = q /\ c.accepts = accepts
    BY OnIs
<1>2. t \in DOMAIN W.tx /\ W.tx[t] = Tx(TRUE, k, S)
    BY DEF Moves
<1>5. Moves(W, t, Tx(TRUE, k, S \cup {q})) = Moves(V, t, Tx(TRUE, k, S \cup {q}))
    BY DEF Moves
<1> HIDE DEF W, c
<1>3. W.tx[t].writable /\ W.tx[t].current = k /\ W.tx[t].working = S
    BY <1>2 DEF Tx
<1>4. Does(W, c, Moves(W, t, Tx(TRUE, k, S \cup {q})))
    BY <1>1, <1>2, <1>3 DEF Does
<1> QED
    BY <1>4, <1>5 DEF W, c

LEMMA DoesRemove ==
    ASSUME NEW V, NEW t \in DOMAIN V.tx, NEW k, NEW S, NEW q \in Quads, NEW accepts,
           C!Bit(q \in S) \in accepts
    PROVE  Does(Moves(V, t, Tx(TRUE, k, S)), C!On("remove", t, q, accepts),
                Moves(V, t, Tx(TRUE, k, S \ {q})))
<1> DEFINE W == Moves(V, t, Tx(TRUE, k, S))
           c == C!On("remove", t, q, accepts)
<1>1. c.op = "remove" /\ c.tx = t /\ c.quad = q /\ c.accepts = accepts
    BY OnIs
<1>2. t \in DOMAIN W.tx /\ W.tx[t] = Tx(TRUE, k, S)
    BY DEF Moves
<1>5. Moves(W, t, Tx(TRUE, k, S \ {q})) = Moves(V, t, Tx(TRUE, k, S \ {q}))
    BY DEF Moves
<1> HIDE DEF W, c
<1>3. W.tx[t].writable /\ W.tx[t].current = k /\ W.tx[t].working = S
    BY <1>2 DEF Tx
<1>4. Does(W, c, Moves(W, t, Tx(TRUE, k, S \ {q})))
    BY <1>1, <1>2, <1>3 DEF Does
<1> QED
    BY <1>4, <1>5 DEF W, c

\* A transaction that only reads refuses to write.
LEMMA DoesRefuse ==
    ASSUME NEW V, NEW t \in DOMAIN V.tx, ~V.tx[t].writable, NEW op \in {"insert", "remove"}, NEW q
    PROVE  Does(V, C!On(op, t, q, {"error"}), V)
<1> DEFINE c == C!On(op, t, q, {"error"})
<1>1. c.op = op /\ c.tx = t /\ c.accepts = {"error"}
    BY OnIs
<1> HIDE DEF c
<1>2. Does(V, c, V)
    BY <1>1 DEF Does
<1> QED
    BY <1>2 DEF c

LEMMA DoesContains ==
    ASSUME NEW V, NEW t \in DOMAIN V.tx, NEW q \in Quads, NEW accepts,
           C!Bit(q \in V.tx[t].working) \in accepts
    PROVE  Does(V, C!On("contains", t, q, accepts), V)
<1> DEFINE c == C!On("contains", t, q, accepts)
<1>1. c.op = "contains" /\ c.tx = t /\ c.quad = q /\ c.accepts = accepts
    BY OnIs
<1> HIDE DEF c
<1>2. Does(V, c, V)
    BY <1>1 DEF Does
<1> QED
    BY <1>2 DEF c

LEMMA DoesScan ==
    ASSUME NEW V, NEW t \in DOMAIN V.tx, NEW c, c.op = "scan", c.tx = t,
           {q \in V.tx[t].working : matches_pattern(q, c.pattern)} \in c.accepts
    PROVE  Does(V, c, V)
BY DEF Does

LEMMA DoesAllQuads ==
    ASSUME NEW V, NEW t \in DOMAIN V.tx
    PROVE  Does(V, C!all_quads(t, V.tx[t].working), V)
<1> DEFINE S == V.tx[t].working
           c == C!all_quads(t, S)
<1>1. c.op = "scan" /\ c.tx = t /\ c.accepts = {S} /\ c.pattern.bound = {}
    BY DEF C!all_quads, C!Scan, C!Wildcard
<1> HIDE DEF c
<1>2. {q \in S : matches_pattern(q, c.pattern)} = S
    BY <1>1 DEF matches_pattern
<1>3. {q \in S : matches_pattern(q, c.pattern)} \in c.accepts
    BY <1>1, <1>2
<1>4. Does(V, c, V)
    BY <1>1, <1>3, DoesScan
<1> QED
    BY <1>4 DEF c

LEMMA DoesCommit ==
    ASSUME NEW V, NEW t \in DOMAIN V.tx, NEW S
    PROVE  /\ Does(Moves(V, t, Tx(TRUE, TRUE, S)), C!Commit(t), Commits(V, t, S))
           /\ \A k : Does(Moves(V, t, Tx(FALSE, k, S)), C!Commit(t), Moves(V, t, Closed))
<1>1. C!Commit(t).op = "commit" /\ C!Commit(t).tx = t /\ C!Commit(t).accepts = {"ok"}
    BY DEF C!Commit, C!Call
<1>2. Does(Moves(V, t, Tx(TRUE, TRUE, S)), C!Commit(t), Commits(V, t, S))
  <2> DEFINE W == Moves(V, t, Tx(TRUE, TRUE, S))
  <2>1. t \in DOMAIN W.tx /\ W.tx[t] = Tx(TRUE, TRUE, S)
      BY DEF Moves
  <2>4. Commits(W, t, S) = Commits(V, t, S)
      BY DEF Moves, Commits
  <2> HIDE DEF W
  <2>2. W.tx[t].writable /\ W.tx[t].current /\ W.tx[t].working = S
      BY <2>1 DEF Tx
  <2>3. Does(W, C!Commit(t), Commits(W, t, S))
      BY <1>1, <2>1, <2>2 DEF Does
  <2> QED
      BY <2>3, <2>4 DEF W
<1>3. ASSUME NEW k
      PROVE  Does(Moves(V, t, Tx(FALSE, k, S)), C!Commit(t), Moves(V, t, Closed))
  <2> DEFINE W == Moves(V, t, Tx(FALSE, k, S))
  <2>1. t \in DOMAIN W.tx /\ W.tx[t] = Tx(FALSE, k, S)
      BY DEF Moves
  <2>4. Moves(W, t, Closed) = Moves(V, t, Closed)
      BY DEF Moves, Commits
  <2> HIDE DEF W
  <2>2. ~W.tx[t].writable
      BY <2>1 DEF Tx
  <2>3. Does(W, C!Commit(t), Moves(W, t, Closed))
      BY <1>1, <2>1, <2>2 DEF Does
  <2> QED
      BY <2>3, <2>4 DEF W
<1> QED
    BY <1>2, <1>3

LEMMA DoesEnd ==
    ASSUME NEW V, NEW t \in DOMAIN V.tx, NEW x
    PROVE  /\ Does(Moves(V, t, x), C!Rollback(t), Moves(V, t, Closed))
           /\ Does(Moves(V, t, x), C!Drop(t), Moves(V, t, Closed))
<1>1. /\ C!Rollback(t).op = "rollback" /\ C!Rollback(t).tx = t /\ C!Rollback(t).accepts = {"ok"}
      /\ C!Drop(t).op = "drop" /\ C!Drop(t).tx = t /\ C!Drop(t).accepts = {"ok"}
    BY DEF C!Rollback, C!Drop, C!Call
<1> DEFINE W == Moves(V, t, x)
<1>2. t \in DOMAIN W.tx /\ Moves(W, t, Closed) = Moves(V, t, Closed)
    BY DEF Moves
<1> HIDE DEF W
<1>3. Does(W, C!Rollback(t), Moves(W, t, Closed)) /\ Does(W, C!Drop(t), Moves(W, t, Closed))
    BY <1>1, <1>2 DEF Does
<1> QED
    BY <1>2, <1>3 DEF W

LEMMA DoesCount ==
    ASSUME NEW V
    PROVE  /\ Does(V, C!Count(Cardinality(V.store)), V)
           /\ Does(V, C!Graphs(C!graphs_of(V.store)), V)
<1> DEFINE a == C!Count(Cardinality(V.store))
           b == C!Graphs(C!graphs_of(V.store))
<1>1. a.op = "quad_count" /\ a.accepts = {Cardinality(V.store)}
    BY DEF C!Count, C!Call
<1>2. b.op = "named_graphs" /\ b.accepts = {{q.graph : q \in V.store} \ {"default graph"}}
    BY DEF C!Graphs, C!Call, C!graphs_of, C!Default
<1> HIDE DEF a, b
<1>3. Does(V, a, V) /\ Does(V, b, V)
    BY <1>1, <1>2 DEF Does
<1> QED
    BY <1>3 DEF a, b

-----------------------------------------------------------------------------
(* Parts that the checks share *)

\* The first n members of a list.
Front(b, n) == {b[j] : j \in 1 .. n}

LEMMA FrontIs ==
    ASSUME NEW b \in Seq(Quads)
    PROVE  /\ Len(b) \in Nat /\ DOMAIN b = 1 .. Len(b) /\ \A i \in 1 .. Len(b) : b[i] \in Quads
           /\ Front(b, 0) = {} /\ Front(b, Len(b)) = C!Range(b) /\ C!Range(b) \subseteq Quads
           /\ \A i \in 1 .. Len(b) : Front(b, i) = Front(b, i - 1) \cup {b[i]}
<1>1. Len(b) \in Nat /\ DOMAIN b = 1 .. Len(b) /\ \A i \in 1 .. Len(b) : b[i] \in Quads
    OBVIOUS
<1>2. ASSUME NEW i \in 1 .. Len(b) PROVE Front(b, i) = Front(b, i - 1) \cup {b[i]}
  <2>1. \A j : j \in 1 .. i <=> j \in 1 .. i - 1 \/ j = i
      BY <1>1
  <2> QED
      BY <2>1 DEF Front
<1>3. Front(b, 0) = {} /\ Front(b, Len(b)) = C!Range(b)
    BY <1>1 DEF Front, C!Range
<1>4. C!Range(b) \subseteq Quads
    BY <1>1 DEF C!Range
<1> QED
    BY <1>1, <1>2, <1>3, <1>4

LEMMA BitIsDone == \A x : C!Bit(x) \in C!Done
BY DEF C!Bit, C!Done

\* Inserting each quad of a list, and removing each.
LEMMA EachInserts ==
    ASSUME NEW V, NEW t \in DOMAIN V.tx, NEW k, NEW S, NEW b \in Seq(Quads), NEW acc,
           \A i \in 1 .. Len(b) : C!Bit(b[i] \notin S \cup Front(b, i - 1)) \in acc[i]
    PROVE  Runs(Moves(V, t, Tx(TRUE, k, S)), [i \in DOMAIN b |-> C!On("insert", t, b[i], acc[i])],
                Moves(V, t, Tx(TRUE, k, S \cup C!Range(b))))
<1> DEFINE n == Len(b)
           s == [i \in DOMAIN b |-> C!On("insert", t, b[i], acc[i])]
           at(T) == Moves(V, t, Tx(TRUE, k, T))
           ann == [i \in 0 .. n |-> at(S \cup Front(b, i))]
<1>1. /\ n \in Nat /\ DOMAIN b = 1 .. n /\ \A i \in 1 .. n : b[i] \in Quads
      /\ Front(b, 0) = {} /\ Front(b, n) = C!Range(b)
      /\ \A i \in 1 .. n : Front(b, i) = Front(b, i - 1) \cup {b[i]}
    BY FrontIs
<1>2. s = [i \in 1 .. n |-> s[i]] /\ ann = [i \in 0 .. n |-> ann[i]]
    BY <1>1
<1>3. ASSUME NEW i \in 1 .. n PROVE Does(ann[i - 1], s[i], ann[i])
  <2> DEFINE T == S \cup Front(b, i - 1)
  <2>1. b[i] \in Quads /\ C!Bit(b[i] \notin T) \in acc[i]
      BY <1>1
  <2>2. S \cup Front(b, i) = T \cup {b[i]}
      BY <1>1
  <2>3. ann[i - 1] = at(T) /\ ann[i] = at(S \cup Front(b, i))
    <3>1. i - 1 \in 0 .. n /\ i \in 0 .. n
        BY <1>1
    <3> HIDE DEF at
    <3> QED
        BY <3>1
  <2>4. s[i] = C!On("insert", t, b[i], acc[i])
      BY <1>1
  <2> HIDE DEF T, ann, s
  <2>5. Does(at(T), C!On("insert", t, b[i], acc[i]), at(T \cup {b[i]}))
      BY <2>1, DoesInsert, Zenon
  <2> HIDE DEF at
  <2> QED
      BY <2>2, <2>3, <2>4, <2>5
<1>4. ann[0] = at(S) /\ ann[n] = at(S \cup C!Range(b))
  <2>1. S \cup {} = S /\ 0 \in 0 .. n /\ n \in 0 .. n
      BY <1>1
  <2> HIDE DEF at
  <2> QED
      BY <1>1, <2>1
<1> HIDE DEF ann, s, n
<1>5. Runs(ann[0], s, ann[n])
    BY <1>1, <1>2, <1>3, RunsAlong
<1>6. Runs(at(S), s, at(S \cup C!Range(b)))
    BY <1>4, <1>5
<1> QED
    BY <1>6 DEF s

LEMMA EachRemoves ==
    ASSUME NEW V, NEW t \in DOMAIN V.tx, NEW k, NEW S, NEW b \in Seq(Quads), NEW acc,
           \A i \in 1 .. Len(b) : C!Bit(b[i] \in S \ Front(b, i - 1)) \in acc[i]
    PROVE  Runs(Moves(V, t, Tx(TRUE, k, S)), [i \in DOMAIN b |-> C!On("remove", t, b[i], acc[i])],
                Moves(V, t, Tx(TRUE, k, S \ C!Range(b))))
<1> DEFINE n == Len(b)
           s == [i \in DOMAIN b |-> C!On("remove", t, b[i], acc[i])]
           at(T) == Moves(V, t, Tx(TRUE, k, T))
           ann == [i \in 0 .. n |-> at(S \ Front(b, i))]
<1>1. /\ n \in Nat /\ DOMAIN b = 1 .. n /\ \A i \in 1 .. n : b[i] \in Quads
      /\ Front(b, 0) = {} /\ Front(b, n) = C!Range(b)
      /\ \A i \in 1 .. n : Front(b, i) = Front(b, i - 1) \cup {b[i]}
    BY FrontIs
<1>2. s = [i \in 1 .. n |-> s[i]] /\ ann = [i \in 0 .. n |-> ann[i]]
    BY <1>1
<1>3. ASSUME NEW i \in 1 .. n PROVE Does(ann[i - 1], s[i], ann[i])
  <2> DEFINE T == S \ Front(b, i - 1)
  <2>1. b[i] \in Quads /\ C!Bit(b[i] \in T) \in acc[i]
      BY <1>1
  <2>2. S \ Front(b, i) = T \ {b[i]}
      BY <1>1
  <2>3. ann[i - 1] = at(T) /\ ann[i] = at(S \ Front(b, i))
    <3>1. i - 1 \in 0 .. n /\ i \in 0 .. n
        BY <1>1
    <3> HIDE DEF at
    <3> QED
        BY <3>1
  <2>4. s[i] = C!On("remove", t, b[i], acc[i])
      BY <1>1
  <2> HIDE DEF T, ann, s
  <2>5. Does(at(T), C!On("remove", t, b[i], acc[i]), at(T \ {b[i]}))
      BY <2>1, DoesRemove, Zenon
  <2> HIDE DEF at
  <2> QED
      BY <2>2, <2>3, <2>4, <2>5
<1>4. ann[0] = at(S) /\ ann[n] = at(S \ C!Range(b))
  <2>1. S \ {} = S /\ 0 \in 0 .. n /\ n \in 0 .. n
      BY <1>1
  <2> HIDE DEF at
  <2> QED
      BY <1>1, <2>1
<1> HIDE DEF ann, s, n
<1>5. Runs(ann[0], s, ann[n])
    BY <1>1, <1>2, <1>3, RunsAlong
<1>6. Runs(at(S), s, at(S \ C!Range(b)))
    BY <1>4, <1>5
<1> QED
    BY <1>6 DEF s

LEMMA AllInserts ==
    ASSUME NEW V, NEW t \in DOMAIN V.tx, NEW k, NEW S, NEW b \in Seq(Quads)
    PROVE  /\ Runs(Moves(V, t, Tx(TRUE, k, S)), C!All("insert", t, b),
                   Moves(V, t, Tx(TRUE, k, S \cup C!Range(b))))
           /\ Runs(Moves(V, t, Tx(TRUE, k, S)), C!All("remove", t, b),
                   Moves(V, t, Tx(TRUE, k, S \ C!Range(b))))
<1> DEFINE acc == [i \in DOMAIN b |-> C!Done]
           calls(op) == [i \in DOMAIN b |-> C!On(op, t, b[i], acc[i])]
<1>1. \A i \in 1 .. Len(b) : acc[i] = C!Done
    BY FrontIs
<1>2. \A op : C!All(op, t, b) = calls(op)
    BY DEF C!All, C!Each
<1> HIDE DEF acc
<1>3. /\ \A i \in 1 .. Len(b) : C!Bit(b[i] \notin S \cup Front(b, i - 1)) \in acc[i]
      /\ \A i \in 1 .. Len(b) : C!Bit(b[i] \in S \ Front(b, i - 1)) \in acc[i]
    BY <1>1, BitIsDone
<1>4. /\ Runs(Moves(V, t, Tx(TRUE, k, S)), calls("insert"), Moves(V, t, Tx(TRUE, k, S \cup C!Range(b))))
      /\ Runs(Moves(V, t, Tx(TRUE, k, S)), calls("remove"), Moves(V, t, Tx(TRUE, k, S \ C!Range(b))))
    BY <1>3, EachInserts, EachRemoves, Zenon
<1> HIDE DEF calls
<1> QED
    BY <1>2, <1>4

LEMMA EachContains ==
    ASSUME NEW V, NEW t \in DOMAIN V.tx, NEW b \in Seq(Quads), NEW acc,
           \A i \in 1 .. Len(b) : C!Bit(b[i] \in V.tx[t].working) \in acc[i]
    PROVE  Runs(V, [i \in DOMAIN b |-> C!On("contains", t, b[i], acc[i])], V)
<1> DEFINE n == Len(b)
           s == [i \in DOMAIN b |-> C!On("contains", t, b[i], acc[i])]
           ann == [i \in 0 .. n |-> V]
<1>1. n \in Nat /\ DOMAIN b = 1 .. n /\ \A i \in 1 .. n : b[i] \in Quads
    BY FrontIs
<1>2. s = [i \in 1 .. n |-> s[i]] /\ ann = [i \in 0 .. n |-> ann[i]]
    BY <1>1
<1>3. ASSUME NEW i \in 1 .. n PROVE Does(ann[i - 1], s[i], ann[i])
  <2>1. ann[i - 1] = V /\ ann[i] = V /\ s[i] = C!On("contains", t, b[i], acc[i])
      BY <1>1
  <2>2. Does(V, C!On("contains", t, b[i], acc[i]), V)
      BY <1>1, DoesContains
  <2> HIDE DEF ann, s
  <2> QED
      BY <2>1, <2>2
<1>4. ann[0] = V /\ ann[n] = V
    BY <1>1
<1> HIDE DEF ann, s, n
<1>5. Runs(ann[0], s, ann[n])
    BY <1>1, <1>2, <1>3, RunsAlong
<1> QED
    BY <1>4, <1>5 DEF s

\* The store holds S, and no transaction of O is open.
Idle(O, S) == [store |-> S, tx |-> [t \in O |-> Closed]]

LEMMA IdleIs ==
    ASSUME NEW O, NEW S, NEW t \in O
    PROVE  /\ t \in DOMAIN Idle(O, S).tx /\ Idle(O, S).store = S
           /\ Moves(Idle(O, S), t, Closed) = Idle(O, S)
           /\ \A T : Commits(Idle(O, S), t, T) = Idle(O, T)
<1>1. t \in DOMAIN Idle(O, S).tx /\ Idle(O, S).store = S
    BY DEF Idle
<1>2. Moves(Idle(O, S), t, Closed) = Idle(O, S)
  <2>1. \A u \in O : (IF u = t THEN Closed ELSE Idle(O, S).tx[u]) = Closed
      BY DEF Idle
  <2>2. Idle(O, S).store = S /\ DOMAIN Idle(O, S).tx = O
      BY DEF Idle
  <2> QED
      BY <2>1, <2>2 DEF Moves, Idle
<1>3. ASSUME NEW T PROVE Commits(Idle(O, S), t, T) = Idle(O, T)
  <2>1. Stale(Closed) = Closed
      BY TxIs
  <2>2. \A u \in O : (IF u = t THEN Closed ELSE Stale(Idle(O, S).tx[u])) = Closed
      BY <2>1 DEF Idle
  <2>3. DOMAIN Idle(O, S).tx = O
      BY DEF Idle
  <2> QED
      BY <2>2, <2>3 DEF Commits, Idle
<1> QED
    BY <1>1, <1>2, <1>3

\* A write transaction that makes the calls s and commits.
LEMMA WriteRuns ==
    ASSUME NEW V, NEW t \in DOMAIN V.tx, NEW s, NEW T,
           Runs(Moves(V, t, Tx(TRUE, TRUE, V.store)), s, Moves(V, t, Tx(TRUE, TRUE, T)))
    PROVE  Runs(V, <<C!BeginWrite(t)>> \o s \o <<C!Commit(t)>>, Commits(V, t, T))
<1>1. Runs(V, <<C!BeginWrite(t)>>, Moves(V, t, Tx(TRUE, TRUE, V.store)))
    BY DoesBegin, RunsOne
<1>2. Does(Moves(V, t, Tx(TRUE, TRUE, T)), C!Commit(t), Commits(V, t, T))
    BY DoesCommit
<1>3. Runs(V, <<C!BeginWrite(t)>> \o s, Moves(V, t, Tx(TRUE, TRUE, T)))
    BY <1>1, RunsBoth
<1> QED
    BY <1>2, <1>3, RunsThen

LEMMA LoadRuns ==
    ASSUME NEW V, NEW t \in DOMAIN V.tx, NEW b \in Seq(Quads)
    PROVE  /\ Runs(V, C!load(t, b), Commits(V, t, V.store \cup C!Range(b)))
           /\ Runs(V, C!unload(t, b), Commits(V, t, V.store \ C!Range(b)))
<1>1. /\ Runs(Moves(V, t, Tx(TRUE, TRUE, V.store)), C!All("insert", t, b),
              Moves(V, t, Tx(TRUE, TRUE, V.store \cup C!Range(b))))
      /\ Runs(Moves(V, t, Tx(TRUE, TRUE, V.store)), C!All("remove", t, b),
              Moves(V, t, Tx(TRUE, TRUE, V.store \ C!Range(b))))
    BY AllInserts
<1> QED
    BY <1>1, WriteRuns DEF C!load, C!unload

LEMMA CommittedRuns ==
    ASSUME NEW V, NEW t \in DOMAIN V.tx
    PROVE  Runs(V, C!committed(t, V.store), Moves(V, t, Closed))
<1> DEFINE R == Moves(V, t, Tx(FALSE, TRUE, V.store))
<1>1. Does(V, C!BeginRead(t), R) /\ Does(R, C!Rollback(t), Moves(V, t, Closed))
    BY DoesBegin, DoesEnd
<1>2. t \in DOMAIN R.tx /\ R.tx[t].working = V.store
    BY DEF Moves, Tx
<1> HIDE DEF R
<1>3. Does(R, C!all_quads(t, V.store), R)
    BY <1>2, DoesAllQuads
<1> QED
    BY <1>1, <1>3, RunsThree DEF C!committed

\* The helpers of the checks, when no transaction is open.
LEMMA IdleRuns ==
    ASSUME NEW O, NEW S, NEW t \in O
    PROVE  /\ \A b \in Seq(Quads) : /\ Runs(Idle(O, S), C!load(t, b), Idle(O, S \cup C!Range(b)))
                                    /\ Runs(Idle(O, S), C!unload(t, b), Idle(O, S \ C!Range(b)))
           /\ Runs(Idle(O, S), C!committed(t, S), Idle(O, S))
<1> DEFINE V == Idle(O, S)
<1>1. t \in DOMAIN V.tx /\ V.store = S /\ Moves(V, t, Closed) = V /\ \A T : Commits(V, t, T) = Idle(O, T)
    BY IdleIs
<1> HIDE DEF V
<1>2. ASSUME NEW b \in Seq(Quads)
      PROVE  Runs(V, C!load(t, b), Idle(O, S \cup C!Range(b))) /\ Runs(V, C!unload(t, b), Idle(O, S \ C!Range(b)))
    BY <1>1, LoadRuns
<1>3. Runs(V, C!committed(t, S), V)
    BY <1>1, CommittedRuns
<1> QED
    BY <1>2, <1>3 DEF V

LEMMA IdleCount ==
    ASSUME NEW O, NEW S
    PROVE  /\ Does(Idle(O, S), C!Count(C!Cardinality(S)), Idle(O, S))
           /\ Does(Idle(O, S), C!Graphs(C!graphs_of(S)), Idle(O, S))
<1>1. Idle(O, S).store = S
    BY DEF Idle
<1>2. C!Cardinality(S) = Cardinality(S)
    BY DEF C!Cardinality, Cardinality
<1> QED
    BY <1>1, <1>2, DoesCount

-----------------------------------------------------------------------------
(* The checks of one thread *)

LEMMA Chain3 ==
    ASSUME NEW V0, NEW V1, NEW V2, NEW V3, NEW a, NEW b, NEW c,
           Runs(V0, a, V1), Runs(V1, b, V2), Runs(V2, c, V3)
    PROVE  Runs(V0, a \o b \o c, V3)
<1>1. Runs(V0, a \o b, V2)
    BY RunsBoth
<1> QED
    BY <1>1, RunsBoth

LEMMA Chain4 ==
    ASSUME NEW V0, NEW V1, NEW V2, NEW V3, NEW V4, NEW a, NEW b, NEW c, NEW d,
           Runs(V0, a, V1), Runs(V1, b, V2), Runs(V2, c, V3), Runs(V3, d, V4)
    PROVE  Runs(V0, a \o b \o c \o d, V4)
<1>1. Runs(V0, a \o b \o c, V3)
    BY Chain3
<1> QED
    BY <1>1, RunsBoth

Fresh == Idle({1, 2}, {})

\* A script, run on a fresh store, is accepted to its last call.
Accepted(s) == \E W : Runs(Fresh, s, W)

LEMMA EmptyStoreAccepted == Accepted(C!empty_store_is_empty)
<1> DEFINE p == <<C!Count(0), C!Graphs({})>>
           q == C!committed(1, {})
<1>1. C!Cardinality({}) = 0 /\ C!graphs_of({}) = {}
  <2>1. C!Cardinality({}) = Cardinality({})
      BY DEF C!Cardinality, Cardinality
  <2> QED
      BY <2>1, FS_EmptySet DEF C!graphs_of
<1>2. Runs(Fresh, p, Fresh)
    BY <1>1, IdleCount, RunsTwo DEF Fresh
<1>3. Runs(Fresh, q, Fresh)
    BY IdleRuns DEF Fresh
<1>4. C!empty_store_is_empty = p \o q
    BY DEF C!empty_store_is_empty
<1> HIDE DEF p, q
<1> QED
    BY <1>2, <1>3, <1>4, RunsBoth DEF Accepted

LEMMA LoadFresh ==
    ASSUME NEW b \in Seq(Quads)
    PROVE  Runs(Fresh, C!load(1, b), Idle({1, 2}, C!Range(b)))
<1>1. {} \cup C!Range(b) = C!Range(b)
    OBVIOUS
<1> QED
    BY <1>1, IdleRuns DEF Fresh

\* What transaction t sees after it began to read, and to write.
Reading(S, t) == Moves(Idle({1, 2}, S), t, Tx(FALSE, TRUE, S))
Writing(S, t, T) == Moves(Idle({1, 2}, S), t, Tx(TRUE, TRUE, T))

LEMMA ReadingIs ==
    ASSUME NEW S, NEW t \in {1, 2}
    PROVE  /\ Does(Idle({1, 2}, S), C!BeginRead(t), Reading(S, t))
           /\ t \in DOMAIN Reading(S, t).tx /\ ~Reading(S, t).tx[t].writable
           /\ Reading(S, t).tx[t].working = S /\ Reading(S, t).store = S
           /\ Does(Reading(S, t), C!Commit(t), Idle({1, 2}, S))
           /\ Does(Reading(S, t), C!Rollback(t), Idle({1, 2}, S))
           /\ Does(Reading(S, t), C!Drop(t), Idle({1, 2}, S))
           /\ Does(Reading(S, t), C!all_quads(t, S), Reading(S, t))
<1> DEFINE V == Idle({1, 2}, S)
<1>1. t \in DOMAIN V.tx /\ V.store = S /\ Moves(V, t, Closed) = V
    BY IdleIs
<1> HIDE DEF V
<1>2. /\ Does(V, C!BeginRead(t), Moves(V, t, Tx(FALSE, TRUE, S)))
      /\ Does(Moves(V, t, Tx(FALSE, TRUE, S)), C!Commit(t), V)
      /\ Does(Moves(V, t, Tx(FALSE, TRUE, S)), C!Rollback(t), V)
      /\ Does(Moves(V, t, Tx(FALSE, TRUE, S)), C!Drop(t), V)
    BY <1>1, DoesBegin, DoesCommit, DoesEnd
<1> DEFINE R == Moves(V, t, Tx(FALSE, TRUE, S))
<1>3. t \in DOMAIN R.tx /\ ~R.tx[t].writable /\ R.tx[t].working = S /\ R.store = S
    BY <1>1 DEF Moves, Tx
<1> HIDE DEF R
<1>4. Does(R, C!all_quads(t, S), R)
    BY <1>3, DoesAllQuads
<1> QED
    BY <1>2, <1>3, <1>4 DEF Reading, R, V

LEMMA WritingIs ==
    ASSUME NEW S, NEW t \in {1, 2}, NEW T
    PROVE  /\ Does(Idle({1, 2}, S), C!BeginWrite(t), Writing(S, t, S))
           /\ t \in DOMAIN Writing(S, t, T).tx /\ Writing(S, t, T).tx[t].working = T
           /\ Writing(S, t, T).store = S
           /\ Does(Writing(S, t, T), C!Commit(t), Idle({1, 2}, T))
           /\ Does(Writing(S, t, T), C!Rollback(t), Idle({1, 2}, S))
           /\ Does(Writing(S, t, T), C!Drop(t), Idle({1, 2}, S))
           /\ Does(Writing(S, t, T), C!all_quads(t, T), Writing(S, t, T))
           /\ \A b \in Seq(Quads) :
                 /\ Runs(Writing(S, t, T), C!All("insert", t, b), Writing(S, t, T \cup C!Range(b)))
                 /\ Runs(Writing(S, t, T), C!All("remove", t, b), Writing(S, t, T \ C!Range(b)))
           /\ \A q \in Quads : \A accepts :
                 /\ C!Bit(q \notin T) \in accepts =>
                       Does(Writing(S, t, T), C!On("insert", t, q, accepts), Writing(S, t, T \cup {q}))
                 /\ C!Bit(q \in T) \in accepts =>
                       Does(Writing(S, t, T), C!On("remove", t, q, accepts), Writing(S, t, T \ {q}))
                 /\ C!Bit(q \in T) \in accepts =>
                       Does(Writing(S, t, T), C!On("contains", t, q, accepts), Writing(S, t, T))
<1> DEFINE V == Idle({1, 2}, S)
           X(A) == Moves(V, t, Tx(TRUE, TRUE, A))
<1>1. t \in DOMAIN V.tx /\ V.store = S /\ Moves(V, t, Closed) = V /\ \A A : Commits(V, t, A) = Idle({1, 2}, A)
    BY IdleIs
<1> HIDE DEF V
<1>2. /\ Does(V, C!BeginWrite(t), X(S)) /\ Does(X(T), C!Commit(t), Idle({1, 2}, T))
      /\ Does(X(T), C!Rollback(t), V) /\ Does(X(T), C!Drop(t), V)
    BY <1>1, DoesBegin, DoesCommit, DoesEnd
<1>3. t \in DOMAIN X(T).tx /\ X(T).tx[t].working = T /\ X(T).store = S
    BY <1>1 DEF Moves, Tx
<1>4. ASSUME NEW b \in Seq(Quads)
      PROVE  /\ Runs(X(T), C!All("insert", t, b), X(T \cup C!Range(b)))
             /\ Runs(X(T), C!All("remove", t, b), X(T \ C!Range(b)))
    BY <1>1, AllInserts
<1>5. ASSUME NEW q \in Quads, NEW accepts
      PROVE  /\ C!Bit(q \notin T) \in accepts =>
                    Does(X(T), C!On("insert", t, q, accepts), X(T \cup {q}))
             /\ C!Bit(q \in T) \in accepts =>
                    Does(X(T), C!On("remove", t, q, accepts), X(T \ {q}))
    BY <1>1, DoesInsert, DoesRemove
<1> HIDE DEF X
<1>6. Does(X(T), C!all_quads(t, T), X(T))
    BY <1>3, DoesAllQuads
<1>7. ASSUME NEW q \in Quads, NEW accepts, C!Bit(q \in T) \in accepts
      PROVE  Does(X(T), C!On("contains", t, q, accepts), X(T))
    BY <1>3, <1>7, DoesContains
<1>8. X(T) = Writing(S, t, T) /\ \A A : X(A) = Writing(S, t, A)
    BY DEF X, V, Writing
<1> QED
    BY <1>2, <1>3, <1>4, <1>5, <1>6, <1>7, <1>8, Zenon DEF V

LEMMA RoundTripAccepted ==
    ASSUME NEW b \in Seq(Quads)
    PROVE  Accepted(C!round_trip(b))
<1> DEFINE S == C!Range(b)
           I == Idle({1, 2}, S)
           R == Reading(S, 1)
           acc == [i \in DOMAIN b |-> {"true"}]
           p1 == C!load(1, b)
           p2 == <<C!BeginRead(1)>>
           p3 == [i \in DOMAIN b |-> C!On("contains", 1, b[i], acc[i])]
           p4 == <<C!all_quads(1, S), C!Rollback(1), C!Count(C!Cardinality(S))>>
<1>1. C!round_trip(b) = p1 \o p2 \o p3 \o p4
    BY DEF C!round_trip, C!Each
<1>2. Runs(Fresh, p1, I)
    BY LoadFresh
<1>3. Runs(I, p2, R) /\ 1 \in DOMAIN R.tx /\ R.tx[1].working = S
    BY ReadingIs, RunsOne
<1>4. Runs(R, p3, R)
  <2>1. DOMAIN b = 1 .. Len(b)
      BY FrontIs
  <2>2. \A i \in 1 .. Len(b) : acc[i] = {"true"} /\ b[i] \in S
      BY <2>1 DEF C!Range
  <2> HIDE DEF acc, R, S
  <2>3. \A i \in 1 .. Len(b) : C!Bit(b[i] \in R.tx[1].working) \in acc[i]
      BY <1>3, <2>2 DEF C!Bit
  <2> QED
      BY <1>3, <2>3, EachContains
<1>5. Runs(R, p4, I)
    BY ReadingIs, IdleCount, RunsThree
<1> HIDE DEF p1, p2, p3, p4, I, R
<1>6. Runs(Fresh, p1 \o p2 \o p3 \o p4, I)
    BY <1>2, <1>3, <1>4, <1>5, Chain4
<1> QED
    BY <1>1, <1>6 DEF Accepted

LEMMA FrontIsSubSeq ==
    ASSUME NEW b \in Seq(Quads), NEW i \in 1 .. Len(b)
    PROVE  C!Range(SubSeq(b, 1, i - 1)) = Front(b, i - 1)
<1>1. SubSeq(b, 1, i - 1) = [j \in 1 .. i - 1 |-> b[j]]
    OBVIOUS
<1> QED
    BY <1>1 DEF C!Range, Front

LEMMA IdempotentInsertAccepted ==
    ASSUME NEW b \in Seq(Quads)
    PROVE  Accepted(C!idempotent_insert(b))
<1> DEFINE S == C!Range(b)
           I == Idle({1, 2}, S)
           new == [i \in DOMAIN b |-> {C!Bit(b[i] \notin C!Range(SubSeq(b, 1, i - 1)))}]
           again == [i \in DOMAIN b |-> {"false"}]
           p1 == <<C!BeginWrite(1)>>
           p2 == [i \in DOMAIN b |-> C!On("insert", 1, b[i], new[i])]
           p3 == <<C!Commit(1)>>
           p4 == C!committed(1, S)
           p5 == [i \in DOMAIN b |-> C!On("insert", 1, b[i], again[i])]
           p6 == <<C!Count(C!Cardinality(S))>>
<1>1. C!idempotent_insert(b) = p1 \o p2 \o p3 \o p4 \o p1 \o p5 \o p3 \o p4 \o p6
  <2>1. p2 = [i \in DOMAIN b |-> C!On("insert", 1, b[i], {C!Bit(b[i] \notin C!Range(SubSeq(b, 1, i - 1)))})]
      OBVIOUS
  <2>2. p5 = [i \in DOMAIN b |-> C!On("insert", 1, b[i], {"false"})]
      OBVIOUS
  <2> HIDE DEF p2, p5
  <2> QED
      BY <2>1, <2>2, Zenon DEF C!idempotent_insert, C!Each
<1>2. DOMAIN b = 1 .. Len(b) /\ \A i \in 1 .. Len(b) : b[i] \in S
    BY FrontIs DEF C!Range
<1>3. /\ Runs(Fresh, p1, Writing({}, 1, {})) /\ Runs(Writing({}, 1, S), p3, I)
      /\ Runs(I, p1, Writing(S, 1, S)) /\ Runs(Writing(S, 1, S), p3, I)
    BY WritingIs, RunsOne DEF Fresh
<1>4. Runs(I, p4, I)
    BY IdleRuns
<1>5. Runs(Writing({}, 1, {}), p2, Writing({}, 1, S))
  <2>1. \A i \in 1 .. Len(b) : C!Bit(b[i] \notin {} \cup Front(b, i - 1)) \in new[i]
      BY <1>2, FrontIsSubSeq
  <2>2. {} \cup S = S /\ 1 \in DOMAIN Idle({1, 2}, {}).tx
      BY IdleIs
  <2> HIDE DEF new, S
  <2>3. Runs(Writing({}, 1, {}), p2, Writing({}, 1, {} \cup C!Range(b)))
      BY <2>1, <2>2, EachInserts DEF Writing
  <2> QED
      BY <2>2, <2>3 DEF S
<1>6. Runs(Writing(S, 1, S), p5, Writing(S, 1, S))
  <2>1. \A i \in 1 .. Len(b) : C!Bit(b[i] \notin S \cup Front(b, i - 1)) \in again[i]
      BY <1>2 DEF C!Bit
  <2>2. S \cup C!Range(b) = S /\ 1 \in DOMAIN Idle({1, 2}, S).tx
      BY IdleIs
  <2> HIDE DEF again, S
  <2>3. Runs(Writing(S, 1, S), p5, Writing(S, 1, S \cup C!Range(b)))
      BY <2>1, <2>2, EachInserts DEF Writing
  <2> QED
      BY <2>2, <2>3
<1>7. Runs(I, p6, I)
    BY IdleCount, RunsOne
<1> HIDE DEF p1, p2, p3, p4, p5, p6, I, S
<1>8. Runs(Fresh, p1 \o p2 \o p3 \o p4, I)
    BY <1>3, <1>4, <1>5, Chain4
<1>9. Runs(Fresh, p1 \o p2 \o p3 \o p4 \o p1 \o p5 \o p3, I)
    BY <1>3, <1>6, <1>8, Chain4
<1>10. Runs(Fresh, p1 \o p2 \o p3 \o p4 \o p1 \o p5 \o p3 \o p4 \o p6, I)
    BY <1>4, <1>7, <1>9, Chain3
<1> QED
    BY <1>1, <1>10 DEF Accepted

LEMMA PatternAccepted ==
    ASSUME NEW b \in Seq(Quads), NEW p
    PROVE  Accepted(C!pattern(b, p))
<1> DEFINE S == C!Range(b)
           R == Reading(S, 1)
           found == {q \in S : C!matches_pattern(q, p)}
           c == C!Scan(1, p, found)
           p1 == C!load(1, b)
           p2 == <<C!BeginRead(1), c, C!Drop(1)>>
<1>1. C!pattern(b, p) = p1 \o p2
    BY DEF C!pattern
<1>2. Runs(Fresh, p1, Idle({1, 2}, S))
    BY LoadFresh
<1>3. 1 \in DOMAIN R.tx /\ R.tx[1].working = S
    BY ReadingIs
<1>4. c.op = "scan" /\ c.tx = 1 /\ c.pattern = p /\ c.accepts = {found}
    BY DEF C!Scan
<1>5. {q \in S : matches_pattern(q, p)} = found
    BY DEF matches_pattern, C!matches_pattern
<1> HIDE DEF c, R, S, found
<1>6. Does(R, c, R)
    BY <1>3, <1>4, <1>5, DoesScan
<1>7. Runs(Idle({1, 2}, S), p2, Idle({1, 2}, S))
    BY <1>6, ReadingIs, RunsThree DEF R
<1> HIDE DEF p1, p2
<1> QED
    BY <1>1, <1>2, <1>7, RunsBoth DEF Accepted

LEMMA PatternFromMemberAccepted ==
    ASSUME NEW b \in Seq(Quads), NEW i \in DOMAIN b, NEW positions
    PROVE  Accepted(C!pattern_from_member(b, b[i], positions))
<1> DEFINE S == C!Range(b)
           R == Reading(S, 1)
           p == C!Like(b[i], positions)
           c == [op |-> "scan", tx |-> 1, pattern |-> p, accepts |-> {A \in SUBSET S : b[i] \in A}]
           p1 == C!load(1, b)
           p2 == <<C!BeginRead(1), c, C!Drop(1)>>
<1>1. C!pattern_from_member(b, b[i], positions) = p1 \o p2
    BY DEF C!pattern_from_member
<1>2. Runs(Fresh, p1, Idle({1, 2}, S))
    BY LoadFresh
<1>3. 1 \in DOMAIN R.tx /\ R.tx[1].working = S
    BY ReadingIs
<1>4. c.op = "scan" /\ c.tx = 1 /\ c.pattern = p /\ c.accepts = {A \in SUBSET S : b[i] \in A}
    OBVIOUS
<1>5. b[i] \in S /\ p.quad = b[i]
    BY DEF C!Range, C!Like
<1> HIDE DEF c, R, S, p
<1>6. {q \in S : matches_pattern(q, p)} \in {A \in SUBSET S : b[i] \in A}
    BY <1>5 DEF matches_pattern
<1>7. Does(R, c, R)
    BY <1>3, <1>4, <1>6, DoesScan
<1>8. Runs(Idle({1, 2}, S), p2, Idle({1, 2}, S))
    BY <1>7, ReadingIs, RunsThree DEF R
<1> HIDE DEF p1, p2
<1> QED
    BY <1>1, <1>2, <1>8, RunsBoth DEF Accepted

LEMMA NamedGraphsAccepted ==
    ASSUME NEW b \in Seq(Quads)
    PROVE  Accepted(C!named_graphs(b))
<1> DEFINE S == C!Range(b)
           p1 == C!load(1, b)
           p2 == <<C!Graphs(C!graphs_of(S))>>
<1>1. C!named_graphs(b) = p1 \o p2
    BY DEF C!named_graphs
<1>2. Runs(Fresh, p1, Idle({1, 2}, S))
    BY LoadFresh
<1>3. Runs(Idle({1, 2}, S), p2, Idle({1, 2}, S))
    BY IdleCount, RunsOne
<1> HIDE DEF p1, p2, S
<1> QED
    BY <1>1, <1>2, <1>3, RunsBoth DEF Accepted

LEMMA DropDiscardsAccepted ==
    ASSUME NEW b \in Seq(Quads), NEW w \in Seq(Quads)
    PROVE  Accepted(C!drop_discards_writes(b, w))
<1> DEFINE S == C!Range(b)
           I == Idle({1, 2}, S)
           T == S \cup C!Range(w)
           p1 == C!load(1, b)
           p2 == C!committed(1, S)
           p3 == <<C!BeginWrite(1)>>
           p4 == C!All("insert", 1, w)
           p5 == C!All("remove", 1, b)
           p6 == <<C!Drop(1)>>
           p7 == <<C!Count(C!Cardinality(S))>>
<1>1. C!drop_discards_writes(b, w) = p1 \o p2 \o p3 \o p4 \o p5 \o p6 \o p2 \o p7
    BY DEF C!drop_discards_writes
<1>2. Runs(Fresh, p1, I)
    BY LoadFresh
<1>3. Runs(I, p2, I)
    BY IdleRuns
<1>4. Runs(I, p3, Writing(S, 1, S)) /\ Runs(Writing(S, 1, T \ S), p6, I)
    BY WritingIs, RunsOne
<1>5. Runs(Writing(S, 1, S), p4, Writing(S, 1, T)) /\ Runs(Writing(S, 1, T), p5, Writing(S, 1, T \ S))
    BY WritingIs
<1>6. Runs(I, p7, I)
    BY IdleCount, RunsOne
<1> HIDE DEF p1, p2, p3, p4, p5, p6, p7, I, S, T
<1>7. Runs(Fresh, p1 \o p2 \o p3 \o p4, Writing(S, 1, T))
    BY <1>2, <1>3, <1>4, <1>5, Chain4
<1>8. Runs(Fresh, p1 \o p2 \o p3 \o p4 \o p5 \o p6 \o p2, I)
    BY <1>3, <1>4, <1>5, <1>7, Chain4
<1>9. Runs(Fresh, p1 \o p2 \o p3 \o p4 \o p5 \o p6 \o p2 \o p7, I)
    BY <1>6, <1>8, RunsBoth
<1> QED
    BY <1>1, <1>9 DEF Accepted

LEMMA TrackRemovalsAccepted ==
    ASSUME NEW b \in Seq(Quads), NEW at \in Marked(b)
    PROVE  Accepted(C!named_graphs_track_removals(b, at))
<1> DEFINE S == C!Range(b)
           removed == [i \in DOMAIN at |-> b[at[i]]]
           T == S \ C!Range(removed)
           p1 == C!load(1, b)
           p2 == C!unload(1, removed)
           p3 == C!committed(1, T)
           p4 == <<C!Graphs(C!graphs_of(T)), C!Count(C!Cardinality(T))>>
<1>1. C!named_graphs_track_removals(b, at) = p1 \o p2 \o p3 \o p4
    BY DEF C!named_graphs_track_removals
<1>2. removed \in Seq(Quads)
  <2>1. PICK n \in Nat : at \in [1 .. n -> DOMAIN b]
    <3>1. Len(b) \in Nat
        BY FrontIs
    <3> QED
        BY <3>1 DEF Marked
  <2>2. DOMAIN b = 1 .. Len(b) /\ \A i \in 1 .. Len(b) : b[i] \in Quads
      BY FrontIs
  <2>3. DOMAIN at = 1 .. n /\ \A i \in 1 .. n : b[at[i]] \in Quads
      BY <2>1, <2>2
  <2> QED
      BY <2>3
<1>3. Runs(Fresh, p1, Idle({1, 2}, S))
    BY LoadFresh
<1> HIDE DEF removed
<1>4. Runs(Idle({1, 2}, S), p2, Idle({1, 2}, T)) /\ Runs(Idle({1, 2}, T), p3, Idle({1, 2}, T))
    BY <1>2, IdleRuns
<1>5. Runs(Idle({1, 2}, T), p4, Idle({1, 2}, T))
    BY IdleCount, RunsTwo
<1> HIDE DEF p1, p2, p3, p4, S, T
<1>6. Runs(Fresh, p1 \o p2 \o p3 \o p4, Idle({1, 2}, T))
    BY <1>3, <1>4, <1>5, Chain4
<1> QED
    BY <1>1, <1>6 DEF Accepted

\* The first of the quads, if there is one.
LEMMA FirstIs ==
    ASSUME NEW b \in Seq(Quads)
    PROVE  /\ C!First(b) \in Seq(Quads) /\ C!Range(C!First(b)) \subseteq C!Range(b)
           /\ b = <<>> => C!First(b) = <<>> /\ C!Range(C!First(b)) = {}
           /\ b # <<>> => /\ C!First(b) = <<b[1]>> /\ C!Range(C!First(b)) = {b[1]}
                          /\ b[1] \in Quads
<1>1. CASE b = <<>>
    BY <1>1 DEF C!First, C!Range
<1>2. CASE b # <<>>
  <2>1. 1 \in DOMAIN b /\ b[1] \in Quads
      BY <1>2
  <2>2. C!Range(<<b[1]>>) = {b[1]} /\ b[1] \in C!Range(b)
      BY <2>1 DEF C!Range
  <2> QED
      BY <1>2, <2>1, <2>2 DEF C!First
<1> QED
    BY <1>1, <1>2

LEMMA EachRefuses ==
    ASSUME NEW V, NEW t \in DOMAIN V.tx, ~V.tx[t].writable, NEW b \in Seq(Quads)
    PROVE  Runs(V, [i \in DOMAIN b |-> C!On("remove", t, b[i], {"error"})], V)
<1> DEFINE n == Len(b)
           s == [i \in DOMAIN b |-> C!On("remove", t, b[i], {"error"})]
           ann == [i \in 0 .. n |-> V]
<1>1. n \in Nat /\ DOMAIN b = 1 .. n
    BY FrontIs
<1>2. s = [i \in 1 .. n |-> s[i]] /\ ann = [i \in 0 .. n |-> ann[i]]
    BY <1>1
<1>3. ASSUME NEW i \in 1 .. n PROVE Does(ann[i - 1], s[i], ann[i])
  <2>1. ann[i - 1] = V /\ ann[i] = V /\ s[i] = C!On("remove", t, b[i], {"error"})
      BY <1>1
  <2>2. Does(V, C!On("remove", t, b[i], {"error"}), V)
      BY DoesRefuse
  <2> HIDE DEF ann, s
  <2> QED
      BY <2>1, <2>2
<1>4. ann[0] = V /\ ann[n] = V
    BY <1>1
<1> HIDE DEF ann, s, n
<1>5. Runs(ann[0], s, ann[n])
    BY <1>1, <1>2, <1>3, RunsAlong
<1> QED
    BY <1>4, <1>5 DEF s

LEMMA ReadOnlyAccepted ==
    ASSUME NEW b \in Seq(Quads), NEW q \in Quads
    PROVE  Accepted(C!read_only_rejects_writes(b, q))
<1> DEFINE S == C!Range(b)
           I == Idle({1, 2}, S)
           R == Reading(S, 1)
           p1 == C!load(1, b)
           p2 == C!committed(1, S)
           p3 == <<C!BeginRead(1), C!On("insert", 1, q, {"error"}), C!On("remove", 1, q, {"error"}),
                   C!On("contains", 1, q, {C!Bit(q \in S)}), C!all_quads(1, S), C!Commit(1)>>
           p4 == <<C!BeginRead(1)>>
           p5 == [i \in DOMAIN C!First(b) |-> C!On("remove", 1, C!First(b)[i], {"error"})]
           p6 == <<C!Rollback(1)>>
<1>1. C!read_only_rejects_writes(b, q) = p1 \o p2 \o p3 \o p2 \o p4 \o p5 \o p6 \o p2
    BY DEF C!read_only_rejects_writes, C!Each
<1>2. Runs(Fresh, p1, I) /\ Runs(I, p2, I)
    BY LoadFresh, IdleRuns
<1>3. /\ Does(I, C!BeginRead(1), R) /\ 1 \in DOMAIN R.tx /\ ~R.tx[1].writable /\ R.tx[1].working = S
      /\ Does(R, C!all_quads(1, S), R) /\ Does(R, C!Commit(1), I) /\ Does(R, C!Rollback(1), I)
    BY ReadingIs
<1> HIDE DEF R, I, S
<1>4. /\ Does(R, C!On("insert", 1, q, {"error"}), R) /\ \A x : Does(R, C!On("remove", 1, x, {"error"}), R)
      /\ Does(R, C!On("contains", 1, q, {C!Bit(q \in S)}), R)
    BY <1>3, DoesRefuse, DoesContains
<1>5. Runs(I, p3, I)
    BY <1>3, <1>4, RunsSix
<1>6. Runs(I, p4, R) /\ Runs(R, p6, I)
    BY <1>3, RunsOne
<1>7. Runs(R, p5, R)
    BY <1>3, FirstIs, EachRefuses
<1> HIDE DEF p1, p2, p3, p4, p5, p6
<1>8. Runs(Fresh, p1 \o p2 \o p3 \o p2, I)
    BY <1>2, <1>5, Chain4
<1>9. Runs(Fresh, p1 \o p2 \o p3 \o p2 \o p4 \o p5 \o p6, I)
    BY <1>6, <1>7, <1>8, Chain4
<1>10. Runs(Fresh, p1 \o p2 \o p3 \o p2 \o p4 \o p5 \o p6 \o p2, I)
    BY <1>2, <1>9, RunsBoth
<1> QED
    BY <1>1, <1>10 DEF Accepted

LEMMA WritesAfterRollbackAccepted ==
    ASSUME NEW a \in Quads, NEW b \in Quads, NEW c \in Quads
    PROVE  Accepted(C!writes_after_rollback(a, b, c))
<1> DEFINE p1 == <<C!BeginWrite(1), C!On("insert", 1, a, C!Done), C!Rollback(1)>>
           p2 == <<C!BeginWrite(1), C!On("insert", 1, b, C!Done), C!Drop(1)>>
           p3 == <<C!BeginWrite(1), C!On("insert", 1, c, {"true"}), C!Commit(1)>>
           p4 == C!committed(1, {c})
           W(T) == Writing({}, 1, T)
<1>1. C!writes_after_rollback(a, b, c) = p1 \o p2 \o p3 \o p4
    BY DEF C!writes_after_rollback
<1>2. /\ Does(Fresh, C!BeginWrite(1), W({}))
      /\ \A T : Does(W(T), C!Rollback(1), Fresh) /\ Does(W(T), C!Drop(1), Fresh)
      /\ \A T : Does(W(T), C!Commit(1), Idle({1, 2}, T))
    BY WritingIs DEF Fresh
<1>3. /\ \A q \in Quads : Does(W({}), C!On("insert", 1, q, C!Done), W({} \cup {q}))
      /\ Does(W({}), C!On("insert", 1, c, {"true"}), W({} \cup {c}))
  <2>1. C!Bit(c \notin {}) = "true"
      BY DEF C!Bit
  <2>2. C!Bit(c \notin {}) \in {"true"}
      BY <2>1
  <2> QED
      BY <2>2, BitIsDone, WritingIs
<1>4. {} \cup {c} = {c}
    OBVIOUS
<1> HIDE DEF W
<1>5. Runs(Fresh, p1, Fresh) /\ Runs(Fresh, p2, Fresh) /\ Runs(Fresh, p3, Idle({1, 2}, {c}))
    BY <1>2, <1>3, <1>4, RunsThree
<1>6. Runs(Idle({1, 2}, {c}), p4, Idle({1, 2}, {c}))
    BY IdleRuns
<1> HIDE DEF p1, p2, p3, p4
<1>7. Runs(Fresh, p1 \o p2 \o p3 \o p4, Idle({1, 2}, {c}))
    BY <1>5, <1>6, Chain4
<1> QED
    BY <1>1, <1>7 DEF Accepted

LEMMA DeleteAfterInsertAccepted ==
    ASSUME NEW b \in Seq(Quads), NEW q \in Quads
    PROVE  Accepted(C!delete_after_insert(b, q))
<1> DEFINE S == C!Range(b)
           was == q \in S
           I(T) == Idle({1, 2}, T)
           W(T) == Writing(S, 1, T)
           p1 == C!load(1, b)
           p2 == C!committed(1, S)
           p3 == <<C!BeginWrite(1), C!On("insert", 1, q, {C!Bit(~was)}),
                   C!On("remove", 1, q, {"true"}), C!On("contains", 1, q, {"false"}), C!Commit(1)>>
           p4 == C!committed(1, S \ {q})
           a1 == C!load(1, <<q>>)
           a2 == <<C!BeginWrite(1), C!On("remove", 1, q, {"true"}), C!Commit(1)>>
           p5 == IF was THEN <<>> ELSE a1 \o a2 \o p2
           p6 == <<C!BeginWrite(1)>>
           p7 == IF was THEN <<>> ELSE <<C!On("remove", 1, q, {"false"})>>
           p8 == <<C!Rollback(1)>>
<1>1. C!delete_after_insert(b, q) = p1 \o p2 \o p3 \o p4 \o p1 \o p2 \o p5 \o p6 \o p7 \o p8 \o p2
    BY DEF C!delete_after_insert
<1>2. C!Bit(TRUE) = "true" /\ C!Bit(FALSE) = "false"
    BY DEF C!Bit
<1>3. Runs(Fresh, p1, I(S)) /\ Runs(I(S), p2, I(S)) /\ Runs(I(S \ {q}), p4, I(S \ {q}))
    BY LoadFresh, IdleRuns
<1>4. Runs(I(S \ {q}), p1, I(S))
  <2>1. (S \ {q}) \cup S = S
      OBVIOUS
  <2>2. Runs(I(S \ {q}), p1, I((S \ {q}) \cup S))
      BY IdleRuns
  <2> QED
      BY <2>1, <2>2
<1>5. Runs(I(S), p3, I(S \ {q}))
  <2> HIDE DEF S
  <2> DEFINE A == S \cup {q}
  <2>1. Does(I(S), C!BeginWrite(1), W(S)) /\ Does(W(A \ {q}), C!Commit(1), I(A \ {q}))
      BY WritingIs
  <2>2. C!Bit(q \notin S) \in {C!Bit(~was)} /\ C!Bit(q \in A) \in {"true"}
        /\ C!Bit(q \in A \ {q}) \in {"false"}
      BY DEF C!Bit
  <2>3. Does(W(S), C!On("insert", 1, q, {C!Bit(~was)}), W(A))
      BY <2>2, WritingIs
  <2>4. Does(W(A), C!On("remove", 1, q, {"true"}), W(A \ {q}))
      BY <2>2, WritingIs
  <2>5. Does(W(A \ {q}), C!On("contains", 1, q, {"false"}), W(A \ {q}))
      BY <2>2, WritingIs
  <2>6. A \ {q} = S \ {q}
      OBVIOUS
  <2> HIDE DEF A, W, I, S, was
  <2>7. Runs(I(S), p3, I(A \ {q}))
      BY <2>1, <2>3, <2>4, <2>5, RunsFive
  <2> QED
      BY <2>6, <2>7
<1>6. Runs(I(S), p5, I(S))
  <2>1. CASE was
      BY <2>1, RunsNothing
  <2>2. CASE ~was
    <3> DEFINE A == S \cup {q}
    <3>1. <<q>> \in Seq(Quads) /\ C!Range(<<q>>) = {q}
        BY DEF C!Range
    <3>2. Runs(I(S), a1, I(A))
        BY <3>1, IdleRuns
    <3>3. C!Bit(q \in A) \in {"true"} /\ A \ {q} = S
        BY <1>2, <2>2
    <3>4. /\ Does(I(A), C!BeginWrite(1), Writing(A, 1, A))
          /\ Does(Writing(A, 1, A), C!On("remove", 1, q, {"true"}), Writing(A, 1, A \ {q}))
          /\ Does(Writing(A, 1, A \ {q}), C!Commit(1), I(A \ {q}))
        BY <3>3, WritingIs
    <3> HIDE DEF A, I, S, was
    <3>5. Runs(I(A), a2, I(S))
        BY <3>3, <3>4, RunsThree
    <3> HIDE DEF a1, a2, p2
    <3> QED
        BY <1>3, <2>2, <3>2, <3>5, Chain3
  <2> QED
      BY <2>1, <2>2
<1>7. Runs(I(S), p6, W(S)) /\ Runs(W(S), p8, I(S))
  <2>1. \A T : S \ T = S => Does(W(S \ T), C!Rollback(1), I(S))
      BY WritingIs
  <2> QED
      BY WritingIs, RunsOne
<1>8. Runs(W(S), p7, W(S))
  <2>1. CASE was
      BY <2>1, RunsNothing
  <2>2. CASE ~was
    <3>1. C!Bit(q \in S) \in {"false"} /\ S \ {q} = S
        BY <2>2 DEF C!Bit
    <3>2. Does(W(S), C!On("remove", 1, q, {"false"}), W(S \ {q}))
        BY <3>1, WritingIs
    <3> HIDE DEF W, S, was
    <3> QED
        BY <2>2, <3>1, <3>2, RunsOne
  <2> QED
      BY <2>1, <2>2
<1> HIDE DEF p1, p2, p3, p4, p5, p6, p7, p8, I, W, S
<1>9. Runs(Fresh, p1 \o p2 \o p3 \o p4, I(S \ {q}))
    BY <1>3, <1>5, Chain4
<1>10. Runs(Fresh, p1 \o p2 \o p3 \o p4 \o p1 \o p2 \o p5, I(S))
    BY <1>3, <1>4, <1>6, <1>9, Chain4
<1>11. Runs(Fresh, p1 \o p2 \o p3 \o p4 \o p1 \o p2 \o p5 \o p6 \o p7 \o p8, I(S))
    BY <1>7, <1>8, <1>10, Chain4
<1>12. Runs(Fresh, p1 \o p2 \o p3 \o p4 \o p1 \o p2 \o p5 \o p6 \o p7 \o p8 \o p2, I(S))
    BY <1>3, <1>11, RunsBoth
<1> QED
    BY <1>1, <1>12 DEF Accepted

\* What FlattenSeq returns is built up part by part.
Builds(f, s, n) ==
    /\ C!FlattenSeq(s) = f[n] /\ f[1] = s[1]
    /\ \A i \in 1 .. n - 1 : f[i + 1] = f[i] \o s[i + 1]

LEMMA Flattened ==
    ASSUME NEW n \in Nat \ {0}, NEW s, s = [i \in 1 .. n |-> s[i]]
    PROVE  \E f : Builds(f, s, n)
<1> DEFINE Good(k, g) == /\ g = [i \in 1 .. k |-> g[i]]
                         /\ \A i \in 1 .. k : g[i] = IF i = 1 THEN s[i] ELSE g[i - 1] \o s[i]
           T == {k \in Nat : \E g : Good(k, g)}
<1>1. T = Nat
  <2>1. 0 \in T
    <3>1. Good(0, [i \in 1 .. 0 |-> 0])
        OBVIOUS
    <3> QED
        BY <3>1
  <2>2. ASSUME NEW k \in T PROVE k + 1 \in T
    <3>1. k \in Nat
        BY <2>2
    <3>2. PICK g : Good(k, g)
        BY <2>2
    <3> DEFINE x == IF k + 1 = 1 THEN s[k + 1] ELSE g[k] \o s[k + 1]
               h == [i \in 1 .. k + 1 |-> IF i = k + 1 THEN x ELSE g[i]]
    <3>3. /\ h = [i \in 1 .. k + 1 |-> h[i]] /\ h[k + 1] = x
          /\ \A i \in 1 .. k : h[i] = g[i]
      <4> HIDE DEF x
      <4> QED
          OBVIOUS
    <3> HIDE DEF h
    <3>4. ASSUME NEW i \in 1 .. k + 1
          PROVE  h[i] = IF i = 1 THEN s[i] ELSE h[i - 1] \o s[i]
      <4>1. CASE i = k + 1
        <5>1. i # 1 => h[i - 1] = g[k]
          <6>1. i # 1 => i - 1 = k /\ k \in 1 .. k
              BY <3>1, <4>1
          <6> QED
              BY <3>3, <6>1
        <5> QED
            BY <3>3, <4>1, <5>1
      <4>2. CASE i \in 1 .. k
        <5>1. i # 1 => h[i - 1] = g[i - 1]
          <6>1. i # 1 => i - 1 \in 1 .. k
              BY <3>1, <4>2
          <6> QED
              BY <3>3, <6>1
        <5> QED
            BY <3>2, <3>3, <4>2, <5>1
      <4> QED
          BY <3>1, <4>1, <4>2
    <3>5. Good(k + 1, h)
        BY <3>3, <3>4
    <3> HIDE DEF Good
    <3> QED
        BY <3>5
  <2> HIDE DEF T
  <2> QED
      BY <2>1, <2>2, SetInduction DEF T
<1> DEFINE Is(f) == f = [i \in 1 .. n |-> IF i = 1 THEN s[i] ELSE f[i - 1] \o s[i]]
           flatten == CHOOSE f : Is(f)
<1>2. \E f : Is(f)
  <2>1. PICK g : Good(n, g)
      BY <1>1
  <2>2. Is(g)
      BY <2>1
  <2> QED
      BY <2>2
<1>3. Is(flatten)
  <2> HIDE DEF Is
  <2> QED
      BY <1>2, Zenon
<1>4. Len(s) = n
    BY ListLen
<1>5. C!FlattenSeq(s) = flatten[n]
    BY <1>4, Zenon DEF C!FlattenSeq
<1> HIDE DEF flatten
<1>6. flatten[1] = s[1]
    BY <1>3
<1>7. ASSUME NEW i \in 1 .. n - 1 PROVE flatten[i + 1] = flatten[i] \o s[i + 1]
  <2>1. i + 1 \in 1 .. n /\ i + 1 # 1 /\ (i + 1) - 1 = i
      OBVIOUS
  <2>2. \A j \in 1 .. n : j # 1 => flatten[j] = flatten[j - 1] \o s[j]
      BY <1>3, Zenon
  <2>3. flatten[i + 1] = flatten[(i + 1) - 1] \o s[i + 1]
      BY <2>1, <2>2, Zenon
  <2> QED
      BY <2>1, <2>3, Zenon
<1> QED
    BY <1>5, <1>6, <1>7, Zenon DEF Builds

\* Scripts that run one after another.
LEMMA FlattenRuns ==
    ASSUME NEW n \in Nat, NEW s, s = [i \in 1 .. n |-> s[i]], NEW ann,
           \A i \in 1 .. n : Runs(ann[i - 1], s[i], ann[i])
    PROVE  Runs(ann[0], C!FlattenSeq(s), ann[n])
<1>1. CASE n = 0
  <2>1. IsList(s) /\ Len(s) = 0
      BY <1>1, ListLen
  <2>2. C!FlattenSeq(s) = s
      BY <2>1 DEF C!FlattenSeq
  <2>3. s = <<>>
      BY <1>1
  <2> QED
      BY <1>1, <2>2, <2>3, RunsNothing
<1>2. CASE n # 0
  <2>1. n \in Nat \ {0}
      BY <1>2
  <2>2. PICK f : Builds(f, s, n)
      BY <2>1, Flattened
  <2>3. /\ C!FlattenSeq(s) = f[n] /\ f[1] = s[1]
        /\ \A i \in 1 .. n - 1 : f[i + 1] = f[i] \o s[i + 1]
      BY <2>2, Zenon DEF Builds
  <2> DEFINE T == {i \in Nat : i + 1 =< n => Runs(ann[0], f[i + 1], ann[i + 1])}
  <2>4. 0 \in T
      BY <1>2, <2>3
  <2>5. ASSUME NEW i \in T PROVE i + 1 \in T
    <3>1. SUFFICES ASSUME (i + 1) + 1 =< n
                   PROVE  Runs(ann[0], f[(i + 1) + 1], ann[(i + 1) + 1])
        OBVIOUS
    <3>2. i + 1 \in 1 .. n - 1 /\ (i + 1) + 1 \in 1 .. n /\ ((i + 1) + 1) - 1 = i + 1
        BY <3>1
    <3>3. Runs(ann[0], f[i + 1], ann[i + 1]) /\ Runs(ann[i + 1], s[(i + 1) + 1], ann[(i + 1) + 1])
        BY <2>5, <3>2
    <3>4. f[(i + 1) + 1] = f[i + 1] \o s[(i + 1) + 1]
        BY <2>3, <3>2, Zenon
    <3> QED
        BY <3>3, <3>4, RunsBoth, Zenon
  <2> HIDE DEF T
  <2>6. T = Nat
      BY <2>4, <2>5, SetInduction DEF T
  <2>7. n - 1 \in Nat /\ (n - 1) + 1 = n
      BY <1>2
  <2> QED
      BY <2>3, <2>6, <2>7 DEF T
<1> QED
    BY <1>1, <1>2

\* A flattened list has the members of its parts.
LEMMA FlattenMembers ==
    ASSUME NEW n \in Nat, NEW s, s = [i \in 1 .. n |-> s[i]], NEW A,
           \A i \in 1 .. n : s[i] \in Seq(A)
    PROVE  C!FlattenSeq(s) \in Seq(A)
<1>1. CASE n = 0
  <2>1. IsList(s) /\ Len(s) = 0
      BY <1>1, ListLen
  <2>2. C!FlattenSeq(s) = s
      BY <2>1 DEF C!FlattenSeq
  <2>3. s = <<>> /\ <<>> \in Seq(A)
      BY <1>1
  <2> QED
      BY <2>2, <2>3, Zenon
<1>2. CASE n # 0
  <2>1. n \in Nat \ {0}
      BY <1>2
  <2>2. PICK f : Builds(f, s, n)
      BY <2>1, Flattened
  <2>3. /\ C!FlattenSeq(s) = f[n] /\ f[1] = s[1]
        /\ \A i \in 1 .. n - 1 : f[i + 1] = f[i] \o s[i + 1]
      BY <2>2, Zenon DEF Builds
  <2> DEFINE T == {i \in Nat : i + 1 =< n => f[i + 1] \in Seq(A)}
  <2>4. 0 \in T
      BY <1>2, <2>3
  <2>5. ASSUME NEW i \in T PROVE i + 1 \in T
    <3>1. SUFFICES ASSUME (i + 1) + 1 =< n PROVE f[(i + 1) + 1] \in Seq(A)
        OBVIOUS
    <3>2. i + 1 \in 1 .. n - 1 /\ (i + 1) + 1 \in 1 .. n
        BY <3>1
    <3>3. f[i + 1] \in Seq(A) /\ s[(i + 1) + 1] \in Seq(A)
        BY <2>5, <3>2
    <3>4. f[(i + 1) + 1] = f[i + 1] \o s[(i + 1) + 1]
        BY <2>3, <3>2, Zenon
    <3>5. f[i + 1] \o s[(i + 1) + 1] \in Seq(A)
      <4> DEFINE u == f[i + 1]
                 v == s[(i + 1) + 1]
      <4>1. u \in Seq(A) /\ v \in Seq(A)
          BY <3>3
      <4> HIDE DEF u, v
      <4>2. u \o v \in Seq(A)
          BY <4>1
      <4> QED
          BY <4>2 DEF u, v
    <3> QED
        BY <3>4, <3>5, Zenon
  <2> HIDE DEF T
  <2>6. T = Nat
      BY <2>4, <2>5, SetInduction DEF T
  <2>7. n - 1 \in Nat /\ (n - 1) + 1 = n
      BY <1>2
  <2> QED
      BY <2>3, <2>6, <2>7 DEF T
<1> QED
    BY <1>1, <1>2

\* A transaction that is left as it was.
LEMMA UnmovedIs ==
    ASSUME NEW V, NEW t, NEW x, NEW u \in DOMAIN Moves(V, t, x).tx
    PROVE  Moves(Moves(V, t, x), u, Moves(V, t, x).tx[u]) = Moves(V, t, x)
<1> DEFINE f == [v \in DOMAIN V.tx |-> IF v = t THEN x ELSE V.tx[v]]
           M == [store |-> V.store, tx |-> f]
<1>1. Moves(V, t, x) = M
    BY DEF Moves
<1>2. f = [v \in DOMAIN f |-> f[v]]
    OBVIOUS
<1> HIDE DEF f
<1>3. M.store = V.store /\ M.tx = f
    OBVIOUS
<1>4. u \in DOMAIN f
    BY <1>1, <1>3
<1>5. [v \in DOMAIN f |-> IF v = u THEN f[u] ELSE f[v]] = [v \in DOMAIN f |-> f[v]]
    BY <1>4
<1>6. Moves(M, u, M.tx[u]) = [store |-> V.store, tx |-> [v \in DOMAIN f |-> IF v = u THEN f[u] ELSE f[v]]]
  <2> HIDE DEF M
  <2> QED
      BY <1>3, Zenon DEF Moves
<1>7. Moves(M, u, M.tx[u]) = M
    BY <1>2, <1>5, <1>6, Zenon
<1> HIDE DEF M
<1> QED
    BY <1>1, <1>7, Zenon

\* Each of the writes is seen by the transaction that made it.
LEMMA EachWriteSeen ==
    ASSUME NEW S, NEW T, NEW w \in Seq(Quads), NEW parts,
           parts = [i \in DOMAIN w |-> <<C!On("insert", 1, w[i], C!Done), C!On("contains", 1, w[i], {"true"})>>]
    PROVE  Runs(Writing(S, 1, T), C!FlattenSeq(parts), Writing(S, 1, T \cup C!Range(w)))
<1> DEFINE n == Len(w)
           ann == [i \in 0 .. n |-> Writing(S, 1, T \cup Front(w, i))]
<1>1. /\ n \in Nat /\ DOMAIN w = 1 .. n /\ \A i \in 1 .. n : w[i] \in Quads
      /\ Front(w, 0) = {} /\ Front(w, n) = C!Range(w)
      /\ \A i \in 1 .. n : Front(w, i) = Front(w, i - 1) \cup {w[i]}
    BY FrontIs
<1>2. parts = [i \in 1 .. n |-> parts[i]]
    BY <1>1
<1>3. ASSUME NEW i \in 1 .. n PROVE Runs(ann[i - 1], parts[i], ann[i])
  <2> DEFINE A == T \cup Front(w, i - 1)
             B == A \cup {w[i]}
  <2>1. T \cup Front(w, i) = B
      BY <1>1
  <2>2. ann[i - 1] = Writing(S, 1, A) /\ ann[i] = Writing(S, 1, T \cup Front(w, i))
    <3>1. i - 1 \in 0 .. n /\ i \in 0 .. n
        BY <1>1
    <3> QED
        BY <3>1
  <2>3. parts[i] = <<C!On("insert", 1, w[i], C!Done), C!On("contains", 1, w[i], {"true"})>>
      BY <1>1
  <2> HIDE DEF A, ann
  <2>4. w[i] \in Quads /\ C!Bit(w[i] \notin A) \in C!Done
      BY <1>1, BitIsDone
  <2>5. Does(Writing(S, 1, A), C!On("insert", 1, w[i], C!Done), Writing(S, 1, B))
      BY <2>4, WritingIs
  <2>6. C!Bit(w[i] \in B) \in {"true"}
      BY DEF C!Bit
  <2> HIDE DEF B
  <2>7. Does(Writing(S, 1, B), C!On("contains", 1, w[i], {"true"}), Writing(S, 1, B))
      BY <2>4, <2>6, WritingIs
  <2>8. Runs(Writing(S, 1, A), parts[i], Writing(S, 1, B))
      BY <2>3, <2>5, <2>7, RunsTwo
  <2> QED
      BY <2>1, <2>2, <2>8
<1>4. ann[0] = Writing(S, 1, T) /\ ann[n] = Writing(S, 1, T \cup C!Range(w))
  <2>1. T \cup {} = T /\ 0 \in 0 .. n /\ n \in 0 .. n
      BY <1>1
  <2> QED
      BY <1>1, <2>1
<1> HIDE DEF ann, n
<1>5. Runs(ann[0], C!FlattenSeq(parts), ann[n])
    BY <1>1, <1>2, <1>3, FlattenRuns
<1> QED
    BY <1>4, <1>5

LEMMA RollbackAccepted ==
    ASSUME NEW b \in Seq(Quads), NEW w \in Seq(Quads)
    PROVE  Accepted(C!rollback_and_isolation(b, w))
<1> DEFINE S == C!Range(b)
           I == Idle({1, 2}, S)
           T == S \cup C!Range(w)
           U == T \ C!Range(C!First(b))
           W(A) == Writing(S, 1, A)
           parts == [i \in DOMAIN w |-> <<C!On("insert", 1, w[i], C!Done),
                                          C!On("contains", 1, w[i], {"true"})>>]
           p1 == C!load(1, b)
           p2 == C!committed(1, S)
           p3 == <<C!BeginWrite(1)>>
           p4 == C!FlattenSeq(parts)
           p5 == IF b = <<>> THEN <<>>
                 ELSE <<C!On("remove", 1, b[1], C!Done), C!On("contains", 1, b[1], {"false"})>>
           p6 == <<C!all_quads(1, U)>>
           p7 == C!committed(2, S)
           p8 == <<C!Rollback(1)>>
<1>1. C!rollback_and_isolation(b, w) = p1 \o p2 \o p3 \o p4 \o p5 \o p6 \o p7 \o p8 \o p2
    BY Zenon DEF C!rollback_and_isolation
<1>2. Runs(Fresh, p1, I) /\ Runs(I, p2, I)
    BY LoadFresh, IdleRuns
<1>3. Runs(I, p3, W(S)) /\ Runs(W(U), p6, W(U)) /\ Runs(W(U), p8, I)
    BY WritingIs, RunsOne
<1>4. Runs(W(S), p4, W(T))
    BY EachWriteSeen
<1>5. Runs(W(T), p5, W(U))
  <2>1. CASE b = <<>>
    <3>1. T \ {} = T /\ p5 = <<>> /\ U = T \ {}
        BY <2>1, FirstIs
    <3> HIDE DEF p5, W, T, U
    <3> QED
        BY <3>1, RunsNothing
  <2>2. CASE b # <<>>
    <3>1. U = T \ {b[1]} /\ b[1] \in Quads
        BY <2>2, FirstIs
    <3>2. p5 = <<C!On("remove", 1, b[1], C!Done), C!On("contains", 1, b[1], {"false"})>>
        BY <2>2
    <3> HIDE DEF T, U, p5
    <3>3. Does(W(T), C!On("remove", 1, b[1], C!Done), W(T \ {b[1]}))
        BY <3>1, BitIsDone, WritingIs
    <3>4. C!Bit(b[1] \in U) \in {"false"}
        BY <3>1 DEF C!Bit
    <3>5. Does(W(U), C!On("contains", 1, b[1], {"false"}), W(U))
        BY <3>1, <3>4, WritingIs
    <3> HIDE DEF W
    <3> QED
        BY <3>1, <3>2, <3>3, <3>5, RunsTwo
  <2> QED
      BY <2>1, <2>2
<1>6. Runs(W(U), p7, W(U))
  <2> DEFINE Y == Idle({1, 2}, S)
             X == W(U)
  <2>1. DOMAIN Y.tx = {1, 2} /\ Y.store = S /\ Y.tx[2] = Closed
      BY DEF Idle
  <2> HIDE DEF Y
  <2>2. DOMAIN X.tx = {1, 2} /\ X.store = S /\ X.tx[2] = Closed
      BY <2>1 DEF Writing, Moves, Y
  <2>3. Moves(X, 2, X.tx[2]) = X
      BY <2>2, UnmovedIs DEF Writing
  <2> HIDE DEF X
  <2>4. Runs(X, p7, X)
      BY <2>2, <2>3, CommittedRuns
  <2> QED
      BY <2>4 DEF X
<1> HIDE DEF p1, p2, p3, p4, p5, p6, p7, p8, I, W, S, T, U
<1>7. Runs(Fresh, p1 \o p2 \o p3 \o p4, W(T))
    BY <1>2, <1>3, <1>4, Chain4
<1>8. Runs(Fresh, p1 \o p2 \o p3 \o p4 \o p5 \o p6 \o p7, W(U))
    BY <1>3, <1>5, <1>6, <1>7, Chain4
<1>9. Runs(Fresh, p1 \o p2 \o p3 \o p4 \o p5 \o p6 \o p7 \o p8 \o p2, I)
    BY <1>2, <1>3, <1>8, Chain3
<1> QED
    BY <1>1, <1>9 DEF Accepted

LEMMA SnapshotAccepted ==
    ASSUME NEW b \in Seq(Quads), NEW w \in Seq(Quads)
    PROVE  Accepted(C!snapshot_reads(TRUE, b, w))
<1> DEFINE S == C!Range(b)
           I == Idle({1, 2}, S)
           R == Reading(S, 2)
           T == S \cup C!Range(w)
           U == T \ C!Range(C!First(b))
           X(A) == Moves(R, 1, Tx(TRUE, TRUE, A))
           Y == Commits(R, 1, U)
           Z == Moves(Y, 1, Closed)
           acc == [i \in DOMAIN w |-> {C!Bit(w[i] \in S)}]
           p1 == C!load(1, b)
           p2 == C!committed(1, S)
           p3 == <<C!BeginRead(2), C!all_quads(2, S), C!BeginWrite(1)>>
           p4 == C!All("insert", 1, w)
           p5 == C!All("remove", 1, C!First(b))
           p6 == <<C!Commit(1)>>
           p7 == C!committed(1, U)
           a1 == <<C!all_quads(2, S)>>
           a2 == [i \in DOMAIN w |-> C!On("contains", 2, w[i], acc[i])]
           p8 == a1 \o a2
           p9 == <<C!Rollback(2)>>
<1>1. C!snapshot_reads(TRUE, b, w) = p1 \o p2 \o p3 \o p4 \o p5 \o p6 \o p7 \o p8 \o p9
  <2>1. a2 = [i \in DOMAIN w |-> C!On("contains", 2, w[i], {C!Bit(w[i] \in S)})]
      OBVIOUS
  <2> HIDE DEF a2
  <2> QED
      BY <2>1, Zenon DEF C!snapshot_reads, C!Each
<1>2. Runs(Fresh, p1, I) /\ Runs(I, p2, I)
    BY LoadFresh, IdleRuns
<1>3. /\ Does(I, C!BeginRead(2), R) /\ Does(R, C!all_quads(2, S), R)
      /\ R.store = S /\ R.tx[2] = Tx(FALSE, TRUE, S) /\ DOMAIN R.tx = {1, 2}
  <2>1. Does(I, C!BeginRead(2), R) /\ Does(R, C!all_quads(2, S), R)
    <3> HIDE DEF S
    <3> QED
        BY ReadingIs
  <2>2. R.store = S /\ R.tx[2] = Tx(FALSE, TRUE, S) /\ DOMAIN R.tx = {1, 2}
    <3> HIDE DEF S
    <3> QED
        BY DEF Reading, Moves, Idle
  <2> HIDE DEF S, I, R
  <2> QED
      BY <2>1, <2>2
<1> HIDE DEF R, I
<1>4. Does(R, C!BeginWrite(1), X(S)) /\ Does(X(U), C!Commit(1), Y)
    BY <1>3, DoesBegin, DoesCommit
<1>5. Runs(I, p3, X(S)) /\ Runs(X(U), p6, Y)
  <2> HIDE DEF X, Y, S, U
  <2> QED
      BY <1>3, <1>4, RunsOne, RunsThree
<1>6. Runs(X(S), p4, X(T)) /\ Runs(X(T), p5, X(U))
    BY <1>3, FirstIs, AllInserts
<1>7. Y.store = U /\ DOMAIN Y.tx = {1, 2} /\ Y.tx[2] = Tx(FALSE, FALSE, S)
  <2>1. Stale(Tx(FALSE, TRUE, S)) = Tx(FALSE, FALSE, S)
      BY TxIs
  <2> DEFINE f == [u \in DOMAIN R.tx |-> IF u = 1 THEN Closed ELSE Stale(R.tx[u])]
  <2>2. Y = [store |-> U, tx |-> f]
      BY DEF Commits
  <2> HIDE DEF U, S, Y
  <2>3. DOMAIN f = DOMAIN R.tx /\ \A u \in DOMAIN R.tx : u # 1 => f[u] = Stale(R.tx[u])
      BY Zenon
  <2> HIDE DEF f
  <2>4. Y.store = U /\ Y.tx = f
      BY <2>2
  <2>5. 2 \in DOMAIN R.tx /\ 2 # 1
      BY <1>3
  <2> QED
      BY <1>3, <2>1, <2>3, <2>4, <2>5, Zenon
<1> HIDE DEF Y, U, T
<1>8. Runs(Y, p7, Z)
    BY <1>7, CommittedRuns
<1>9. 2 \in DOMAIN Z.tx /\ Z.tx[2].working = S
    BY <1>7 DEF Moves, Tx
<1> HIDE DEF Z
<1>10. Runs(Z, p8, Z)
  <2>1. Runs(Z, a1, Z)
      BY <1>9, DoesAllQuads, RunsOne
  <2>2. \A i \in 1 .. Len(w) : acc[i] = {C!Bit(w[i] \in S)}
      BY FrontIs
  <2> HIDE DEF acc, S
  <2>3. \A i \in 1 .. Len(w) : C!Bit(w[i] \in Z.tx[2].working) \in acc[i]
      BY <1>9, <2>2
  <2>4. Runs(Z, a2, Z)
      BY <1>9, <2>3, EachContains
  <2> HIDE DEF a1, a2
  <2> QED
      BY <2>1, <2>4, RunsBoth
<1>11. \E E : Runs(Z, p9, E)
  <2>1. C!Rollback(2).op = "rollback" /\ C!Rollback(2).tx = 2 /\ C!Rollback(2).accepts = {"ok"}
      BY DEF C!Rollback, C!Call
  <2>2. Does(Z, C!Rollback(2), Moves(Z, 2, Closed))
      BY <1>9, <2>1 DEF Does
  <2> QED
      BY <2>2, RunsOne
<1> HIDE DEF p1, p2, p3, p4, p5, p6, p7, p8, p9, X, S
<1>12. PICK E : Runs(Z, p9, E)
    BY <1>11
<1>13. Runs(Fresh, p1 \o p2 \o p3 \o p4, X(T))
    BY <1>2, <1>5, <1>6, Chain4
<1>14. Runs(Fresh, p1 \o p2 \o p3 \o p4 \o p5 \o p6 \o p7, Z)
    BY <1>5, <1>6, <1>8, <1>13, Chain4
<1>15. Runs(Fresh, p1 \o p2 \o p3 \o p4 \o p5 \o p6 \o p7 \o p8 \o p9, E)
    BY <1>10, <1>12, <1>14, Chain3
<1> QED
    BY <1>1, <1>15 DEF Accepted

\* Four names that make a set of four are distinct.
LEMMA FourDistinct ==
    ASSUME NEW a, NEW b, NEW c, NEW d, Cardinality({a, b, c, d}) = 4
    PROVE  a # b /\ a # c /\ a # d /\ b # c /\ b # d /\ c # d
<1>1. ASSUME NEW x, NEW y, NEW z PROVE Cardinality({x, y, z}) \in 0 .. 3
  <2>1. IsFiniteSet({x}) /\ Cardinality({x}) = 1
      BY FS_Singleton
  <2>2. /\ IsFiniteSet({x} \cup {y})
        /\ Cardinality({x} \cup {y}) = IF y \in {x} THEN Cardinality({x}) ELSE Cardinality({x}) + 1
      BY <2>1, FS_AddElement, Zenon
  <2>3. Cardinality({x} \cup {y} \cup {z}) = IF z \in {x} \cup {y} THEN Cardinality({x} \cup {y})
                                             ELSE Cardinality({x} \cup {y}) + 1
      BY <2>2, FS_AddElement, Zenon
  <2>4. {x, y, z} = {x} \cup {y} \cup {z}
      OBVIOUS
  <2> QED
      BY <2>1, <2>2, <2>3, <2>4
<1>2. ASSUME NEW x, NEW y, NEW z PROVE {a, b, c, d} # {x, y, z}
  <2>1. Cardinality({x, y, z}) \in 0 .. 3
      BY <1>1, Zenon
  <2>2. \A i \in 0 .. 3 : i # 4
      OBVIOUS
  <2> QED
      BY <2>1, <2>2, Zenon
<1>3. /\ a = b => {a, b, c, d} = {a, c, d}
      /\ a = c => {a, b, c, d} = {a, b, d}
      /\ a = d => {a, b, c, d} = {a, b, c}
      /\ b = c => {a, b, c, d} = {a, b, d}
      /\ b = d => {a, b, c, d} = {a, b, c}
      /\ c = d => {a, b, c, d} = {a, b, c}
    OBVIOUS
<1> QED
    BY <1>2, <1>3, Zenon

LEMMA ThreeDistinct ==
    ASSUME NEW x, NEW y, NEW z, x # y, x # z, y # z
    PROVE  Cardinality({x, y, z}) = 3
<1>1. IsFiniteSet({x}) /\ Cardinality({x}) = 1
    BY FS_Singleton
<1>2. /\ IsFiniteSet({x} \cup {y})
      /\ Cardinality({x} \cup {y}) = IF y \in {x} THEN Cardinality({x}) ELSE Cardinality({x}) + 1
    BY <1>1, FS_AddElement, Zenon
<1>3. Cardinality({x} \cup {y} \cup {z}) = IF z \in {x} \cup {y} THEN Cardinality({x} \cup {y})
                                           ELSE Cardinality({x} \cup {y}) + 1
    BY <1>2, FS_AddElement, Zenon
<1>4. {x, y, z} = {x} \cup {y} \cup {z} /\ y \notin {x} /\ z \notin {x} \cup {y}
    OBVIOUS
<1> QED
    BY <1>1, <1>2, <1>3, <1>4

LEMMA GraphsAreSeparateAccepted ==
    ASSUME NEW q \in [1 .. 3 -> Quads], OneTriple(q)
    PROVE  Accepted(C!graphs_are_separate(q[1], q[2], q[3], Nowhere))
<1> DEFINE x == q[1]
           y == q[2]
           z == q[3]
           S == {x, y, z}
           T == {x, z}
           I(A) == Idle({1, 2}, A)
           R == Reading(S, 1)
           spo == {"subject", "predicate", "object"}
           s1 == C!Scan(1, C!Like(x, {"graph"}), {x})
           s2 == C!Scan(1, C!Like(y, {"graph"}), {y})
           s3 == C!Scan(1, C!Like(Nowhere, {"graph"}), {})
           s4 == C!Scan(1, C!Like(x, spo), S)
           p1 == C!load(1, <<x, y, z>>)
           p2 == <<C!Count(3), C!BeginRead(1)>>
           p3 == <<s1, s2, s3, s4, C!Rollback(1), C!Graphs({y.graph, z.graph})>>
           p4 == C!unload(1, <<y>>)
           p5 == C!committed(1, T)
           p6 == <<C!Graphs({z.graph})>>
<1>1. C!graphs_are_separate(q[1], q[2], q[3], Nowhere) = p1 \o p2 \o p3 \o p4 \o p5 \o p6
    BY Zenon DEF C!graphs_are_separate
<1>2. x \in Quads /\ y \in Quads /\ z \in Quads
    OBVIOUS
<1>3. /\ x.graph = C!Default /\ x.graph # y.graph /\ x.graph # z.graph /\ y.graph # z.graph
      /\ x.graph # Nowhere.graph /\ y.graph # Nowhere.graph /\ z.graph # Nowhere.graph
  <2>1. x.graph = C!Default /\ Cardinality({x.graph, y.graph, z.graph, Nowhere.graph}) = 4
      BY Zenon DEF OneTriple
  <2> QED
      BY <2>1, FourDistinct, Zenon
<1>4. \A f \in spo : x[f] = x[f] /\ y[f] = x[f] /\ z[f] = x[f]
    BY DEF OneTriple
<1> HIDE DEF x, y, z
<1>5. x # y /\ x # z /\ y # z
    BY <1>3
<1>6. S \ {y} = T
    BY <1>5
<1>7. <<x, y, z>> \in Seq(Quads) /\ C!Range(<<x, y, z>>) = S
  <2> DEFINE l == <<x, y, z>>
  <2>1. l \in Seq(Quads)
      BY <1>2
  <2>2. DOMAIN l = {1, 2, 3} /\ l[1] = x /\ l[2] = y /\ l[3] = z
      OBVIOUS
  <2> HIDE DEF l
  <2>3. C!Range(l) = S
      BY <2>2 DEF C!Range
  <2> QED
      BY <2>1, <2>3 DEF l
<1>8. <<y>> \in Seq(Quads) /\ C!Range(<<y>>) = {y}
    BY <1>2 DEF C!Range
<1>9. Runs(Fresh, p1, I(S))
    BY <1>7, LoadFresh
<1>10. C!Cardinality(S) = 3
  <2>1. C!Cardinality(S) = Cardinality(S)
      BY DEF C!Cardinality, Cardinality
  <2> QED
      BY <1>5, <2>1, ThreeDistinct
<1>11. C!graphs_of(S) = {y.graph, z.graph} /\ C!graphs_of(T) = {z.graph}
  <2>1. {r.graph : r \in S} = {x.graph, y.graph, z.graph} /\ {r.graph : r \in T} = {x.graph, z.graph}
      OBVIOUS
  <2> DEFINE g == C!Default
  <2>2. {x.graph, y.graph, z.graph} \ {g} = {y.graph, z.graph} /\ {x.graph, z.graph} \ {g} = {z.graph}
    <3> HIDE DEF g
    <3> QED
        BY <1>3 DEF g
  <2> QED
      BY <2>1, <2>2 DEF C!graphs_of
<1>12. /\ Does(I(S), C!Count(3), I(S)) /\ Does(I(S), C!Graphs({y.graph, z.graph}), I(S))
       /\ Does(I(T), C!Graphs({z.graph}), I(T))
    BY <1>10, <1>11, IdleCount
<1>13. /\ Does(I(S), C!BeginRead(1), R) /\ 1 \in DOMAIN R.tx /\ R.tx[1].working = S
       /\ Does(R, C!Rollback(1), I(S))
    BY ReadingIs
<1> HIDE DEF R
<1>14. ASSUME NEW p, NEW A, {r \in S : matches_pattern(r, p)} = A
       PROVE  Does(R, C!Scan(1, p, A), R)
  <2> DEFINE c == C!Scan(1, p, A)
  <2>1. c.op = "scan" /\ c.tx = 1 /\ c.pattern = p /\ c.accepts = {A}
      BY DEF C!Scan
  <2> HIDE DEF c, S
  <2>2. Does(R, c, R)
      BY <1>13, <1>14, <2>1, DoesScan
  <2> QED
      BY <2>2 DEF c
<1>15. \A r, like, bound : matches_pattern(r, C!Like(like, bound)) <=> \A f \in bound : r[f] = like[f]
    BY DEF matches_pattern, C!Like
<1>16. /\ {r \in S : matches_pattern(r, C!Like(x, {"graph"}))} = {x}
       /\ {r \in S : matches_pattern(r, C!Like(y, {"graph"}))} = {y}
       /\ {r \in S : matches_pattern(r, C!Like(Nowhere, {"graph"}))} = {}
  <2>1. \A r, like : matches_pattern(r, C!Like(like, {"graph"})) <=> r.graph = like.graph
      BY <1>15
  <2> QED
      BY <1>3, <2>1
<1>17. {r \in S : matches_pattern(r, C!Like(x, spo))} = S
    BY <1>4, <1>15
<1>18. Does(R, s1, R) /\ Does(R, s2, R) /\ Does(R, s3, R) /\ Does(R, s4, R)
  <2> HIDE DEF S, spo
  <2> QED
      BY <1>14, <1>16, <1>17
<1>19. Runs(I(S), p2, R) /\ Runs(R, p3, I(S))
  <2> HIDE DEF I, s1, s2, s3, s4, S
  <2> QED
      BY <1>12, <1>13, <1>18, RunsTwo, RunsSix
<1>20. Runs(I(S), p4, I(T)) /\ Runs(I(T), p5, I(T))
  <2> HIDE DEF S, T
  <2> QED
      BY <1>6, <1>8, IdleRuns
<1>21. Runs(I(T), p6, I(T))
    BY <1>12, RunsOne
<1> HIDE DEF p1, p2, p3, p4, p5, p6, I, S, T
<1>22. Runs(Fresh, p1 \o p2 \o p3 \o p4, I(T))
    BY <1>9, <1>19, <1>20, Chain4
<1>23. Runs(Fresh, p1 \o p2 \o p3 \o p4 \o p5 \o p6, I(T))
    BY <1>20, <1>21, <1>22, Chain3
<1> QED
    BY <1>1, <1>23 DEF Accepted

-----------------------------------------------------------------------------
(* The check of several threads *)

\* The calls of the thread that writes, and of the one that reads.
Writes(S) == {C!BeginWrite(1), C!Commit(1)} \cup {C!On("insert", 1, q, C!Done) : q \in S}
LookAt(S) == [op |-> "scan", tx |-> 2, pattern |-> C!Wildcard, accepts |-> SUBSET S]
Looks(S) == {C!BeginRead(2), LookAt(S), C!Rollback(2)}

LEMMA OneLoad ==
    ASSUME NEW q, NEW S, q \in S
    PROVE  C!load(1, <<q>>) \in Seq(Writes(S))
<1> DEFINE a == <<C!BeginWrite(1)>>
           b == <<C!On("insert", 1, q, C!Done)>>
           c == <<C!Commit(1)>>
<1>1. C!All("insert", 1, <<q>>) = b
    BY DEF C!All, C!Each
<1>2. C!load(1, <<q>>) = a \o b \o c
    BY <1>1 DEF C!load
<1>3. a \in Seq(Writes(S)) /\ b \in Seq(Writes(S)) /\ c \in Seq(Writes(S))
    BY DEF Writes
<1> DEFINE T == Writes(S)
<1> HIDE DEF a, b, c, T
<1>4. a \in Seq(T) /\ b \in Seq(T) /\ c \in Seq(T)
    BY <1>3 DEF T
<1>5. a \o b \o c \in Seq(T)
    BY <1>4
<1> QED
    BY <1>2, <1>5, Zenon DEF T

LEMMA SharedScript ==
    ASSUME NEW b \in Seq(Quads)
    PROVE  LET s == C!shareable_across_threads(b)
               S == C!Range(b)
           IN  /\ s[1] \in Seq(Writes(S)) /\ s[2] \in Seq(Looks(S)) /\ s[3] = <<C!Count(Len(b))>>
               /\ DOMAIN s = 1 .. 3 /\ Len(s) = 3
               /\ Runs(Idle({1}, {}), s[1], Idle({1}, S))
<1> DEFINE S == C!Range(b)
           n == Len(b)
           loads == [i \in DOMAIN b |-> C!load(1, <<b[i]>>)]
           look == <<C!BeginRead(2), LookAt(S), C!Rollback(2)>>
           looks == [i \in DOMAIN b |-> look]
           ann == [i \in 0 .. n |-> Idle({1}, Front(b, i))]
           s == <<C!FlattenSeq(loads), C!FlattenSeq(looks), <<C!Count(n)>>>>
<1>1. C!shareable_across_threads(b) = s
    BY Zenon DEF C!shareable_across_threads, LookAt
<1>2. /\ n \in Nat /\ DOMAIN b = 1 .. n /\ \A i \in 1 .. n : b[i] \in Quads /\ b[i] \in S
      /\ Front(b, 0) = {} /\ Front(b, n) = S
      /\ \A i \in 1 .. n : Front(b, i) = Front(b, i - 1) \cup {b[i]}
    BY FrontIs DEF C!Range
<1>3. /\ loads = [i \in 1 .. n |-> loads[i]] /\ \A i \in 1 .. n : loads[i] = C!load(1, <<b[i]>>)
      /\ looks = [i \in 1 .. n |-> looks[i]] /\ \A i \in 1 .. n : looks[i] = look
    BY <1>2
<1>4. look \in Seq(Looks(S))
    BY DEF Looks
<1> HIDE DEF loads, looks, look, S
<1>5. C!FlattenSeq(loads) \in Seq(Writes(S))
  <2>1. ASSUME NEW i \in 1 .. n PROVE loads[i] \in Seq(Writes(S))
    <3>1. b[i] \in S /\ loads[i] = C!load(1, <<b[i]>>)
        BY <1>2, <1>3
    <3>2. C!load(1, <<b[i]>>) \in Seq(Writes(S))
        BY <3>1, OneLoad, Zenon
    <3> QED
        BY <3>1, <3>2, Zenon
  <2> QED
      BY <1>2, <1>3, <2>1, FlattenMembers
<1>6. C!FlattenSeq(looks) \in Seq(Looks(S))
  <2>1. \A i \in 1 .. n : looks[i] \in Seq(Looks(S))
      BY <1>3, <1>4
  <2> QED
      BY <1>2, <1>3, <2>1, FlattenMembers
<1>7. Runs(Idle({1}, {}), C!FlattenSeq(loads), Idle({1}, S))
  <2>1. ASSUME NEW i \in 1 .. n PROVE Runs(ann[i - 1], loads[i], ann[i])
    <3>1. i - 1 \in 0 .. n /\ i \in 0 .. n
        BY <1>2
    <3>2. ann[i - 1] = Idle({1}, Front(b, i - 1)) /\ ann[i] = Idle({1}, Front(b, i))
        BY <3>1
    <3>3. <<b[i]>> \in Seq(Quads) /\ C!Range(<<b[i]>>) = {b[i]}
        BY <1>2 DEF C!Range
    <3>4. Runs(Idle({1}, Front(b, i - 1)), C!load(1, <<b[i]>>), Idle({1}, Front(b, i - 1) \cup {b[i]}))
        BY <3>3, IdleRuns
    <3> HIDE DEF ann
    <3> QED
        BY <1>2, <1>3, <3>2, <3>4
  <2>2. ann[0] = Idle({1}, {}) /\ ann[n] = Idle({1}, S)
    <3>1. 0 \in 0 .. n /\ n \in 0 .. n
        BY <1>2
    <3> QED
        BY <1>2, <3>1
  <2> HIDE DEF ann, n
  <2>3. Runs(ann[0], C!FlattenSeq(loads), ann[n])
      BY <1>2, <1>3, <2>1, FlattenRuns
  <2> QED
      BY <2>2, <2>3
<1>8. /\ s[1] = C!FlattenSeq(loads) /\ s[2] = C!FlattenSeq(looks) /\ s[3] = <<C!Count(n)>>
      /\ DOMAIN s = 1 .. 3 /\ Len(s) = 3
    OBVIOUS
<1> HIDE DEF s
<1> QED
    BY <1>1, <1>5, <1>6, <1>7, <1>8, Zenon DEF S, n

\* What a call of the writer leaves alone, and what it writes.
LEMMA WriterStep ==
    ASSUME Inv, NEW S, NEW c \in Writes(S), Performs(c), {1, 2} \subseteq Txs,
           quads \subseteq S, tx[1].working \subseteq S
    PROVE  quads' \subseteq S /\ tx'[1].working \subseteq S /\ tx'[2] = tx[2]
<1>1. tx \in [Txs -> Txn] /\ 1 \in Txs /\ 2 \in Txs /\ 1 # 2
    BY DEF Inv
<1>2. CASE c = C!BeginWrite(1)
  <2>1. c.op = "begin_write" /\ c.tx = 1
      BY <1>2 DEF C!BeginWrite, C!Call
  <2>2. Begin(1, TRUE)
      BY <2>1 DEF Performs, BeginWrite
  <2> QED
      BY <1>1, <2>2 DEF Begin
<1>3. CASE c = C!Commit(1)
  <2>1. c.op = "commit" /\ c.tx = 1
      BY <1>3 DEF C!Commit, C!Call
  <2>2. Commit(1) \/ Conflict(1) \/ Rollback(1)
      BY <2>1 DEF Performs
  <2>3. tx' = [tx EXCEPT ![1] = NoTx]
      BY <2>2 DEF Commit, Conflict, Rollback, Ends
  <2>4. quads' = quads \/ quads' = tx[1].working
      BY <2>2 DEF Commit, Conflict, Rollback
  <2> QED
      BY <1>1, <2>3, <2>4 DEF NoTx
<1>4. ASSUME NEW q \in S, c = C!On("insert", 1, q, C!Done)
      PROVE  quads' \subseteq S /\ tx'[1].working \subseteq S /\ tx'[2] = tx[2]
  <2>1. c.op = "insert" /\ c.tx = 1 /\ c.quad = q
      BY <1>4, OnIs
  <2>2. Insert(1, q) \/ UNCHANGED vars
      BY <2>1 DEF Performs, Reads
  <2>3. CASE Insert(1, q)
      BY <1>1, <2>3 DEF Insert, Returns
  <2>4. CASE UNCHANGED vars
      BY <2>4 DEF vars
  <2> QED
      BY <2>2, <2>3, <2>4
<1> QED
    BY <1>2, <1>3, <1>4 DEF Writes

\* The reader changes neither the store nor what the writer sees of it, and it
\* only ever sees quads that the writer has committed.
LEMMA ReaderStep ==
    ASSUME Inv, NEW S, NEW c \in Looks(S), Performs(c), {1, 2} \subseteq Txs,
           quads \subseteq S, tx[2].working \subseteq S, ~tx[2].writable
    PROVE  /\ UNCHANGED <<quads, version>> /\ tx'[1] = tx[1]
           /\ tx'[2].working \subseteq S /\ ~tx'[2].writable
           /\ wrong' = wrong /\ [Next]_vars
<1>1. tx \in [Txs -> Txn] /\ 1 \in Txs /\ 2 \in Txs /\ 1 # 2
    BY DEF Inv
<1>2. CASE c = C!BeginRead(2)
  <2>1. c.op = "begin_read" /\ c.tx = 2 /\ c.accepts = {"ok"}
      BY <1>2 DEF C!BeginRead, C!Call
  <2>2. BeginRead(2) /\ Returned("ok", c)
      BY <2>1 DEF Performs
  <2>3. wrong' = wrong
      BY <2>1, <2>2 DEF Returned
  <2>4. Next
      BY <1>1, <2>2 DEF Next, Transaction
  <2>5. /\ UNCHANGED <<quads, version>>
        /\ tx' = [tx EXCEPT ![2] = [open |-> TRUE, writable |-> FALSE,
                                    base_version |-> version, working |-> quads]]
      BY <2>2 DEF BeginRead, Begin
  <2> QED
      BY <1>1, <2>3, <2>4, <2>5
<1>3. CASE c = C!Rollback(2)
  <2>1. c.op = "rollback" /\ c.tx = 2 /\ c.accepts = {"ok"}
      BY <1>3 DEF C!Rollback, C!Call
  <2>2. Rollback(2) /\ Returned("ok", c)
      BY <2>1 DEF Performs
  <2>3. wrong' = wrong
      BY <2>1, <2>2 DEF Returned
  <2>4. Next
      BY <1>1, <2>2 DEF Next, Transaction
  <2>5. UNCHANGED <<quads, version>> /\ tx' = [tx EXCEPT ![2] = NoTx]
      BY <2>2 DEF Rollback, Ends
  <2> QED
      BY <1>1, <2>3, <2>4, <2>5 DEF NoTx
<1>4. CASE c = LookAt(S)
  <2>1. c.op = "scan" /\ c.tx = 2 /\ c.accepts = SUBSET S
      BY <1>4 DEF LookAt
  <2>2. Reads(c, quads_for_pattern(2, c.pattern))
      BY <2>1 DEF Performs
  <2>3. quads_for_pattern(2, c.pattern) \in c.accepts
      BY <2>1 DEF quads_for_pattern
  <2> QED
      BY <2>2, <2>3 DEF Reads, Returned, vars
<1> QED
    BY <1>2, <1>3, <1>4 DEF Looks

LEMMA InjectiveCount ==
    ASSUME NEW b \in Seq(Quads), C!IsInjective(b)
    PROVE  Cardinality(C!Range(b)) = Len(b)
<1> DEFINE n == Len(b)
<1>1. n \in Nat /\ DOMAIN b = 1 .. n /\ b \in [1 .. n -> C!Range(b)]
    BY FrontIs DEF C!Range
<1>2. b \in Bijection(1 .. n, C!Range(b))
    BY <1>1, Zenon DEF Bijection, Injection, Surjection, IsInjective, C!IsInjective, C!Range
<1>3. IsFiniteSet(1 .. n) /\ Cardinality(1 .. n) = n
  <2>1. 1 \in Int /\ n \in Int
      BY <1>1
  <2> HIDE DEF n
  <2> QED
      BY <1>1, <2>1, FS_Interval
<1> HIDE DEF n
<1>4. Cardinality(C!Range(b)) = Cardinality(1 .. n)
    BY <1>2, <1>3, FS_Bijection DEF ExistsBijection
<1> QED
    BY <1>3, <1>4 DEF n

-----------------------------------------------------------------------------
(* The contract holds *)

One(s) == \E calls : s = <<calls>> /\ Accepted(calls)

LEMMA OneIs == \A calls : Accepted(calls) => One(<<calls>>)
BY DEF One

LEMMA PatternCheckIs ==
    ASSUME NEW b \in Seq(Quads), NEW bound, NEW s \in PatternChecks(b, bound)
    PROVE  One(s)
<1>1. \A q \in C!Range(b) : \E i \in DOMAIN b : q = b[i]
    BY Zenon DEF C!Range
<1>2. ASSUME s \in {<<C!pattern(b, C!Like(q, bound))>> : q \in Quads \cup {Nowhere}} PROVE One(s)
    BY <1>2, PatternAccepted, OneIs, Zenon
<1>3. ASSUME s \in {<<C!pattern_from_member(b, q, bound)>> : q \in C!Range(b)} PROVE One(s)
    BY <1>1, <1>3, PatternFromMemberAccepted, OneIs, Zenon
<1> QED
    BY <1>2, <1>3, Zenon DEF PatternChecks

LEMMA CheckOfIs ==
    ASSUME NEW b \in Seq(Quads), NEW s \in ChecksOf(b)
    PROVE  One(s)
<1>1. ASSUME s \in {<<C!round_trip(b)>>, <<C!idempotent_insert(b)>>, <<C!named_graphs(b)>>} PROVE One(s)
  <2>1. One(<<C!round_trip(b)>>) /\ One(<<C!idempotent_insert(b)>>) /\ One(<<C!named_graphs(b)>>)
      BY RoundTripAccepted, IdempotentInsertAccepted, NamedGraphsAccepted, OneIs, Zenon
  <2> QED
      BY <1>1, <2>1, Zenon
<1>2. ASSUME s \in {<<C!delete_after_insert(b, q)>> : q \in Quads} PROVE One(s)
    BY <1>2, DeleteAfterInsertAccepted, OneIs, Zenon
<1>3. ASSUME s \in {<<C!read_only_rejects_writes(b, q)>> : q \in Quads} PROVE One(s)
    BY <1>3, ReadOnlyAccepted, OneIs, Zenon
<1>4. ASSUME s \in {<<C!named_graphs_track_removals(b, at)>> : at \in Marked(b)} PROVE One(s)
    BY <1>4, TrackRemovalsAccepted, OneIs, Zenon
<1>5. ASSUME s \in UNION {PatternChecks(b, bound) : bound \in Positions} PROVE One(s)
    BY <1>5, PatternCheckIs, Zenon
<1> QED
    BY <1>1, <1>2, <1>3, <1>4, <1>5, Zenon DEF ChecksOf

LEMMA CheckOfTwoIs ==
    ASSUME NEW b \in Seq(Quads), NEW w \in Seq(Quads), NEW s \in ChecksOfTwo(b, w)
    PROVE  One(s)
<1>1. C!snapshot_reads(TRUE, b, w) = C!snapshot_reads(SnapshotIsolation, b, w)
    BY Zenon DEF SnapshotIsolation
<1>2. /\ One(<<C!rollback_and_isolation(b, w)>>) /\ One(<<C!drop_discards_writes(b, w)>>)
      /\ One(<<C!snapshot_reads(SnapshotIsolation, b, w)>>)
    BY <1>1, RollbackAccepted, DropDiscardsAccepted, SnapshotAccepted, OneIs, Zenon
<1> QED
    BY <1>2, Zenon DEF ChecksOfTwo

LEMMA ExampleIs ==
    ASSUME NEW s \in Examples
    PROVE  One(s)
<1> DEFINE empty == {<<C!empty_store_is_empty>>}
           T == {q \in [1 .. 3 -> Quads] : OneTriple(q)}
           A == {q \in [1 .. 3 -> Quads] : Cardinality(C!Range(q)) = 3}
           graphs == {<<C!graphs_are_separate(q[1], q[2], q[3], Nowhere)>> : q \in T}
           writes == {<<C!writes_after_rollback(q[1], q[2], q[3])>> : q \in A}
<1>1. Examples = empty \cup graphs \cup writes
    BY Zenon DEF Examples
<1>2. \A q \in [1 .. 3 -> Quads] : q[1] \in Quads /\ q[2] \in Quads /\ q[3] \in Quads
    OBVIOUS
<1>3. ASSUME s \in empty PROVE One(s)
    BY <1>3, EmptyStoreAccepted, OneIs, Zenon
<1>4. ASSUME s \in graphs PROVE One(s)
    BY <1>4, GraphsAreSeparateAccepted, OneIs, Zenon
<1>5. ASSUME s \in writes PROVE One(s)
    BY <1>2, <1>5, WritesAfterRollbackAccepted, OneIs, Zenon
<1> HIDE DEF empty, graphs, writes
<1> QED
    BY <1>1, <1>3, <1>4, <1>5

\* A script has one thread and is accepted, or is the one of several threads.
LEMMA ScriptIs ==
    ASSUME NEW s \in Scripts
    PROVE  \/ One(s)
           \/ \E b \in Base : C!IsInjective(b) /\ s = C!shareable_across_threads(b)
<1>1. \A b \in Base : b \in Seq(Quads)
    BY ContractAssumption
<1>2. ASSUME s \in ListChecks PROVE One(s)
    BY <1>1, <1>2, CheckOfIs, Zenon DEF ListChecks
<1>3. ASSUME s \in PairChecks PROVE One(s)
  <2>1. PICK b \in Base \X Base : s \in ChecksOfTwo(b[1], b[2])
      BY <1>3, Zenon DEF PairChecks
  <2>2. b[1] \in Base /\ b[2] \in Base
      OBVIOUS
  <2> QED
      BY <1>1, <2>1, <2>2, CheckOfTwoIs, Zenon
<1>4. ASSUME s \in ThreadChecks
      PROVE  \E b \in Base : C!IsInjective(b) /\ s = C!shareable_across_threads(b)
    BY <1>4, Zenon DEF ThreadChecks
<1>5. ASSUME s \in Examples PROVE One(s)
    BY <1>5, ExampleIs, Zenon
<1>6. s \in ListChecks \/ s \in PairChecks \/ s \in Examples \/ s \in ThreadChecks
    BY DEF Scripts
<1> QED
    BY <1>2, <1>3, <1>4, <1>5, <1>6

\* Where the thread of a check is in its run.
OneThread ==
    \E calls, ann, W :
        /\ script = <<calls>> /\ IsList(calls) /\ IsRun(ann, Fresh, calls, W)
        /\ DOMAIN pc = {1} /\ pc[1] \in 0 .. Len(calls)
        /\ View({1, 2}) = ann[pc[1]]

\* Where the writer is in its run, whatever the reader does meanwhile.
WriterAndReader ==
    \E b \in Base : \E ann :
        /\ C!IsInjective(b) /\ script = C!shareable_across_threads(b)
        /\ IsRun(ann, Idle({1}, {}), script[1], Idle({1}, C!Range(b)))
        /\ DOMAIN pc = 1 .. 3 /\ \A j \in 1 .. 3 : pc[j] \in 0 .. Len(script[j])
        /\ View({1}) = ann[pc[1]]
        /\ quads \subseteq C!Range(b) /\ tx[1].working \subseteq C!Range(b)
        /\ tx[2].working \subseteq C!Range(b) /\ ~tx[2].writable

ContractInv ==
    /\ Inv /\ CopyIsReplay /\ wrong = {}
    /\ script = Free \/ OneThread \/ WriterAndReader

LEMMA ContractStarts == ContractInit => ContractInv
<1> SUFFICES ASSUME ContractInit PROVE ContractInv
    OBVIOUS
<1>1. Inv /\ CopyIsReplay /\ wrong = {}
    BY InitInv DEF ContractInit, Init, CopyIsReplay, NoTx
<1>2. /\ {1, 2} \subseteq Txs /\ quads = {} /\ tx = [t \in Txs |-> NoTx]
      /\ script \in Scripts \cup {Free} /\ pc = [i \in DOMAIN script |-> 0]
    BY ContractAssumption DEF ContractInit, Init
<1>3. ASSUME NEW O \in SUBSET Txs PROVE View(O) = Idle(O, {})
  <2>1. \A t \in O : Observed(t) = Closed
      BY <1>2 DEF Observed, Closed, NoTx
  <2> QED
      BY <1>2, <2>1 DEF View, Idle
<1>4. ASSUME NEW calls, script = <<calls>>, Accepted(calls) PROVE OneThread
  <2>1. PICK W : Runs(Fresh, calls, W)
      BY <1>4 DEF Accepted
  <2>2. IsList(calls) /\ Len(calls) \in Nat
      BY <2>1, ListSum DEF Runs
  <2>3. PICK ann : IsRun(ann, Fresh, calls, W)
      BY <2>1 DEF Runs
  <2>4. DOMAIN pc = {1} /\ pc[1] = 0
      BY <1>2, <1>4
  <2>5. View({1, 2}) = ann[pc[1]]
      BY <1>2, <1>3, <2>3, <2>4 DEF IsRun, Fresh
  <2>6. pc[1] \in 0 .. Len(calls)
      BY <2>2, <2>4
  <2> QED
      BY <1>4, <2>2, <2>3, <2>4, <2>5, <2>6, Zenon DEF OneThread
<1>5. ASSUME NEW b \in Base, C!IsInjective(b), script = C!shareable_across_threads(b)
      PROVE  WriterAndReader
  <2>1. b \in Seq(Quads)
      BY ContractAssumption
  <2>2. /\ Runs(Idle({1}, {}), script[1], Idle({1}, C!Range(b))) /\ DOMAIN script = 1 .. 3
        /\ script[1] \in Seq(Writes(C!Range(b))) /\ script[2] \in Seq(Looks(C!Range(b)))
        /\ script[3] = <<C!Count(Len(b))>>
      BY <1>5, <2>1, SharedScript
  <2>3. PICK ann : IsRun(ann, Idle({1}, {}), script[1], Idle({1}, C!Range(b)))
      BY <2>2 DEF Runs
  <2>4. Len(script[1]) \in Nat /\ Len(script[2]) \in Nat /\ Len(script[3]) \in Nat
      BY <2>2
  <2>5. DOMAIN pc = 1 .. 3 /\ pc[1] = 0 /\ pc[2] = 0 /\ pc[3] = 0
      BY <1>2, <2>2
  <2>6. View({1}) = ann[pc[1]]
      BY <1>2, <1>3, <2>3, <2>5 DEF IsRun
  <2>7. ASSUME NEW j \in 1 .. 3 PROVE pc[j] \in 0 .. Len(script[j])
    <3>1. j = 1 \/ j = 2 \/ j = 3
        OBVIOUS
    <3> QED
        BY <2>4, <2>5, <3>1
  <2>8. /\ quads \subseteq C!Range(b) /\ tx[1].working \subseteq C!Range(b)
        /\ tx[2].working \subseteq C!Range(b) /\ ~tx[2].writable
      BY <1>2 DEF NoTx
  <2> QED
      BY <1>5, <2>3, <2>5, <2>6, <2>7, <2>8, Zenon DEF WriterAndReader
<1>6. script = Free \/ OneThread \/ WriterAndReader
    BY <1>2, <1>4, <1>5, ScriptIs, Zenon DEF One
<1> QED
    BY <1>1, <1>6 DEF ContractInv

\* A call of the thread of a check.
LEMMA OneThreadStep ==
    ASSUME Inv, CopyIsReplay, OneThread, NEW i \in DOMAIN script, Thread(i)
    PROVE  OneThread' /\ wrong' = wrong /\ [Next]_vars
<1>1. PICK calls, ann, W :
          /\ script = <<calls>> /\ IsList(calls) /\ IsRun(ann, Fresh, calls, W)
          /\ DOMAIN pc = {1} /\ pc[1] \in 0 .. Len(calls)
          /\ View({1, 2}) = ann[pc[1]]
    BY Zenon DEF OneThread
<1> DEFINE n == pc[1]
<1>2. i = 1 /\ script[1] = calls
    BY <1>1
<1>3. Len(calls) \in Nat
    BY <1>1, ListSum
<1>4. /\ n # Len(calls) /\ Performs(calls[n + 1])
      /\ pc' = [pc EXCEPT ![1] = n + 1] /\ script' = script
    BY <1>2 DEF Thread, Ended
<1>5. n + 1 \in 1 .. Len(calls) /\ n + 1 \in 0 .. Len(calls) /\ (n + 1) - 1 = n
    BY <1>1, <1>3, <1>4
<1>6. Does(View({1, 2}), calls[n + 1], ann[n + 1])
    BY <1>1, <1>5 DEF IsRun
<1>7. View({1, 2})' = ann[n + 1] /\ wrong' = wrong /\ [Next]_vars
  <2>1. {1, 2} \in SUBSET Txs
      BY ContractAssumption
  <2> HIDE DEF n
  <2> QED
      BY <1>4, <1>6, <2>1, CallView, Zenon
<1>8. DOMAIN pc' = {1} /\ pc'[1] = n + 1
    BY <1>1, <1>4
<1>9. OneThread'
  <2>1. script' = <<calls>> /\ pc'[1] \in 0 .. Len(calls) /\ View({1, 2})' = ann[pc'[1]]
      BY <1>1, <1>4, <1>5, <1>7, <1>8
  <2> QED
      BY <1>1, <1>8, <2>1, Zenon DEF OneThread
<1> QED
    BY <1>7, <1>9

\* A call of the writer, of the reader, or of the thread that waits for both.
LEMMA SharedStep ==
    ASSUME Inv, CopyIsReplay, WriterAndReader, NEW i \in DOMAIN script, Thread(i)
    PROVE  WriterAndReader' /\ wrong' = wrong /\ [Next]_vars
<1>0. PICK b \in Base : \E ann :
          /\ C!IsInjective(b) /\ script = C!shareable_across_threads(b)
          /\ IsRun(ann, Idle({1}, {}), script[1], Idle({1}, C!Range(b)))
          /\ DOMAIN pc = 1 .. 3 /\ \A j \in 1 .. 3 : pc[j] \in 0 .. Len(script[j])
          /\ View({1}) = ann[pc[1]]
          /\ quads \subseteq C!Range(b) /\ tx[1].working \subseteq C!Range(b)
          /\ tx[2].working \subseteq C!Range(b) /\ ~tx[2].writable
    BY Zenon DEF WriterAndReader
<1>1. PICK ann :
          /\ C!IsInjective(b) /\ script = C!shareable_across_threads(b)
          /\ IsRun(ann, Idle({1}, {}), script[1], Idle({1}, C!Range(b)))
          /\ DOMAIN pc = 1 .. 3 /\ \A j \in 1 .. 3 : pc[j] \in 0 .. Len(script[j])
          /\ View({1}) = ann[pc[1]]
          /\ quads \subseteq C!Range(b) /\ tx[1].working \subseteq C!Range(b)
          /\ tx[2].working \subseteq C!Range(b) /\ ~tx[2].writable
    BY <1>0, Zenon
<1> DEFINE S == C!Range(b)
           s == script
<1>2. b \in Seq(Quads) /\ {1, 2} \subseteq Txs /\ {1} \in SUBSET Txs
    BY ContractAssumption
<1>3. /\ s[1] \in Seq(Writes(S)) /\ s[2] \in Seq(Looks(S)) /\ s[3] = <<C!Count(Len(b))>>
      /\ DOMAIN s = 1 .. 3 /\ Len(s) = 3
    BY <1>1, <1>2, SharedScript
<1>4. /\ ~Ended(i) /\ Performs(s[i][pc[i] + 1]) /\ script' = script
      /\ pc' = [pc EXCEPT ![i] = pc[i] + 1]
      /\ i = 3 => Ended(1)
    BY <1>3 DEF Thread
<1>5. i \in {1, 2, 3} /\ tx \in [Txs -> Txn] /\ 1 \in Txs /\ 2 \in Txs
    BY <1>2, <1>3 DEF Inv
<1> HIDE DEF S
<1>6. /\ \A j \in 1 .. 3 : Len(s[j]) \in Nat /\ DOMAIN s[j] = 1 .. Len(s[j])
      /\ pc[i] + 1 \in 1 .. Len(s[i]) /\ pc[i] + 1 \in 0 .. Len(s[i]) /\ (pc[i] + 1) - 1 = pc[i]
      /\ \A j \in 1 .. 3 : pc'[j] = IF j = i THEN pc[i] + 1 ELSE pc[j]
  <2>1. ASSUME NEW j \in 1 .. 3 PROVE Len(s[j]) \in Nat /\ DOMAIN s[j] = 1 .. Len(s[j])
    <3>1. j = 1 \/ j = 2 \/ j = 3
        OBVIOUS
    <3> QED
        BY <1>3, <3>1
  <2>2. pc[i] \in 0 .. Len(s[i]) /\ pc[i] # Len(s[i]) /\ Len(s[i]) \in Nat
      BY <1>1, <1>3, <1>4, <2>1 DEF Ended
  <2>3. pc[i] + 1 \in 1 .. Len(s[i]) /\ pc[i] + 1 \in 0 .. Len(s[i]) /\ (pc[i] + 1) - 1 = pc[i]
      BY <2>2
  <2>4. \A j \in 1 .. 3 : pc'[j] = IF j = i THEN pc[i] + 1 ELSE pc[j]
      BY <1>1, <1>4
  <2> QED
      BY <2>1, <2>3, <2>4
<1>7. ASSUME View({1})' = ann[pc'[1]], quads' \subseteq S, tx'[1].working \subseteq S,
             tx'[2].working \subseteq S, ~tx'[2].writable
      PROVE  WriterAndReader'
  <2>1. DOMAIN pc' = 1 .. 3
      BY <1>1, <1>4
  <2>2. ASSUME NEW j \in 1 .. 3 PROVE pc'[j] \in 0 .. Len(script'[j])
      BY <1>1, <1>4, <1>6
  <2>3. /\ C!IsInjective(b) /\ script' = C!shareable_across_threads(b)
        /\ IsRun(ann, Idle({1}, {}), script'[1], Idle({1}, C!Range(b)))
        /\ DOMAIN pc' = 1 .. 3 /\ \A j \in 1 .. 3 : pc'[j] \in 0 .. Len(script'[j])
        /\ View({1})' = ann[pc'[1]]
        /\ quads' \subseteq C!Range(b) /\ tx'[1].working \subseteq C!Range(b)
        /\ tx'[2].working \subseteq C!Range(b) /\ ~tx'[2].writable
      BY <1>1, <1>4, <1>7, <2>1, <2>2, Zenon DEF S
  <2> QED
      BY <2>3, Zenon DEF WriterAndReader
<1> DEFINE n == pc[i]
           c == s[i][n + 1]
<1>8. c = s[i][n + 1] /\ Performs(c)
    BY <1>4
<1>9. CASE i = 1
  <2>1. c \in Writes(S)
      BY <1>3, <1>6, <1>9
  <2>2. Does(View({1}), c, ann[n + 1])
      BY <1>1, <1>6, <1>9 DEF IsRun
  <2>3. pc'[1] = n + 1
      BY <1>6, <1>9
  <2> HIDE DEF c
  <2>4. View({1})' = ann[n + 1] /\ wrong' = wrong /\ [Next]_vars
    <3> HIDE DEF n
    <3> QED
        BY <1>2, <1>8, <2>2, CallView, Zenon
  <2>5. quads' \subseteq S /\ tx'[1].working \subseteq S /\ tx'[2] = tx[2]
      BY <1>1, <1>2, <1>8, <2>1, WriterStep, Zenon DEF S
  <2> QED
      BY <1>1, <1>7, <2>3, <2>4, <2>5 DEF S
<1>10. CASE i = 2
  <2>1. c \in Looks(S)
      BY <1>3, <1>6, <1>10
  <2>2. pc'[1] = pc[1]
      BY <1>6, <1>10
  <2> HIDE DEF c
  <2>3. /\ quads' = quads /\ version' = version /\ tx'[1] = tx[1]
        /\ tx'[2].working \subseteq S /\ ~tx'[2].writable /\ wrong' = wrong /\ [Next]_vars
      BY <1>1, <1>2, <1>8, <2>1, ReaderStep, Zenon DEF S
  <2>4. View({1})' = View({1})
      BY <2>3 DEF View, Observed
  <2> QED
      BY <1>1, <1>7, <2>2, <2>3, <2>4 DEF S
<1>11. CASE i = 3
  <2>1. s[3] = <<C!Count(Len(b))>> /\ Len(s[3]) = 1
      BY <1>3
  <2>2. n + 1 = 1
      BY <1>1, <1>6, <1>11, <2>1
  <2>3. c = C!Count(Len(b))
      BY <1>11, <2>1, <2>2
  <2>4. View({1}) = Idle({1}, S) /\ pc'[1] = pc[1]
      BY <1>1, <1>4, <1>6, <1>11 DEF Ended, IsRun, S
  <2>5. C!Cardinality(S) = Len(b)
    <3>1. C!Cardinality(S) = Cardinality(S)
        BY DEF C!Cardinality, Cardinality
    <3> QED
        BY <1>1, <1>2, <3>1, InjectiveCount DEF S
  <2> HIDE DEF c
  <2>6. Does(View({1}), c, View({1}))
      BY <2>3, <2>4, <2>5, IdleCount
  <2>7. View({1})' = View({1}) /\ wrong' = wrong /\ [Next]_vars
      BY <1>2, <1>8, <2>6, CallView, Zenon
  <2>8. UNCHANGED vars
    <3>1. c.op = "quad_count"
        BY <2>3 DEF C!Count, C!Call
    <3> QED
        BY <1>8, <3>1 DEF Performs, Reads
  <2> QED
      BY <1>1, <1>7, <2>4, <2>7, <2>8 DEF S, vars
<1> QED
    BY <1>5, <1>9, <1>10, <1>11

LEMMA ContractKept == ContractInv /\ [ContractNext]_cvars => ContractInv'
<1> SUFFICES ASSUME ContractInv, [ContractNext]_cvars PROVE ContractInv'
    OBVIOUS
<1>1. Inv /\ CopyIsReplay /\ wrong = {} /\ (script = Free \/ OneThread \/ WriterAndReader)
    BY DEF ContractInv
<1>2. ASSUME [Next]_vars PROVE Inv' /\ CopyIsReplay'
    BY <1>1, <1>2, NextKeepsInv, ReplayInvariant
<1>3. CASE AnyCall
  <2>1. Next /\ script = Free /\ script' = script /\ wrong' = wrong
      BY <1>3 DEF AnyCall
  <2> QED
      BY <1>1, <1>2, <2>1 DEF ContractInv
<1>4. ASSUME NEW i \in DOMAIN script, Thread(i) PROVE ContractInv'
  <2>1. script # Free
      BY <1>4 DEF Free
  <2>2. CASE OneThread
      BY <1>1, <1>2, <1>4, <2>2, OneThreadStep DEF ContractInv
  <2>3. CASE WriterAndReader
      BY <1>1, <1>2, <1>4, <2>3, SharedStep DEF ContractInv
  <2> QED
      BY <1>1, <2>1, <2>2, <2>3
<1>5. CASE UNCHANGED cvars
  <2>1. UNCHANGED vars /\ wrong' = wrong /\ script' = script /\ pc' = pc
      BY <1>5 DEF cvars, vars
  <2>2. \A O : View(O)' = View(O)
      BY <2>1 DEF View, Observed, vars
  <2>3. OneThread => OneThread'
      BY <2>1, <2>2, Zenon DEF OneThread
  <2>4. WriterAndReader => WriterAndReader'
      BY <2>1, <2>2, Zenon DEF WriterAndReader, vars
  <2> QED
      BY <1>1, <1>2, <2>1, <2>3, <2>4 DEF ContractInv
<1> QED
    BY <1>3, <1>4, <1>5 DEF ContractNext, Passed

\* MemStore meets the storage contract: whatever lists, patterns and examples
\* the checks of contract.rs are run with, and however the threads of
\* shareable_across_threads interleave, each of their calls returns what the
\* check accepts.
THEOREM MemStoreMeetsContract == ContractSpec => []ContractHolds
<1>1. ContractInv => ContractHolds
    BY DEF ContractInv, ContractHolds
<1> QED
    BY <1>1, ContractStarts, ContractKept, PTL DEF ContractSpec
=============================================================================
