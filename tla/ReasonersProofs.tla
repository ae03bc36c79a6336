-------------------------- MODULE ReasonersProofs --------------------------
(***************************************************************************)
(* Proofs about DocStore and Reasoners, for any quads, shapes, programs    *)
(* and bounds.                                                             *)
(***************************************************************************)
EXTENDS Reasoners, CommonProofs

-----------------------------------------------------------------------------
(* The store *)

DocShape ==
    /\ base \in [Quads -> {0, 1}]
    /\ tx \in [open : BOOLEAN, inserted : SUBSET Quads, removed : SUBSET Quads]

\* The transaction stages the insertion of quads that are not committed, and
\* the removal of quads that are.
Staged ==
    /\ \A q \in tx.inserted : base[q] = 0
    /\ \A q \in tx.removed : base[q] = 1
    /\ ~tx.open => tx.inserted = {} /\ tx.removed = {}

DocInv == DocShape /\ Staged

LEMMA DocInitInv == DocInit => DocInv
BY DEF DocInit, DocInv, DocShape, Staged, NoTx

\* What a transaction sees has each quad at most once.
LEMMA SnapshotIsASet ==
    ASSUME DocInv
    PROVE  /\ snapshot \in [Quads -> {0, 1}]
           /\ \A q \in Quads : snapshot[q] = 1 <=> q \in tx.inserted \/ (base[q] = 1 /\ q \notin tx.removed)
<1>1. \A q \in Quads : base[q] \in {0, 1}
    BY DEF DocInv, DocShape
<1>2. \A q \in Quads : q \in tx.inserted => base[q] = 0 /\ q \notin tx.removed
    BY DEF DocInv, DocShape, Staged
<1>3. \A q \in Quads : snapshot[q] = (IF q \in tx.removed THEN 0 ELSE base[q])
                                     + (IF q \in tx.inserted THEN 1 ELSE 0)
    BY DEF snapshot
<1>4. \A q \in Quads : snapshot[q] \in {0, 1}
    BY <1>1, <1>2, <1>3
<1>5. \A q \in Quads : snapshot[q] = 1 <=> q \in tx.inserted \/ (base[q] = 1 /\ q \notin tx.removed)
    BY <1>1, <1>2, <1>3
<1> QED
    BY <1>4, <1>5 DEF snapshot

LEMMA InsertKeepsInv ==
    ASSUME DocInv, NEW q \in Quads, insert(q)
    PROVE  DocInv'
<1>1. base' = base
    BY DEF insert, Returns
<1>2. contains(q) <=> q \in tx.inserted \/ (base[q] = 1 /\ q \notin tx.removed)
    BY SnapshotIsASet DEF contains
<1>3. base[q] \in {0, 1}
    BY DEF DocInv, DocShape
<1>4. CASE contains(q)
    BY <1>1, <1>4 DEF insert, DocInv, DocShape, Staged
<1>5. CASE ~contains(q) /\ q \in tx.removed
    BY <1>1, <1>5 DEF insert, Returns, DocInv, DocShape, Staged
<1>6. CASE ~contains(q) /\ q \notin tx.removed
  <2>1. base[q] = 0
      BY <1>2, <1>3, <1>6
  <2>2. tx' = [tx EXCEPT !.inserted = @ \cup {q}]
      BY <1>6 DEF insert
  <2> QED
      BY <1>1, <2>1, <2>2 DEF insert, Returns, DocInv, DocShape, Staged
<1> QED
    BY <1>4, <1>5, <1>6

LEMMA RemoveKeepsInv ==
    ASSUME DocInv, NEW q \in Quads, remove(q)
    PROVE  DocInv'
<1>1. base' = base
    BY DEF remove, Returns
<1>2. contains(q) <=> q \in tx.inserted \/ (base[q] = 1 /\ q \notin tx.removed)
    BY SnapshotIsASet DEF contains
<1>3. CASE ~contains(q)
    BY <1>1, <1>3 DEF remove, DocInv, DocShape, Staged
<1>4. CASE contains(q) /\ q \in tx.inserted
    BY <1>1, <1>4 DEF remove, Returns, DocInv, DocShape, Staged
<1>5. CASE contains(q) /\ q \notin tx.inserted
  <2>1. base[q] = 1
      BY <1>2, <1>5
  <2>2. tx' = [tx EXCEPT !.removed = @ \cup {q}]
      BY <1>5 DEF remove
  <2> QED
      BY <1>1, <2>1, <2>2 DEF remove, Returns, DocInv, DocShape, Staged
<1> QED
    BY <1>3, <1>4, <1>5

LEMMA CommitKeepsInv ==
    ASSUME DocInv, commit
    PROVE  DocInv'
BY SnapshotIsASet DEF commit, NoTx, DocInv, DocShape, Staged

LEMMA BulkKeepsInv ==
    ASSUME DocInv, Bulk
    PROVE  DocInv'
<1>1. base \in [Quads -> {0, 1}] /\ tx' = tx /\ tx.inserted = {} /\ tx.removed = {}
    BY DEF DocInv, DocShape, Staged, Bulk
<1>2. base' \in [Quads -> {0, 1}]
    BY <1>1 DEF Bulk, Loaded, Unloaded
<1> QED
    BY <1>1, <1>2 DEF DocInv, DocShape, Staged

LEMMA DocNextKeepsInv == DocInv /\ [DocNext]_dvars => DocInv'
<1> SUFFICES ASSUME DocInv, [DocNext]_dvars PROVE DocInv'
    OBVIOUS
<1>1. CASE begin_write
    BY <1>1 DEF begin_write, NoTx, DocInv, DocShape, Staged
<1>2. ASSUME NEW q \in Quads, DocCall(q) PROVE DocInv'
  <2>1. CASE insert(q)
      BY <2>1, InsertKeepsInv
  <2>2. CASE remove(q)
      BY <2>2, RemoveKeepsInv
  <2>3. CASE look(q)
      BY <2>3 DEF look, Returns, DocInv, DocShape, Staged
  <2> QED
      BY <1>2, <2>1, <2>2, <2>3 DEF DocCall
<1>3. CASE commit
    BY <1>3, CommitKeepsInv
<1>4. CASE rollback
    BY <1>4 DEF rollback, NoTx, DocInv, DocShape, Staged
<1>5. CASE Bulk
    BY <1>5, BulkKeepsInv
<1>6. CASE UNCHANGED dvars
    BY <1>6 DEF dvars, DocInv, DocShape, Staged
<1> QED
    BY <1>1, <1>2, <1>3, <1>4, <1>5, <1>6 DEF DocNext

\* However a transaction inserts and removes (storage.rs, MemTx::insert, remove
\* and commit), the vector never holds a quad twice, nor does a scan yield one
\* twice.
THEOREM VectorIsASet == DocSpec => []NoQuadTwice
<1>1. DocInv => NoQuadTwice
  <2> SUFFICES ASSUME DocInv, NEW q \in Quads PROVE base[q] <= 1 /\ snapshot[q] <= 1
      BY DEF NoQuadTwice
  <2>1. base[q] \in {0, 1} /\ snapshot[q] \in {0, 1}
      BY SnapshotIsASet DEF DocInv, DocShape
  <2> QED
      BY <2>1
<1> QED
    BY DocInitInv, DocNextKeepsInv, <1>1, PTL DEF DocSpec

\* The quads that the transaction sees.
View == {q \in Quads : contains(q)}

LEMMA ViewIsStaged ==
    DocInv => View = {q \in Quads : q \in tx.inserted \/ (base[q] = 1 /\ q \notin tx.removed)}
<1> SUFFICES ASSUME DocInv
             PROVE  View = {q \in Quads : q \in tx.inserted \/ (base[q] = 1 /\ q \notin tx.removed)}
    OBVIOUS
<1>1. \A q \in Quads : snapshot[q] \in {0, 1}
    BY SnapshotIsASet
<1>2. \A q \in Quads : contains(q) <=> snapshot[q] = 1
    BY <1>1 DEF contains
<1> QED
    BY <1>2, SnapshotIsASet DEF View

LEMMA ViewIsStagedNext ==
    DocInv' => (View = {q \in Quads : q \in tx.inserted \/ (base[q] = 1 /\ q \notin tx.removed)})'
BY ViewIsStaged, PTL

LogInv ==
    /\ log \in Seq(Calls(Quads))
    /\ tx.open => Legal(start, log) /\ Replay(start, log) = View

\* A call that returns what is promised, and leaves what it should to be seen,
\* goes with its log.
LEMMA ReturnsKeepsLog ==
    ASSUME LogInv, NEW op \in Operations, NEW q \in Quads, NEW result \in BOOLEAN,
           Returns(op, q, result),
           Promised(View, [op |-> op, quad |-> q, result |-> result]),
           View' = After(View, [op |-> op, quad |-> q, result |-> result])
    PROVE  LogInv'
<1> DEFINE c == [op |-> op, quad |-> q, result |-> result]
<1>1. c \in Calls(Quads) /\ c.op \in Operations
    BY DEF Calls
<1>2. log' = Append(log, c) /\ start' = start /\ tx.open
    BY DEF Returns
<1>3. log \in Seq(Calls(Quads)) /\ Legal(start, log) /\ Replay(start, log) = View
    BY <1>2 DEF LogInv
<1> HIDE DEF c
<1>4. Legal(start, Append(log, c))
    BY <1>1, <1>3, LegalOneMore DEF c
<1>5. Replay(start, Append(log, c)) = After(View, c)
    BY <1>1, <1>3, ReplayOneMore
<1> QED
    BY <1>1, <1>2, <1>3, <1>4, <1>5 DEF LogInv, c

LEMMA InsertKeepsLog ==
    ASSUME DocInv, LogInv, NEW q \in Quads, insert(q)
    PROVE  LogInv'
<1> DEFINE c == [op |-> "insert", quad |-> q, result |-> ~contains(q)]
<1>1. Returns("insert", q, ~contains(q))
    BY DEF insert
<1>2. DocInv' /\ base' = base
    BY InsertKeepsInv DEF insert, Returns
<1>3. contains(q) <=> q \in View
    BY DEF View
<1>4. /\ View = {p \in Quads : p \in tx.inserted \/ (base[p] = 1 /\ p \notin tx.removed)}
      /\ View' = {p \in Quads : p \in tx'.inserted \/ (base[p] = 1 /\ p \notin tx'.removed)}
    BY <1>2, ViewIsStaged, ViewIsStagedNext
<1>5. View' = View \cup {q}
  <2>1. CASE q \in View
      BY <1>3, <1>4, <2>1 DEF insert
  <2>2. CASE q \notin View /\ q \in tx.removed
    <3>1. base[q] = 1
        BY <2>2 DEF DocInv, Staged
    <3>2. tx' = [tx EXCEPT !.removed = @ \ {q}]
        BY <1>3, <2>2 DEF insert
    <3>3. tx'.inserted = tx.inserted /\ tx'.removed = tx.removed \ {q}
        BY <3>2 DEF DocInv, DocShape
    <3> QED
        BY <1>4, <3>1, <3>3
  <2>3. CASE q \notin View /\ q \notin tx.removed
    <3>1. tx' = [tx EXCEPT !.inserted = @ \cup {q}]
        BY <1>3, <2>3 DEF insert
    <3>2. tx'.inserted = tx.inserted \cup {q} /\ tx'.removed = tx.removed
        BY <3>1 DEF DocInv, DocShape
    <3> QED
        BY <1>4, <3>2
  <2> QED
      BY <2>1, <2>2, <2>3
<1>6. (~contains(q)) \in BOOLEAN
    BY DEF contains
<1>7. Promised(View, c)
  <2>1. (~contains(q)) = (q \notin View)
      BY <1>3 DEF contains
  <2>2. c.result = (~contains(q)) /\ c.op = "insert" /\ c.quad = q
      OBVIOUS
  <2> QED
      BY <2>1, <2>2 DEF Promised
<1>8. View' = After(View, c)
    BY <1>5 DEF After
<1> QED
    BY <1>1, <1>6, <1>7, <1>8, ReturnsKeepsLog DEF Operations

LEMMA RemoveKeepsLog ==
    ASSUME DocInv, LogInv, NEW q \in Quads, remove(q)
    PROVE  LogInv'
<1> DEFINE c == [op |-> "remove", quad |-> q, result |-> contains(q)]
<1>1. Returns("remove", q, contains(q))
    BY DEF remove
<1>2. DocInv' /\ base' = base
    BY RemoveKeepsInv DEF remove, Returns
<1>3. contains(q) <=> q \in View
    BY DEF View
<1>4. /\ View = {p \in Quads : p \in tx.inserted \/ (base[p] = 1 /\ p \notin tx.removed)}
      /\ View' = {p \in Quads : p \in tx'.inserted \/ (base[p] = 1 /\ p \notin tx'.removed)}
    BY <1>2, ViewIsStaged, ViewIsStagedNext
<1>5. View' = View \ {q}
  <2>1. CASE q \notin View
      BY <1>3, <1>4, <2>1 DEF remove
  <2>2. CASE q \in View /\ q \in tx.inserted
    <3>1. base[q] = 0
        BY <2>2 DEF DocInv, Staged
    <3>2. tx' = [tx EXCEPT !.inserted = @ \ {q}]
        BY <1>3, <2>2 DEF remove
    <3>3. tx'.inserted = tx.inserted \ {q} /\ tx'.removed = tx.removed
        BY <3>2 DEF DocInv, DocShape
    <3> QED
        BY <1>4, <3>1, <3>3
  <2>3. CASE q \in View /\ q \notin tx.inserted
    <3>1. tx' = [tx EXCEPT !.removed = @ \cup {q}]
        BY <1>3, <2>3 DEF remove
    <3>2. tx'.inserted = tx.inserted /\ tx'.removed = tx.removed \cup {q}
        BY <3>1 DEF DocInv, DocShape
    <3> QED
        BY <1>4, <2>3, <3>2
  <2> QED
      BY <2>1, <2>2, <2>3
<1>6. contains(q) \in BOOLEAN
    BY DEF contains
<1>7. Promised(View, c)
  <2>1. contains(q) = (q \in View)
      BY <1>3 DEF contains
  <2>2. c.result = contains(q) /\ c.op = "remove" /\ c.quad = q
      OBVIOUS
  <2> QED
      BY <2>1, <2>2 DEF Promised
<1>8. View' = After(View, c)
    BY <1>5 DEF After
<1> QED
    BY <1>1, <1>6, <1>7, <1>8, ReturnsKeepsLog DEF Operations

LEMMA LookKeepsLog ==
    ASSUME LogInv, NEW q \in Quads, look(q)
    PROVE  LogInv'
<1> DEFINE c == [op |-> "contains", quad |-> q, result |-> contains(q)]
<1>1. Returns("contains", q, contains(q)) /\ View' = View
    BY DEF look, Returns, View, contains, snapshot
<1>2. contains(q) <=> q \in View
    BY DEF View
<1>3. contains(q) \in BOOLEAN
    BY DEF contains
<1>4. Promised(View, c)
  <2>1. contains(q) = (q \in View)
      BY <1>2 DEF contains
  <2>2. c.result = contains(q) /\ c.op = "contains" /\ c.quad = q
      OBVIOUS
  <2> QED
      BY <2>1, <2>2 DEF Promised
<1>5. View' = After(View, c)
    BY <1>1 DEF After
<1> QED
    BY <1>1, <1>3, <1>4, <1>5, ReturnsKeepsLog DEF Operations

LEMMA BeginKeepsLog ==
    ASSUME DocInv, begin_write
    PROVE  LogInv'
<1>1. log' = <<>> /\ start' = Committed /\ log' \in Seq(Calls(Quads))
    BY DEF begin_write
<1>2. tx'.inserted = {} /\ tx'.removed = {} /\ base' = base
    BY DEF begin_write, NoTx
<1>3. View' = Committed
    BY <1>2 DEF View, contains, snapshot, Committed, DocInv, DocShape
<1> QED
    BY <1>1, <1>3, ReplayNothing DEF LogInv

LEMMA DocNextKeepsLog == DocInv /\ LogInv /\ [DocNext]_dvars => LogInv'
<1> SUFFICES ASSUME DocInv, LogInv, [DocNext]_dvars PROVE LogInv'
    OBVIOUS
<1>1. CASE begin_write
    BY <1>1, BeginKeepsLog
<1>2. ASSUME NEW q \in Quads, DocCall(q) PROVE LogInv'
    BY <1>2, InsertKeepsLog, RemoveKeepsLog, LookKeepsLog DEF DocCall
<1>3. CASE commit \/ rollback
  <2>1. ~tx'.open /\ log' = <<>> /\ <<>> \in Seq(Calls(Quads))
      BY <1>3 DEF commit, rollback, NoTx
  <2> QED
      BY <2>1 DEF LogInv
<1>4. CASE Bulk
    BY <1>4 DEF Bulk, LogInv
<1>5. CASE UNCHANGED dvars
    BY <1>5 DEF dvars, LogInv, View, contains, snapshot
<1> QED
    BY <1>1, <1>2, <1>3, <1>4, <1>5 DEF DocNext

\* Read-your-writes (storage.rs, MemTx): what the calls of a write transaction
\* return and what it sees after them is what they do one by one to the quads
\* committed when it began.
THEOREM TransactionsReadTheirWrites == DocSpec => []ReadsItsWrites
<1>1. DocInit => LogInv
    BY DEF DocInit, NoTx, LogInv
<1>2. LogInv => ReadsItsWrites
    BY DEF LogInv, ReadsItsWrites, View
<1> QED
    BY DocInitInv, DocNextKeepsInv, DocNextKeepsLog, <1>1, <1>2, PTL DEF DocSpec

-----------------------------------------------------------------------------
(* The reasoners' store is that store *)

\* What the reasoner writes in one transaction, with the store to itself, the
\* owner of the store may load and unload.
LEMMA AloneIsBulk ==
    ASSUME NEW U, NEW L, Alone, base' = Loaded(Unloaded(base, U), L), UNCHANGED <<tx, log, start>>
    PROVE  Bulk
<1>1. Loaded(Unloaded(base, U), L) = Loaded(Unloaded(base, U \cap Quads), L \cap Quads)
    BY DEF Loaded, Unloaded
<1>2. U \cap Quads \in SUBSET Quads /\ L \cap Quads \in SUBSET Quads
    OBVIOUS
<1> QED
    BY <1>1, <1>2 DEF Bulk, Alone

LEMMA OneSided ==
    ASSUME NEW S
    PROVE  /\ Loaded(base, S) = Loaded(Unloaded(base, {}), S)
           /\ Unloaded(base, S) = Loaded(Unloaded(base, S), {})
BY DEF Loaded, Unloaded

\* The steps that touch neither the store nor what the reasoner was told.
Still == Asks \/ Reads

LEMMA StillIsStill ==
    ASSUME Still
    PROVE  UNCHANGED <<base, tx, log, start, reasoner, program, materialized, pending>>
<1>1. CASE Asks
    BY <1>1 DEF Asks, entails_knows, entails_type, validate, realize, evaluate, Asked
<1>2. CASE Reads
    BY <1>2 DEF Reads, knows_itself, knows_converse, type_itself, read_sub_classes, read_types,
                read_shapes, read_members, read_values, next_constraint, report, evaluate_rule,
                returned, Answer, Goes
<1> QED
    BY <1>1, <1>2 DEF Still

LEMMA StoreStep ==
    ASSUME reasoner \in DOMAIN Data, [Next]_rvars
    PROVE  [DocNext]_dvars /\ reasoner' = reasoner
<1>1. CASE Begin
    BY <1>1 DEF Begin, DocNext
<1>2. CASE Write
    BY <1>2, ReasonersAssumption DEF Write, DocNext, DocCall
<1>3. CASE Commit
    BY <1>3 DEF Commit, DocNext
<1>4. CASE Rollback
    BY <1>4 DEF Rollback, DocNext
<1>5. CASE materialize
    BY <1>5, OneSided, AloneIsBulk DEF materialize, Changes, DocNext
<1>6. CASE dematerialize
    BY <1>6, OneSided, AloneIsBulk DEF dematerialize, Changes, DocNext
<1>7. CASE on_insert
    BY <1>7, OneSided, AloneIsBulk DEF on_insert, Changes, DocNext
<1>8. CASE on_remove
    BY <1>8, AloneIsBulk DEF on_remove, Changes, DocNext
<1>9. CASE load_program
    BY <1>9 DEF load_program, dvars
<1>10. CASE Still
    BY <1>10, StillIsStill DEF dvars
<1>11. CASE UNCHANGED rvars
    BY <1>11 DEF rvars, dvars
<1> QED
    BY <1>1, <1>2, <1>3, <1>4, <1>5, <1>6, <1>7, <1>8, <1>9, <1>10, <1>11 DEF Next, Still

LEMMA ReasonerIsFixed == Spec => [](reasoner \in DOMAIN Data)
<1>1. Init => reasoner \in DOMAIN Data
    BY DEF Init
<1>2. reasoner \in DOMAIN Data /\ [Next]_rvars => (reasoner \in DOMAIN Data)'
    BY StoreStep
<1> QED
    BY <1>1, <1>2, PTL DEF Spec

\* Whatever a program and a reasoner do to a store (reasoner.rs, shacl.rs and
\* datalog.rs), they do it through the transactions of storage.rs: a run of
\* Reasoners is, seen from the store, a run of DocStore.
THEOREM ReasonersUseTheStore == Spec => DocSpec
<1>1. Init => DocInit
    BY DEF Init
<1>2. reasoner \in DOMAIN Data /\ [Next]_rvars => [DocNext]_dvars
    BY StoreStep
<1> QED
    BY <1>1, <1>2, ReasonerIsFixed, PTL DEF Spec, DocSpec

\* So the store that the reasoners work on holds no quad twice, and the
\* program's transactions read their writes.
THEOREM ReasonersStoreIsSound == Spec => [](NoQuadTwice /\ ReadsItsWrites)
BY ReasonersUseTheStore, VectorIsASet, TransactionsReadTheirWrites, PTL

-----------------------------------------------------------------------------
(* Materialization *)

LEMMA CommittedIsInTheVector ==
    ASSUME DocInv
    PROVE  Committed = {q \in Quads : base[q] = 1}
BY DEF DocInv, DocShape, Committed

\* What is committed after a transaction of the program, and after one of the
\* reasoner.
LEMMA CommitChanges ==
    ASSUME DocInv, commit
    PROVE  /\ Committed' = (Committed \ tx.removed) \cup tx.inserted
           /\ tx.inserted \cap Committed = {}
           /\ tx.inserted \cap tx.removed = {}
<1>1. \A q \in Quads : base'[q] \in {0, 1} /\ (base'[q] = 1 <=> q \in tx.inserted \/ (base[q] = 1 /\ q \notin tx.removed))
    BY SnapshotIsASet DEF commit
<1>2. \A q \in Quads : base[q] \in {0, 1}
    BY DEF DocInv, DocShape
<1>3. \A q \in Quads : q \in Committed' <=> base'[q] = 1
    BY <1>1 DEF Committed
<1>4. \A q \in Quads : q \in Committed <=> base[q] = 1
    BY <1>2 DEF Committed
<1>5. tx.inserted \subseteq Quads /\ \A q \in tx.inserted : base[q] = 0
    BY DEF DocInv, DocShape, Staged
<1>6. \A q \in tx.removed : base[q] = 1
    BY DEF DocInv, Staged
<1>7. Committed \subseteq Quads /\ Committed' \subseteq Quads
    BY DEF Committed
<1> QED
    BY <1>1, <1>3, <1>4, <1>5, <1>6, <1>7

LEMMA LoadChanges ==
    ASSUME DocInv, NEW U, NEW L, base' = Loaded(Unloaded(base, U), L)
    PROVE  Committed' = (Committed \ U) \cup (L \cap Quads)
<1>1. \A q \in Quads : base[q] \in {0, 1}
    BY DEF DocInv, DocShape
<1>2. \A q \in Quads : base'[q] = IF q \in L /\ Unloaded(base, U)[q] = 0 THEN 1 ELSE Unloaded(base, U)[q]
    BY DEF Loaded
<1>3. \A q \in Quads : Unloaded(base, U)[q] = IF q \in U THEN 0 ELSE base[q]
    BY DEF Unloaded
<1>4. \A q \in Quads : base'[q] > 0 <=> q \in L \/ (q \notin U /\ base[q] > 0)
    BY <1>1, <1>2, <1>3
<1> QED
    BY <1>4 DEF Committed

\* What the program writes and has told of.
ProgramInv ==
    /\ reasoner \in DOMAIN Data
    /\ tx.inserted \subseteq Data[reasoner] /\ tx.removed \subseteq Data[reasoner]
    /\ pending \in [inserted : SUBSET Data[reasoner], removed : SUBSET Data[reasoner]]
    /\ materialized \in BOOLEAN
    /\ tx.open \/ ~materialized => Told

LEMMA WriteKeepsProgram ==
    ASSUME DocInv, ProgramInv, Write
    PROVE  ProgramInv'
<1>1. PICK q \in Data[reasoner] : insert(q) \/ remove(q) \/ look(q)
    BY DEF Write
<1>2. UNCHANGED <<reasoner, materialized, pending>> /\ tx.open
    BY <1>1 DEF Write, insert, remove, look, Returns
<1>3. /\ tx'.inserted \subseteq tx.inserted \cup {q}
      /\ tx'.removed \subseteq tx.removed \cup {q}
    BY <1>1 DEF insert, remove, look, DocInv, DocShape
<1> QED
    BY <1>1, <1>2, <1>3 DEF ProgramInv, Told

LEMMA ProgramStep ==
    ASSUME DocInv, ProgramInv, [Next]_rvars
    PROVE  ProgramInv'
<1>1. CASE Begin
    BY <1>1 DEF Begin, begin_write, NoTx, ProgramInv, Told
<1>2. CASE Write
    BY <1>2, WriteKeepsProgram
<1>3. CASE Commit
  <2>1. /\ tx'.inserted = {} /\ tx'.removed = {} /\ ~tx'.open
        /\ UNCHANGED <<reasoner, materialized>> /\ tx.open
      BY <1>3 DEF Commit, commit, NoTx
  <2>2. CASE materialized
    <3>1. pending' = [inserted |-> tx.inserted, removed |-> tx.removed]
        BY <1>3, <2>2 DEF Commit
    <3> QED
        BY <2>1, <2>2, <3>1 DEF ProgramInv
  <2>3. CASE ~materialized
    <3>1. pending' = pending
        BY <1>3, <2>3 DEF Commit
    <3> QED
        BY <2>1, <3>1 DEF ProgramInv, Told
  <2> QED
      BY <2>2, <2>3 DEF ProgramInv
<1>4. CASE Rollback
    BY <1>4 DEF Rollback, rollback, NoTx, ProgramInv, Told
<1>5. CASE materialize
    BY <1>5 DEF materialize, Alone, Changes, ProgramInv, Told
<1>6. CASE dematerialize
    BY <1>6 DEF dematerialize, Alone, Changes, ProgramInv, Told
<1>7. CASE on_insert
    BY <1>7 DEF on_insert, Alone, Changes, ProgramInv, Told
<1>8. CASE on_remove
    BY <1>8 DEF on_remove, Alone, Changes, ProgramInv, Told
<1>9. CASE load_program
    BY <1>9 DEF load_program, ProgramInv, Told
<1>10. CASE Still
    BY <1>10, StillIsStill DEF ProgramInv, Told
<1>11. CASE UNCHANGED rvars
    BY <1>11 DEF rvars, ProgramInv, Told
<1> QED
    BY <1>1, <1>2, <1>3, <1>4, <1>5, <1>6, <1>7, <1>8, <1>9, <1>10, <1>11 DEF Next, Still

\* SymmetricClosure keeps its inferred quads apart, and each has its reason: a
\* quad that is asserted, or one that it has not been told the removal of.
SoundInv ==
    reasoner = "SymmetricClosure" =>
        /\ pending.inserted \subseteq Committed
        /\ \A q \in Committed : q.graph = inferred =>
              /\ materialized
              /\ \E p \in Asserted(Committed) \cup pending.removed : Converse(p, inferred) = q

\* Every ex:knows quad of the default graph has its converse, asserted or
\* inferred, unless the reasoner has still to be told of it or of the removal
\* of its converse.
Symmetric(p) == p.graph = Default /\ p.predicate = "ex:knows" /\ BetweenNamed(p)
CompleteInv ==
    reasoner = "SymmetricClosure" /\ materialized =>
        \A p \in Committed : Symmetric(p) =>
            \/ p \in pending.inserted
            \/ Converse(p, Default) \in Committed \cup pending.removed
            \/ Converse(p, inferred) \in Committed

ClosureInv == SoundInv /\ CompleteInv

LEMMA DataIsAsserted ==
    ASSUME ProgramInv, reasoner = "SymmetricClosure"
    PROVE  \A q \in tx.inserted \cup tx.removed \cup pending.inserted \cup pending.removed :
              q \in Quads /\ q.graph # inferred
BY ReasonersAssumption DEF ProgramInv

LEMMA ConverseGraph ==
    ASSUME NEW q, NEW g
    PROVE  Converse(q, g).graph = g
BY DEF Converse

LEMMA Graphs == Default # inferred
BY DEF Default, inferred

LEMMA CommitKeepsClosure ==
    ASSUME DocInv, ProgramInv, ClosureInv, Commit, reasoner = "SymmetricClosure"
    PROVE  ClosureInv'
<1>1. /\ Committed' = (Committed \ tx.removed) \cup tx.inserted
      /\ tx.inserted \cap Committed = {}
    BY CommitChanges DEF Commit
<1>2. UNCHANGED <<reasoner, materialized>> /\ tx.open /\ pending.inserted = {} /\ pending.removed = {}
    BY DEF Commit, commit, ProgramInv, Told
<1>3. CASE materialized
  <2>1. pending'.inserted = tx.inserted /\ pending'.removed = tx.removed
      BY <1>3 DEF Commit
  <2>2. ASSUME NEW q \in Committed', q.graph = inferred
        PROVE  \E p \in Asserted(Committed') \cup pending'.removed : Converse(p, inferred) = q
    <3>1. q \in Committed
        BY <1>1, <2>2, DataIsAsserted
    <3>2. PICK p \in Asserted(Committed) : Converse(p, inferred) = q
        BY <1>2, <2>2, <3>1 DEF ClosureInv, SoundInv
    <3>3. p \in Asserted(Committed') \cup tx.removed
        BY <1>1 DEF Asserted
    <3> QED
        BY <2>1, <3>2, <3>3
  <2>3. SoundInv'
      BY <1>1, <1>2, <1>3, <2>1, <2>2 DEF SoundInv, Asserted
  <2>4. ASSUME NEW p \in Committed', Symmetric(p), p \notin pending'.inserted
        PROVE  \/ Converse(p, Default) \in Committed' \cup pending'.removed
               \/ Converse(p, inferred) \in Committed'
    <3>1. p \in Committed
        BY <1>1, <2>1, <2>4
    <3>2. \/ Converse(p, Default) \in Committed
          \/ Converse(p, inferred) \in Committed
        BY <1>2, <1>3, <2>4, <3>1 DEF ClosureInv, CompleteInv
    <3>3. Converse(p, inferred) \notin tx.removed
        BY DataIsAsserted, ConverseGraph
    <3> QED
        BY <1>1, <2>1, <3>2, <3>3
  <2>5. CompleteInv'
      BY <2>4 DEF CompleteInv, Symmetric
  <2> QED
      BY <2>3, <2>5 DEF ClosureInv
<1>4. CASE ~materialized
  <2>1. pending' = pending
      BY <1>4 DEF Commit
  <2>2. \A q \in Committed' : q.graph # inferred
      BY <1>1, <1>4, DataIsAsserted DEF ClosureInv, SoundInv
  <2> QED
      BY <1>2, <1>4, <2>1, <2>2 DEF ClosureInv, SoundInv, CompleteInv
<1> QED
    BY <1>3, <1>4 DEF ProgramInv

\* What add_converses writes is inferred, and each quad has its reason.
LEMMA ConversesHaveReasons ==
    ASSUME NEW S, NEW A
    PROVE  \A q \in add_converses(S, A) :
              q.graph = inferred /\ \E p \in A : Converse(p, inferred) = q
BY ConverseGraph DEF add_converses

\* It leaves no quad that it is given without its converse.
LEMMA ConversesAreAdded ==
    ASSUME NEW S, NEW A, NEW p \in A, p \in Quads, Symmetric(p)
    PROVE  \/ Converse(p, Default) \in S
           \/ Converse(p, inferred) \in add_converses(S, A) \cap Quads
<1>1. Converse(p, inferred) \in Quads
    BY ReasonersAssumption DEF Symmetric
<1> QED
    BY <1>1 DEF add_converses, Symmetric

\* A transaction of the reasoner that unloads inferred quads only, and adds
\* converses of asserted ones, leaves the inferred quads with their reasons when
\* it forgets a removal only if it starts afresh.
LEMMA AloneIsSound ==
    ASSUME DocInv, SoundInv, reasoner = "SymmetricClosure", UNCHANGED reasoner, materialized',
           NEW U, NEW S, NEW A, base' = Loaded(Unloaded(base, U), add_converses(S, A)),
           \A q \in U : q.graph = inferred,
           A \subseteq Asserted(Committed),
           pending'.inserted \subseteq pending.inserted,
           \A q \in pending.inserted : q.graph # inferred,
           \/ pending'.removed = pending.removed
           \/ \A q \in Committed : q.graph = inferred => q \in U
    PROVE  SoundInv'
<1>1. Committed' = (Committed \ U) \cup (add_converses(S, A) \cap Quads)
    BY LoadChanges
<1>2. Asserted(Committed) = Asserted(Committed')
    BY <1>1, ConversesHaveReasons DEF Asserted
<1>3. pending'.inserted \subseteq Committed'
    BY <1>1 DEF SoundInv
<1>4. ASSUME NEW q \in Committed', q.graph = inferred
      PROVE  \E p \in Asserted(Committed') \cup pending'.removed : Converse(p, inferred) = q
  <2>1. CASE q \in add_converses(S, A)
      BY <1>2, <2>1, ConversesHaveReasons
  <2>2. CASE q \notin add_converses(S, A)
    <3>1. q \in Committed /\ q \notin U /\ pending'.removed = pending.removed
        BY <1>1, <1>4, <2>2
    <3> QED
        BY <1>2, <1>4, <3>1 DEF SoundInv
  <2> QED
      BY <2>1, <2>2
<1>5. \A q \in Committed' : q.graph = inferred =>
        materialized' /\ \E p \in Asserted(Committed') \cup pending'.removed : Converse(p, inferred) = q
    BY <1>4
<1>6. Asserted(Committed') = Asserted(Committed)'
    BY DEF Asserted
<1> QED
    BY <1>3, <1>5, <1>6 DEF SoundInv

\* One that adds the converses of all that it leaves in the default graph
\* leaves none to be told of.
LEMMA AloneIsComplete ==
    ASSUME DocInv, NEW U, \A q \in U : q.graph = inferred,
           base' = Loaded(Unloaded(base, U), converses_of_all(Committed \ U))
    PROVE  CompleteInv'
<1> DEFINE S == Committed \ U
           A == {q \in With(S, "ex:knows") : q.graph = Default}
<1>1. converses_of_all(S) = add_converses(S, A)
    BY DEF converses_of_all
<1> HIDE DEF A
<1>2. Committed' = S \cup (add_converses(S, A) \cap Quads)
    BY <1>1, LoadChanges
<1>3. ASSUME NEW p \in Committed', Symmetric(p)
      PROVE  Converse(p, Default) \in Committed' \/ Converse(p, inferred) \in Committed'
  <2>1. p \in S
      BY <1>2, <1>3, ConversesHaveReasons, Graphs DEF Symmetric
  <2>2. p \in A /\ p \in Quads
      BY <1>3, <2>1 DEF A, With, Symmetric, Committed
  <2> QED
      BY <1>2, <1>3, <2>2, ConversesAreAdded
<1> QED
    BY <1>3 DEF CompleteInv, Symmetric

LEMMA AllAreAsserted ==
    ASSUME NEW S
    PROVE  {q \in With(S, "ex:knows") : q.graph = Default} \subseteq Asserted(S)
BY Graphs DEF With, Asserted

LEMMA MaterializeKeepsClosure ==
    ASSUME DocInv, ProgramInv, ClosureInv, materialize, reasoner = "SymmetricClosure"
    PROVE  ClosureInv'
<1> DEFINE A == {q \in With(Committed, "ex:knows") : q.graph = Default}
<1>1. /\ base' = Loaded(Unloaded(base, {}), converses_of_all(Committed))
      /\ UNCHANGED reasoner /\ materialized'
    BY OneSided DEF materialize, Changes, Derived
<1>2. pending'.inserted = {} /\ pending'.removed = pending.removed
    BY DEF materialize, ProgramInv
<1>3. converses_of_all(Committed) = add_converses(Committed, A)
    BY DEF converses_of_all
<1>4. A \subseteq Asserted(Committed)
    BY AllAreAsserted
<1>5. \A q \in pending.inserted : q.graph # inferred
    BY DataIsAsserted
<1> HIDE DEF A
<1>6. SoundInv'
    BY <1>1, <1>2, <1>3, <1>4, <1>5, AloneIsSound DEF ClosureInv
<1>7. Committed = Committed \ {}
    OBVIOUS
<1>8. CompleteInv'
    BY <1>1, <1>7, AloneIsComplete
<1> QED
    BY <1>6, <1>8 DEF ClosureInv

LEMMA DematerializeKeepsClosure ==
    ASSUME DocInv, dematerialize, reasoner = "SymmetricClosure"
    PROVE  ClosureInv'
<1>1. base' = Loaded(Unloaded(base, Apart), {}) /\ ~materialized' /\ pending'.inserted = {}
    BY OneSided DEF dematerialize, Changes
<1>2. Committed' = Committed \ Apart
    BY <1>1, LoadChanges
<1>3. \A q \in Committed' : q.graph # inferred
    BY <1>2 DEF Apart
<1> QED
    BY <1>1, <1>3 DEF ClosureInv, SoundInv, CompleteInv

LEMMA InsertedKeepsClosure ==
    ASSUME DocInv, ProgramInv, ClosureInv, on_insert, reasoner = "SymmetricClosure"
    PROVE  ClosureInv'
<1> DEFINE A == With(pending.inserted, "ex:knows")
<1>1. /\ base' = Loaded(Unloaded(base, {}), add_converses(Committed, A))
      /\ UNCHANGED <<reasoner, materialized>>
    BY OneSided DEF on_insert, Changes
<1>2. pending'.inserted = {} /\ pending'.removed = pending.removed
    BY DEF on_insert, ProgramInv
<1>3. materialized
    BY DEF on_insert, ProgramInv, Told
<1>4. \A q \in pending.inserted : q.graph # inferred /\ q \in Committed
    BY DataIsAsserted DEF ClosureInv, SoundInv
<1>5. A \subseteq Asserted(Committed)
    BY <1>4 DEF With, Asserted
<1>6. A = {q \in pending.inserted : q.predicate = "ex:knows"}
    BY DEF With
<1> HIDE DEF A
<1>7. SoundInv'
    BY <1>1, <1>2, <1>3, <1>4, <1>5, AloneIsSound DEF ClosureInv
<1>8. Committed' = Committed \cup (add_converses(Committed, A) \cap Quads)
  <2>1. Committed' = (Committed \ {}) \cup (add_converses(Committed, A) \cap Quads)
      BY <1>1, LoadChanges
  <2> QED
      BY <2>1
<1>9. ASSUME NEW p \in Committed', Symmetric(p)
      PROVE  \/ Converse(p, Default) \in Committed' \cup pending'.removed
             \/ Converse(p, inferred) \in Committed'
  <2>1. p \in Committed /\ p \in Quads
      BY <1>8, <1>9, ConversesHaveReasons, Graphs DEF Symmetric, Committed
  <2>2. CASE p \in pending.inserted
    <3>1. p \in A
        BY <1>6, <1>9, <2>2 DEF Symmetric
    <3> QED
        BY <1>8, <1>9, <2>1, <3>1, ConversesAreAdded
  <2>3. CASE p \notin pending.inserted
      BY <1>2, <1>3, <1>8, <1>9, <2>1, <2>3 DEF ClosureInv, CompleteInv
  <2> QED
      BY <2>2, <2>3
<1>10. CompleteInv'
    BY <1>9 DEF CompleteInv, Symmetric
<1> QED
    BY <1>7, <1>10 DEF ClosureInv

LEMMA RemovedKeepsClosure ==
    ASSUME DocInv, ProgramInv, ClosureInv, on_remove, reasoner = "SymmetricClosure"
    PROVE  ClosureInv'
<1> DEFINE S == Committed \ Apart
           A == {q \in With(S, "ex:knows") : q.graph = Default}
<1>1. /\ base' = Loaded(Unloaded(base, Apart), converses_of_all(S))
      /\ UNCHANGED <<reasoner, materialized>>
    BY DEF on_remove, Changes, Derived
<1>2. pending'.inserted = pending.inserted
    BY DEF on_remove, ProgramInv
<1>3. materialized
    BY DEF on_remove, ProgramInv, Told
<1>4. \A q \in Apart : q.graph = inferred
    BY DEF Apart
<1>5. \A q \in Committed : q.graph = inferred => q \in Apart
    BY DEF Apart
<1>6. converses_of_all(S) = add_converses(S, A)
    BY DEF converses_of_all
<1>7. A \subseteq Asserted(Committed)
    BY AllAreAsserted DEF Asserted
<1>8. \A q \in pending.inserted : q.graph # inferred
    BY DataIsAsserted
<1>9. CompleteInv'
    BY <1>1, <1>4, AloneIsComplete
<1> HIDE DEF A, S
<1>10. SoundInv'
    BY <1>1, <1>2, <1>3, <1>4, <1>5, <1>6, <1>7, <1>8, AloneIsSound DEF ClosureInv
<1> QED
    BY <1>9, <1>10 DEF ClosureInv

\* The steps that do not change what is committed leave the closure alone.
LEMMA QuietKeepsClosure ==
    ASSUME ClosureInv, UNCHANGED <<base, reasoner, materialized, pending>>
    PROVE  ClosureInv'
<1>1. Committed' = Committed
    BY DEF Committed
<1> QED
    BY <1>1 DEF ClosureInv, SoundInv, CompleteInv, Asserted, Symmetric

LEMMA ClosureStep ==
    ASSUME DocInv, ProgramInv, ClosureInv, [Next]_rvars
    PROVE  ClosureInv'
<1>1. CASE Begin \/ Write \/ Rollback
    BY <1>1, QuietKeepsClosure DEF Begin, begin_write, Write, insert, remove, look, Returns,
                                   Rollback, rollback
<1>2. CASE load_program \/ Still \/ UNCHANGED rvars
    BY <1>2, StillIsStill, QuietKeepsClosure DEF load_program, rvars
<1>3. CASE reasoner # "SymmetricClosure"
    BY <1>3, StoreStep DEF ProgramInv, ClosureInv, SoundInv, CompleteInv
<1>4. CASE reasoner = "SymmetricClosure" /\ (Commit \/ materialize \/ dematerialize \/ on_insert \/ on_remove)
    BY <1>4, CommitKeepsClosure, MaterializeKeepsClosure, DematerializeKeepsClosure,
       InsertedKeepsClosure, RemovedKeepsClosure
<1> QED
    BY <1>1, <1>2, <1>3, <1>4 DEF Next, Still

LEMMA ClosureInvariance == Spec => [](DocInv /\ ProgramInv /\ ClosureInv)
<1>1. Init => DocInv /\ ProgramInv /\ ClosureInv
  <2> SUFFICES ASSUME Init PROVE DocInv /\ ProgramInv /\ ClosureInv
      OBVIOUS
  <2>1. DocInv
      BY DocInitInv DEF Init
  <2>2. ProgramInv
      BY DEF Init, DocInit, NoTx, ProgramInv, Told
  <2>3. Committed = {} /\ ~materialized /\ pending.inserted = {}
      BY DEF Init, DocInit, Committed
  <2> QED
      BY <2>1, <2>2, <2>3 DEF ClosureInv, SoundInv, CompleteInv
<1>2. DocInv /\ ProgramInv /\ ClosureInv /\ [Next]_rvars => (DocInv /\ ProgramInv /\ ClosureInv)'
    BY StoreStep, DocNextKeepsInv, ProgramStep, ClosureStep DEF ProgramInv
<1> QED
    BY <1>1, <1>2, PTL DEF Spec

\* SymmetricClosure (reasoner.rs, on_insert, on_remove, materialize and
\* dematerialize) leaves nothing inferred behind: whatever was committed, in
\* whatever order it was told, an inferred quad is the converse of an asserted
\* one once it has been told.
THEOREM ClosureIsSound == Spec => []InferredIsEntailed
<1>1. ProgramInv /\ ClosureInv => InferredIsEntailed
    BY DEF ProgramInv, ClosureInv, SoundInv, InferredIsEntailed, Told
<1> QED
    BY <1>1, ClosureInvariance, PTL

\* Nor does it miss anything: as long as it is told of every commit, every
\* converse is in the store, asserted or inferred.
THEOREM ClosureIsComplete == Spec => []KnowsPresent
<1>1. ASSUME ProgramInv, ClosureInv PROVE KnowsPresent
  <2> SUFFICES ASSUME materialized, Told, reasoner = "SymmetricClosure",
                      NEW q \in KnowsEntailed({p \in Committed : p.graph = Default})
               PROVE  q \in Committed \/ [q EXCEPT !.graph = inferred] \in Committed
      BY DEF KnowsPresent
  <2>1. CASE q \in Committed
      BY <2>1
  <2>2. CASE q \notin Committed
    <3>1. PICK p \in Committed : Symmetric(p) /\ q = Converse(p, Default)
      <4>1. PICK p \in With({r \in Committed : r.graph = Default}, "ex:knows") :
               BetweenNamed(p) /\ q = Converse(p, p.graph)
          BY <2>2 DEF KnowsEntailed
      <4> QED
          BY <4>1 DEF With, Symmetric
    <3>2. Converse(p, inferred) \in Committed
      <4>1. pending.inserted = {} /\ pending.removed = {}
          BY DEF Told
      <4>2. \/ p \in pending.inserted
            \/ Converse(p, Default) \in Committed \cup pending.removed
            \/ Converse(p, inferred) \in Committed
          BY <1>1, <3>1 DEF ClosureInv, CompleteInv
      <4> QED
          BY <2>2, <3>1, <4>1, <4>2
    <3>3. [q EXCEPT !.graph = inferred] = Converse(p, inferred)
        BY <3>1 DEF Converse
    <3> QED
        BY <3>2, <3>3
  <2> QED
      BY <2>1, <2>2
<1> QED
    BY <1>1, ClosureInvariance, PTL

-----------------------------------------------------------------------------
(* Answers *)

Fields == {"op", "arg", "reads", "sub", "todo", "at", "found", "done"}

\* As long as a call reads, what was committed all through it is committed, and
\* what is committed was so at some time during it.
CallInv ==
    /\ Idle \/ DOMAIN call = Fields
    /\ ~Idle /\ ~call.done => held \subseteq Committed /\ Committed \subseteq seen

\* Steps of the program and of the reasoner that writes, as an answer sees them.
Waits ==
    /\ call' = call /\ held' \subseteq held /\ seen \subseteq seen'
    /\ ~Idle /\ call.done => UNCHANGED <<held, seen>>
    /\ ~Idle => UNCHANGED program

LEMMA WaitingSteps ==
    ASSUME CallInv, [Next]_rvars, ~Asks, ~Reads
    PROVE  Waits /\ CallInv'
<1>1. CASE Begin \/ Write \/ Rollback
  <2>1. UNCHANGED <<base, call, held, seen, program>>
      BY <1>1 DEF Begin, begin_write, Write, insert, remove, look, Returns, Rollback, rollback
  <2> QED
      BY <2>1 DEF Waits, CallInv, Idle, Committed
<1>2. CASE Commit
  <2>1. /\ UNCHANGED <<call, program>>
        /\ held' = held \cap Committed'
        /\ seen' = IF Idle THEN seen ELSE seen \cup Committed'
        /\ Idle \/ ~call.done
      BY <1>2 DEF Commit, Committed, Returning
  <2> QED
      BY <2>1 DEF Waits, CallInv, Idle
<1>3. CASE materialize \/ dematerialize \/ on_insert \/ on_remove \/ load_program
  <2>1. UNCHANGED <<call, held, seen>> /\ Idle
      BY <1>3 DEF materialize, dematerialize, on_insert, on_remove, load_program, Alone, Changes
  <2> QED
      BY <2>1 DEF Waits, CallInv, Idle
<1>4. CASE UNCHANGED rvars
    BY <1>4 DEF rvars, Waits, CallInv, Idle, Committed
<1> QED
    BY <1>1, <1>2, <1>3, <1>4 DEF Next

\* The call that begins.
Begun(op, arg) ==
    /\ DOMAIN call' = Fields /\ call'.op = op /\ call'.arg = arg /\ call'.reads = 0
    /\ call'.todo = {} /\ call'.at = {} /\ call'.found = {} /\ ~call'.done

LEMMA AskedBegins ==
    ASSUME NEW op, NEW arg, Asked(op, arg)
    PROVE  Begun(op, arg) /\ CallInv'
<1>1. Begun(op, arg)
    BY DEF Asked, Begun, Fields
<1>2. held' = Committed' /\ seen' = Committed'
    BY DEF Asked, Committed
<1> QED
    BY <1>1, <1>2 DEF CallInv, Begun

LEMMA AskingSteps ==
    ASSUME Asks
    PROVE  /\ CallInv'
           /\ \/ \E q \in Candidates : Begun("knows", q) \/ Begun("entails", q)
              \/ \E f : Begun("validate", f)
              \/ Begun("realize", "all") \/ Begun("evaluate", "all")
BY AskedBegins DEF Asks, entails_knows, entails_type, validate, realize, evaluate

\* A read of the call under way.
Steps ==
    /\ ~Idle /\ ~call.done /\ DOMAIN call = Fields
    /\ held \subseteq Committed /\ Committed \subseteq seen
    /\ DOMAIN call' = Fields /\ call'.op = call.op /\ call'.arg = call.arg
    /\ UNCHANGED <<program, held, seen>>

ReadsOf ==
    \/ call.op = "knows" /\ (knows_itself \/ knows_converse)
    \/ call.op \in {"entails", "realize"} /\ (type_itself \/ read_sub_classes \/ read_types)
    \/ call.op = "validate" /\ (read_shapes \/ read_members \/ read_values \/ next_constraint \/ report)
    \/ call.op = "evaluate" /\ evaluate_rule

LEMMA ReadIsStep ==
    ASSUME CallInv, call.op # "none", ~call.done,
           NEW r, NEW sub, NEW todo, NEW at, NEW found, NEW done,
           \/ Goes([call EXCEPT !.reads = r])
           \/ Goes([call EXCEPT !.sub = sub, !.reads = r])
           \/ Goes([call EXCEPT !.todo = todo, !.reads = r])
           \/ Goes([call EXCEPT !.todo = todo, !.reads = r, !.at = at])
           \/ Goes([call EXCEPT !.at = at, !.found = found])
           \/ Goes([call EXCEPT !.reads = r, !.found = found])
           \/ Answer(found)
    PROVE  Steps
<1>1. ~Idle
    BY DEF Idle, NoCall
<1>2. DOMAIN call = Fields /\ held \subseteq Committed /\ Committed \subseteq seen
    BY <1>1 DEF CallInv
<1>3. UNCHANGED <<program, held, seen>>
    BY DEF Goes, Answer
<1>4. DOMAIN call' = Fields /\ call'.op = call.op /\ call'.arg = call.arg
    BY <1>2 DEF Goes, Answer, Fields
<1> QED
    BY <1>1, <1>2, <1>3, <1>4 DEF Steps

LEMMA ReadingSteps ==
    ASSUME CallInv, Reads, ~returned
    PROVE  Steps /\ ReadsOf
<1>1. CASE knows_itself
    BY <1>1, ReadIsStep DEF knows_itself, Reading, ReadsOf
<1>2. CASE knows_converse
    BY <1>2, ReadIsStep DEF knows_converse, Reading, ReadsOf
<1>3. CASE type_itself
    BY <1>3, ReadIsStep DEF type_itself, Reading, ReadsOf
<1>4. CASE read_sub_classes
    BY <1>4, ReadIsStep DEF read_sub_classes, Reading, ReadsOf
<1>5. CASE read_types
    BY <1>5, ReadIsStep DEF read_types, Reading, ReadsOf
<1>6. CASE read_shapes
    BY <1>6, ReadIsStep DEF read_shapes, Reading, ReadsOf
<1>7. CASE read_members
    BY <1>7, ReadIsStep DEF read_members, Reading, ReadsOf
<1>8. CASE read_values
    BY <1>8, ReadIsStep DEF read_values, Reading, ReadsOf
<1>9. CASE next_constraint
    BY <1>9, ReadIsStep DEF next_constraint, Reading, ReadsOf
<1>10. CASE report
    BY <1>10, ReadIsStep DEF report, Reading, ReadsOf
<1>11. CASE evaluate_rule
    BY <1>11, ReadIsStep DEF evaluate_rule, ReadsOf
<1> QED
    BY <1>1, <1>2, <1>3, <1>4, <1>5, <1>6, <1>7, <1>8, <1>9, <1>10, <1>11 DEF Reads

LEMMA CallStep ==
    ASSUME CallInv, [Next]_rvars
    PROVE  CallInv'
<1>1. CASE Asks
    BY <1>1, AskingSteps
<1>2. CASE Reads /\ returned
    BY <1>2 DEF returned, CallInv, Idle
<1>3. CASE Reads /\ ~returned
  <2>1. UNCHANGED base /\ Steps
      BY <1>3, ReadingSteps, StillIsStill DEF Still
  <2> QED
      BY <2>1 DEF Steps, CallInv, Committed
<1>4. CASE ~Asks /\ ~Reads
    BY <1>4, WaitingSteps
<1> QED
    BY <1>1, <1>2, <1>3, <1>4

-----------------------------------------------------------------------------
(* SymmetricKnows *)

KnowsInv ==
    ~Idle /\ call.op = "knows" =>
        /\ call.arg \in Candidates
        /\ ~call.done /\ call.reads = 1 =>
              call.arg \notin held /\ BetweenNamed(call.arg) /\ call.arg.predicate = "ex:knows"
        /\ call.done => /\ KnowsEntailed(held) \cap {call.arg} \subseteq call.found
                        /\ call.found \subseteq KnowsEntailed(seen)

LEMMA ConverseTwice ==
    ASSUME NEW q, IsQuad(q), NEW g
    PROVE  Converse(Converse(q, g), q.graph) = q
BY DEF Converse, IsQuad

\* What is entailed is there or is the converse of something that is.
LEMMA EntailedOrThere ==
    ASSUME NEW S, NEW q
    PROVE  q \in KnowsEntailed(S) <=>
             \/ q \in S
             \/ \E p \in S : p.predicate = "ex:knows" /\ BetweenNamed(p) /\ q = Converse(p, p.graph)
BY DEF KnowsEntailed, With

LEMMA KnowsItselfStep ==
    ASSUME CallInv, KnowsInv, Steps, knows_itself
    PROVE  KnowsInv'
<1> DEFINE arg == call.arg
<1>1. call.op = "knows" /\ ~Idle /\ arg \in Candidates /\ call'.arg = arg
    BY DEF knows_itself, Reading, Steps, KnowsInv
<1>2. held' = held /\ seen' = seen /\ held \subseteq Committed /\ Committed \subseteq seen
    BY DEF Steps
<1>3. CASE arg \in Committed \/ ~BetweenNamed(arg) \/ arg.predicate # "ex:knows"
  <2>1. call'.done /\ call'.found = Holds(arg, Committed)
      BY <1>3 DEF knows_itself, Answer, Goes, Steps, Fields
  <2>2. KnowsEntailed(held) \cap {arg} \subseteq Holds(arg, Committed)
    <3> SUFFICES ASSUME arg \in KnowsEntailed(held), arg \notin Committed PROVE FALSE
        BY DEF Holds
    <3>1. PICK p \in held : p.predicate = "ex:knows" /\ BetweenNamed(p) /\ arg = Converse(p, p.graph)
        BY <1>2, EntailedOrThere
    <3>2. BetweenNamed(arg) /\ arg.predicate = "ex:knows"
        BY <3>1 DEF BetweenNamed, Converse
    <3> QED
        BY <1>3, <3>2
  <2>3. Holds(arg, Committed) \subseteq KnowsEntailed(seen)
      BY <1>2, EntailedOrThere DEF Holds
  <2> QED
      BY <1>1, <1>2, <2>1, <2>2, <2>3 DEF KnowsInv, KnowsEntailed
<1>4. CASE ~(arg \in Committed \/ ~BetweenNamed(arg) \/ arg.predicate # "ex:knows")
  <2>1. ~call'.done
      BY <1>4 DEF knows_itself, Goes, Steps, Fields
  <2> QED
      BY <1>1, <1>2, <1>4, <2>1 DEF KnowsInv, BetweenNamed
<1> QED
    BY <1>3, <1>4

LEMMA KnowsConverseStep ==
    ASSUME CallInv, KnowsInv, Steps, knows_converse
    PROVE  KnowsInv'
<1> DEFINE arg == call.arg
           there == Converse(arg, arg.graph) \in Committed
<1>1. /\ call.op = "knows" /\ arg \in Candidates /\ call'.arg = arg
      /\ arg \notin held /\ BetweenNamed(arg) /\ arg.predicate = "ex:knows"
    BY DEF knows_converse, Reading, Steps, KnowsInv
<1>2. held' = held /\ seen' = seen /\ held \subseteq Committed /\ Committed \subseteq seen
    BY DEF Steps
<1>3. call'.done /\ call'.found = IF there THEN {arg} ELSE {}
    BY DEF knows_converse, Answer, Goes, Steps, Fields
<1>4. IsQuad(arg)
    BY <1>1, ReasonersAssumption
<1>5. ASSUME arg \in KnowsEntailed(held) PROVE there
  <2>1. PICK p \in held : arg = Converse(p, p.graph)
      BY <1>1, <1>5, EntailedOrThere
  <2>2. IsQuad(p)
      BY <1>2, ReasonersAssumption DEF Committed
  <2>3. arg.graph = p.graph
      BY <2>1 DEF Converse
  <2>4. Converse(arg, arg.graph) = p
      BY <2>1, <2>2, <2>3, ConverseTwice
  <2> QED
      BY <1>2, <2>4
<1>6. ASSUME there PROVE arg \in KnowsEntailed(seen)
  <2> DEFINE p == Converse(arg, arg.graph)
  <2>1. p \in seen
      BY <1>2, <1>6
  <2>2. p.predicate = "ex:knows" /\ BetweenNamed(p) /\ p.graph = arg.graph
      BY <1>1 DEF Converse, BetweenNamed
  <2>3. arg = Converse(p, p.graph)
      BY <1>4, <2>2, ConverseTwice
  <2> QED
      BY <2>1, <2>2, <2>3, EntailedOrThere
<1> HIDE DEF there
<1>7. KnowsEntailed(held) \cap {arg} \subseteq call'.found
    BY <1>3, <1>5
<1>8. call'.found \subseteq KnowsEntailed(seen)
    BY <1>3, <1>6
<1> QED
    BY <1>1, <1>2, <1>3, <1>7, <1>8 DEF KnowsInv, KnowsEntailed

LEMMA KnowsStep ==
    ASSUME CallInv, KnowsInv, [Next]_rvars
    PROVE  KnowsInv'
<1>1. CASE Asks
    BY <1>1, AskingSteps DEF Begun, KnowsInv
<1>2. CASE Reads /\ returned
    BY <1>2 DEF returned, KnowsInv, Idle
<1>3. CASE Reads /\ ~returned
  <2>1. Steps /\ ReadsOf
      BY <1>3, ReadingSteps
  <2>2. CASE call.op = "knows"
      BY <2>1, <2>2, KnowsItselfStep, KnowsConverseStep DEF ReadsOf
  <2>3. CASE call.op # "knows"
      BY <2>1, <2>3 DEF Steps, KnowsInv
  <2> QED
      BY <2>2, <2>3
<1>4. CASE ~Asks /\ ~Reads
  <2>1. Waits
      BY <1>4, WaitingSteps
  <2> QED
      BY <2>1 DEF Waits, KnowsInv, Idle, KnowsEntailed
<1> QED
    BY <1>1, <1>2, <1>3, <1>4

\* SymmetricKnows::entails (reasoner.rs) looks for the quad and then for its
\* converse while others commit: it finds what follows from the quads committed
\* all through the call, and only what follows from quads committed during it.
THEOREM KnowsIsInBetween == Spec => []KnowsInBetween
<1>1. Init => CallInv /\ KnowsInv
    BY DEF Init, CallInv, KnowsInv, Idle
<1>2. CallInv /\ KnowsInv /\ [Next]_rvars => (CallInv /\ KnowsInv)'
    BY CallStep, KnowsStep
<1>3. KnowsInv => KnowsInBetween
    BY DEF KnowsInv, KnowsInBetween, Returning
<1> QED
    BY <1>1, <1>2, <1>3, PTL DEF Spec

-----------------------------------------------------------------------------
(* What realization of ToySubsumption computes *)

\* SetToSeq lists the elements of a finite set.
LEMMA SetToSeqIs ==
    ASSUME NEW S, IsFiniteSet(S)
    PROVE  /\ SetToSeq(S) \in Seq(S) /\ Len(SetToSeq(S)) = Cardinality(S)
           /\ \A x \in S : \E i \in DOMAIN SetToSeq(S) : SetToSeq(S)[i] = x
<1>1. Cardinality(S) \in Nat
    BY FiniteListing
<1>2. /\ SetToSeq(S) \in [1 .. Cardinality(S) -> S]
      /\ \A i, j \in DOMAIN SetToSeq(S) : SetToSeq(S)[i] = SetToSeq(S)[j] => i = j
  <2>1. \E f \in [1 .. Cardinality(S) -> S] : IsInjective(f)
      BY FiniteListing, Zenon DEF IsInjective
  <2>2. SetToSeq(S) \in [1 .. Cardinality(S) -> S] /\ IsInjective(SetToSeq(S))
      BY <2>1, Zenon DEF SetToSeq
  <2> QED
      BY <2>2, Zenon DEF IsInjective
<1>3. \A x \in S : \E i \in 1 .. Cardinality(S) : SetToSeq(S)[i] = x
  <2>1. \A f \in [1 .. Cardinality(S) -> S] :
           (\A i, j \in DOMAIN f : f[i] = f[j] => i = j)
           => \A x \in S : \E i \in 1 .. Cardinality(S) : f[i] = x
      BY FiniteListing, Zenon
  <2> QED
      BY <1>2, <2>1, Zenon
<1> QED
    BY <1>1, <1>2, <1>3

-----------------------------------------------------------------------------
Nodes(classes, sub) == classes \cup {e[2] : e \in sub}
States(classes, sub) == [types : SUBSET Nodes(classes, sub), todo : Seq(Nodes(classes, sub))]
Edges(sub) == \A e \in sub : e = <<e[1], e[2]>>
Up(sub, c) == {e[2] : e \in {f \in sub : f[1] = c}}

\* The image of a finite set of edges.
LEMMA UpIsFinite ==
    ASSUME NEW sub, IsFiniteSet(sub), Edges(sub), NEW c
    PROVE  LET from == {e \in sub : e[1] = c}
           IN  /\ IsFiniteSet(Up(sub, c)) /\ IsFiniteSet(from)
               /\ Cardinality(Up(sub, c)) = Cardinality(from)
<1> DEFINE from == {e \in sub : e[1] = c}
           f == [e \in from |-> e[2]]
<1>1. IsFiniteSet(from)
    BY FS_Subset
<1>2. f \in Bijection(from, Up(sub, c))
  <2>1. \A e, d \in from : e[2] = d[2] => e = d
      BY DEF Edges
  <2>2. f \in [from -> Up(sub, c)] /\ \A x \in Up(sub, c) : \E e \in from : f[e] = x
      BY Zenon DEF Up
  <2>3. \A e, d \in from : f[e] = f[d] => e = d
      BY <2>1
  <2> QED
      BY <2>2, <2>3, Zenon DEF Bijection, Injection, Surjection, IsInjective
<1>3. ExistsBijection(from, Up(sub, c))
    BY <1>2, Zenon DEF ExistsBijection
<1> QED
    BY <1>1, <1>3, FS_Bijection, Zenon

LEMMA TurnIs ==
    ASSUME NEW classes, NEW sub, IsFiniteSet(sub), Edges(sub), NEW s \in States(classes, sub)
    PROVE  /\ turn(s, sub) \in States(classes, sub)
           /\ s.todo = <<>> => turn(s, sub) = s
           /\ s.todo # <<>> =>
                LET c == s.todo[Len(s.todo)]
                    t == turn(s, sub)
                IN  /\ c \in Nodes(classes, sub)
                    /\ t.types = s.types \cup {c}
                    /\ c \in s.types => t.todo = Front(s.todo)
                    /\ c \notin s.types => t.todo = Front(s.todo) \o SetToSeq(Up(sub, c))
<1> DEFINE N == Nodes(classes, sub)
           c == s.todo[Len(s.todo)]
           up == SetToSeq(Up(sub, c))
<1>1. s.types \in SUBSET N /\ s.todo \in Seq(N)
    BY DEF States
<1>2. up \in Seq(N)
  <2>1. IsFiniteSet(Up(sub, c)) /\ Up(sub, c) \subseteq N
    <3>1. IsFiniteSet(Up(sub, c))
        BY UpIsFinite
    <3> QED
        BY <3>1 DEF Up, Nodes
  <2>2. up \in Seq(Up(sub, c))
      BY <2>1, SetToSeqIs
  <2> HIDE DEF up
  <2> QED
      BY <2>1, <2>2
<1>3. turn(s, sub) = CASE s.todo = <<>> -> s
                       [] s.todo # <<>> /\ c \in s.types ->
                            [types |-> s.types, todo |-> Front(s.todo)]
                       [] OTHER -> [types |-> s.types \cup {c}, todo |-> Front(s.todo) \o up]
    BY Zenon DEF turn, Last, Up
<1> HIDE DEF up, N
<1>4. CASE s.todo = <<>>
    BY <1>3, <1>4
<1>5. CASE s.todo # <<>>
  <2>1. c \in N /\ Front(s.todo) \in Seq(N) /\ Front(s.todo) \o up \in Seq(N)
      BY <1>1, <1>2, <1>5 DEF Front
  <2>2. CASE c \in s.types
    <3>1. turn(s, sub) = [types |-> s.types, todo |-> Front(s.todo)]
        BY <1>3, <1>5, <2>2
    <3> QED
        BY <1>1, <1>5, <2>1, <2>2, <3>1 DEF States, N
  <2>3. CASE c \notin s.types
    <3>1. turn(s, sub) = [types |-> s.types \cup {c}, todo |-> Front(s.todo) \o up]
        BY <1>3, <1>5, <2>3
    <3> QED
        BY <1>1, <1>5, <2>1, <2>3, <3>1 DEF States, N, up
  <2> QED
      BY <2>2, <2>3
<1> QED
    BY <1>4, <1>5

LEMMA TurnsAre ==
    ASSUME NEW classes, NEW sub, IsFiniteSet(classes), IsFiniteSet(sub), Edges(sub)
    PROVE  LET after == turns(classes, sub)
           IN  /\ after \in [Nat -> States(classes, sub)]
               /\ after[0] = [types |-> {}, todo |-> SetToSeq(classes)]
               /\ \A n \in Nat : after[n + 1] = turn(after[n], sub)
<1> DEFINE S == States(classes, sub)
           b == [types |-> {}, todo |-> SetToSeq(classes)]
           step == [s \in S |-> turn(s, sub)]
           IsAfter(f) == f = [n \in Nat |-> IF n = 0 THEN b ELSE turn(f[n - 1], sub)]
<1>1. b \in S
  <2>1. SetToSeq(classes) \in Seq(classes) /\ classes \subseteq Nodes(classes, sub)
      BY SetToSeqIs DEF Nodes
  <2> QED
      BY <2>1 DEF States
<1>2. step \in [S -> S]
    BY TurnIs
<1> HIDE DEF b
<1>3. PICK f \in [Nat -> S] : f[0] = b /\ \A n \in Nat : f[n + 1] = step[f[n]]
  <2> HIDE DEF S, step
  <2> QED
      BY <1>1, <1>2, NatRecursion
<1>4. \A n \in Nat : f[n + 1] = turn(f[n], sub)
    BY <1>3
<1>5. IsAfter(f)
  <2>1. ASSUME NEW n \in Nat PROVE f[n] = IF n = 0 THEN b ELSE turn(f[n - 1], sub)
    <3>1. CASE n = 0
        BY <1>3, <3>1
    <3>2. CASE n # 0
      <4>1. n - 1 \in Nat /\ (n - 1) + 1 = n
          BY <3>2
      <4> QED
          BY <1>4, <3>2, <4>1
    <3> QED
        BY <3>1, <3>2
  <2> QED
      BY <1>3, <2>1
<1>6. turns(classes, sub) = CHOOSE g : IsAfter(g)
    BY Zenon DEF turns, b
<1>7. IsAfter(turns(classes, sub))
    BY <1>5, <1>6, Zenon
<1> DEFINE g == turns(classes, sub)
<1> HIDE DEF g
<1>8. DOMAIN g = Nat /\ g[0] = b /\ \A n \in Nat : g[n + 1] = turn(g[n], sub)
  <2>1. g = [n \in Nat |-> IF n = 0 THEN b ELSE turn(g[n - 1], sub)]
      BY <1>7 DEF g
  <2>2. ASSUME NEW n \in Nat PROVE g[n + 1] = turn(g[n], sub)
    <3>1. n + 1 \in Nat /\ n + 1 # 0 /\ (n + 1) - 1 = n
        OBVIOUS
    <3> QED
        BY <2>1, <3>1
  <2> QED
      BY <2>1, <2>2
<1>9. \A n \in Nat : g[n] \in S
  <2> DEFINE T == {n \in Nat : g[n] \in S}
  <2>1. 0 \in T
      BY <1>1, <1>8
  <2>2. ASSUME NEW n \in T PROVE n + 1 \in T
    <3>1. g[n] \in S /\ g[n + 1] = turn(g[n], sub)
        BY <1>8
    <3> QED
        BY <3>1, TurnIs
  <2> HIDE DEF T
  <2>3. T = Nat
      BY <2>1, <2>2, SetInduction DEF T
  <2> QED
      BY <2>3 DEF T
<1>10. g = [n \in Nat |-> g[n]]
    BY <1>7 DEF g
<1>11. g \in [Nat -> S]
    BY <1>9, <1>10
<1> QED
    BY <1>8, <1>11, Zenon DEF g, b

LEMMA RangeOfFront ==
    ASSUME NEW N, NEW q \in Seq(N), q # <<>>
    PROVE  Range(q) = Range(Front(q)) \cup {q[Len(q)]} /\ Len(Front(q)) = Len(q) - 1
<1>1. Len(q) \in Nat /\ Len(q) # 0 /\ DOMAIN q = 1 .. Len(q)
    OBVIOUS
<1>2. /\ Len(Front(q)) = Len(q) - 1 /\ DOMAIN Front(q) = 1 .. Len(q) - 1
      /\ \A i \in 1 .. Len(q) - 1 : Front(q)[i] = q[i]
    BY <1>1 DEF Front
<1> QED
    BY <1>1, <1>2 DEF Range

LEMMA RangeOfBoth ==
    ASSUME NEW N, NEW a \in Seq(N), NEW b \in Seq(N)
    PROVE  Range(a \o b) = Range(a) \cup Range(b) /\ Len(a \o b) = Len(a) + Len(b)
<1> DEFINE d == a \o b
<1>1. /\ Len(a) \in Nat /\ Len(b) \in Nat /\ Len(d) = Len(a) + Len(b)
      /\ DOMAIN a = 1 .. Len(a) /\ DOMAIN b = 1 .. Len(b) /\ DOMAIN d = 1 .. Len(a) + Len(b)
      /\ \A i \in 1 .. Len(a) : d[i] = a[i]
      /\ \A i \in 1 .. Len(b) : d[Len(a) + i] = b[i]
    OBVIOUS
<1> HIDE DEF d
<1>2. ASSUME NEW x \in Range(d) PROVE x \in Range(a) \cup Range(b)
  <2>1. PICK i \in 1 .. Len(a) + Len(b) : x = d[i]
      BY <1>1 DEF Range
  <2>2. CASE i \in 1 .. Len(a)
      BY <1>1, <2>1, <2>2 DEF Range
  <2>3. CASE i \notin 1 .. Len(a)
    <3>1. i - Len(a) \in 1 .. Len(b) /\ Len(a) + (i - Len(a)) = i
        BY <1>1, <2>1, <2>3
    <3> QED
        BY <1>1, <2>1, <3>1 DEF Range
  <2> QED
      BY <2>2, <2>3
<1>3. Range(a) \subseteq Range(d)
    BY <1>1 DEF Range
<1>4. Range(b) \subseteq Range(d)
  <2>1. \A i \in 1 .. Len(b) : Len(a) + i \in 1 .. Len(a) + Len(b)
      BY <1>1
  <2> QED
      BY <1>1, <2>1 DEF Range
<1> QED
    BY <1>1, <1>2, <1>3, <1>4 DEF d

Reached(s) == s.types \cup Range(s.todo)

LEMMA TurnReaches ==
    ASSUME NEW classes, NEW sub, IsFiniteSet(sub), Edges(sub), NEW s \in States(classes, sub),
           s.todo # <<>>
    PROVE  LET c == s.todo[Len(s.todo)]
               t == turn(s, sub)
           IN  /\ c \in Reached(s) /\ t.types = s.types \cup {c}
               /\ c \in s.types => Reached(t) = Reached(s) /\ Len(t.todo) = Len(s.todo) - 1
               /\ c \notin s.types =>
                     /\ Reached(t) = Reached(s) \cup Up(sub, c)
                     /\ Len(t.todo) = Len(s.todo) - 1 + Cardinality(Up(sub, c))
<1> DEFINE N == Nodes(classes, sub)
           c == s.todo[Len(s.todo)]
           t == turn(s, sub)
           up == SetToSeq(Up(sub, c))
<1>1. s.todo \in Seq(N)
    BY DEF States
<1>2. Range(s.todo) = Range(Front(s.todo)) \cup {c} /\ Len(Front(s.todo)) = Len(s.todo) - 1
    BY <1>1, RangeOfFront
<1>3. /\ t.types = s.types \cup {c}
      /\ c \in s.types => t.todo = Front(s.todo)
      /\ c \notin s.types => t.todo = Front(s.todo) \o up
    BY TurnIs
<1>4. Front(s.todo) \in Seq(N)
    BY <1>1 DEF Front
<1>5. IsFiniteSet(Up(sub, c)) /\ Up(sub, c) \subseteq N
  <2>1. IsFiniteSet(Up(sub, c))
      BY UpIsFinite
  <2> QED
      BY <2>1 DEF Up, Nodes
<1>6. /\ up \in Seq(Up(sub, c)) /\ Len(up) = Cardinality(Up(sub, c))
      /\ \A x \in Up(sub, c) : \E i \in DOMAIN up : up[i] = x
    BY <1>5, SetToSeqIs
<1> HIDE DEF up, c, t, N
<1>7. up \in Seq(N) /\ Range(up) = Up(sub, c)
    BY <1>5, <1>6 DEF Range
<1>8. /\ Range(Front(s.todo) \o up) = Range(Front(s.todo)) \cup Up(sub, c)
      /\ Len(Front(s.todo) \o up) = Len(s.todo) - 1 + Cardinality(Up(sub, c))
    BY <1>2, <1>4, <1>6, <1>7, RangeOfBoth
<1> QED
    BY <1>2, <1>3, <1>8 DEF Reached, c, t

\* How many turns are left: each takes a class from the stack, and pushes only
\* what edges of a class that was not seen before lead to.
Left(s, sub) == Len(s.todo) + Cardinality({e \in sub : e[1] \notin s.types})

LEMMA TurnsLeft ==
    ASSUME NEW classes, NEW sub, IsFiniteSet(sub), Edges(sub), NEW s \in States(classes, sub),
           s.todo # <<>>
    PROVE  Left(turn(s, sub), sub) = Left(s, sub) - 1
<1> DEFINE c == s.todo[Len(s.todo)]
           t == turn(s, sub)
           new == {e \in sub : e[1] \notin s.types}
           later == {e \in sub : e[1] \notin t.types}
           from == {e \in sub : e[1] = c}
<1>1. /\ t.types = s.types \cup {c}
      /\ c \in s.types => Len(t.todo) = Len(s.todo) - 1
      /\ c \notin s.types => Len(t.todo) = Len(s.todo) - 1 + Cardinality(Up(sub, c))
    BY TurnReaches
<1>2. Len(s.todo) \in Nat
    BY DEF States
<1>3. IsFiniteSet(new) /\ IsFiniteSet(later) /\ IsFiniteSet(from)
    BY FS_Subset
<1>4. /\ Cardinality(new) \in Nat /\ Cardinality(later) \in Nat /\ Cardinality(from) \in Nat
    BY <1>3, FS_CardinalityType
<1>5. /\ Left(s, sub) = Len(s.todo) + Cardinality(new)
      /\ Left(t, sub) = Len(t.todo) + Cardinality(later)
    BY Zenon DEF Left
<1>7. CASE c \in s.types
  <2>1. later = new
      BY <1>1, <1>7
  <2> HIDE DEF new, later, t, c
  <2> QED
      BY <1>1, <1>2, <1>4, <1>5, <1>7, <2>1 DEF t
<1>6. CASE c \notin s.types
  <2>1. Cardinality(Up(sub, c)) = Cardinality(from)
      BY UpIsFinite
  <2>2. new = later \cup from /\ later \cap from = {}
      BY <1>1, <1>6
  <2> HIDE DEF new, later, from
  <2>3. Cardinality(new) = Cardinality(later) + Cardinality(from)
    <3>1. Cardinality(later \cup from)
             = Cardinality(later) + Cardinality(from) - Cardinality(later \cap from)
        BY <1>3, FS_Union
    <3>2. Cardinality({}) = 0
        BY FS_EmptySet
    <3>3. Cardinality(new) = Cardinality(later \cup from) /\ Cardinality(later \cap from) = 0
        BY <2>2, <3>2, Zenon
    <3> QED
        BY <1>4, <3>1, <3>3
  <2> HIDE DEF t, c
  <2> QED
      BY <1>1, <1>2, <1>4, <1>5, <1>6, <2>1, <2>3 DEF t
<1> QED
    BY <1>6, <1>7

\* What the loop keeps true.
Climbs(s, classes, sub) ==
    /\ classes \subseteq Reached(s)
    /\ \A e \in sub : e[1] \in s.types => e[2] \in Reached(s)
    /\ \A C : classes \subseteq C /\ (\A e \in sub : e[1] \in C => e[2] \in C) => Reached(s) \subseteq C

LEMMA TurnClimbs ==
    ASSUME NEW classes, NEW sub, IsFiniteSet(sub), Edges(sub), NEW s \in States(classes, sub),
           Climbs(s, classes, sub)
    PROVE  Climbs(turn(s, sub), classes, sub)
<1> DEFINE c == s.todo[Len(s.todo)]
           t == turn(s, sub)
<1>1. CASE s.todo = <<>>
    BY <1>1, TurnIs
<1>2. CASE s.todo # <<>>
  <2>1. /\ c \in Reached(s) /\ t.types = s.types \cup {c}
        /\ c \in s.types => Reached(t) = Reached(s)
        /\ c \notin s.types => Reached(t) = Reached(s) \cup Up(sub, c)
      BY <1>2, TurnReaches
  <2> HIDE DEF c, t
  <2>2. CASE c \in s.types
      BY <2>1, <2>2 DEF Climbs, t
  <2>3. CASE c \notin s.types
    <3>1. Reached(t) = Reached(s) \cup Up(sub, c)
        BY <2>1, <2>3
    <3>2. \A e \in sub : e[1] \in t.types => e[2] \in Reached(t)
        BY <2>1, <3>1 DEF Climbs, Up
    <3>3. ASSUME NEW C, classes \subseteq C, \A e \in sub : e[1] \in C => e[2] \in C
          PROVE  Reached(t) \subseteq C
      <4>1. Reached(s) \subseteq C
          BY <3>3 DEF Climbs
      <4> QED
          BY <2>1, <3>1, <3>3, <4>1 DEF Up
    <3> QED
        BY <3>1, <3>2, <3>3 DEF Climbs, t
  <2> QED
      BY <2>2, <2>3
<1> QED
    BY <1>1, <1>2

\* The loop ends with the least set that has the classes and all that is above
\* one of its members.
LEMMA ClimbIsLeast ==
    ASSUME NEW classes, NEW sub, IsFiniteSet(classes), IsFiniteSet(sub), Edges(sub)
    PROVE  LET R == climb(classes, sub)
           IN  /\ classes \subseteq R
               /\ \A e \in sub : e[1] \in R => e[2] \in R
               /\ \A C : classes \subseteq C /\ (\A e \in sub : e[1] \in C => e[2] \in C)
                         => R \subseteq C
<1> DEFINE after == turns(classes, sub)
           S == States(classes, sub)
           k == Cardinality(classes) + Cardinality(sub)
           T == {n \in Nat : /\ Climbs(after[n], classes, sub)
                             /\ after[n].todo # <<>> => Left(after[n], sub) + n = k}
<1>1. /\ after \in [Nat -> S] /\ after[0] = [types |-> {}, todo |-> SetToSeq(classes)]
      /\ \A n \in Nat : after[n + 1] = turn(after[n], sub)
    BY TurnsAre
<1>2. Cardinality(classes) \in Nat /\ Cardinality(sub) \in Nat
    BY FS_CardinalityType
<1> HIDE DEF after, S
<1>3. 0 \in T
  <2> DEFINE q == SetToSeq(classes)
  <2>1. /\ q \in Seq(classes) /\ Len(q) = Cardinality(classes)
        /\ \A x \in classes : \E i \in DOMAIN q : q[i] = x
      BY SetToSeqIs
  <2> HIDE DEF q
  <2>2. Range(q) = classes
      BY <2>1 DEF Range
  <2>3. after[0].types = {} /\ after[0].todo = q
      BY <1>1 DEF q
  <2>4. Reached(after[0]) = classes
      BY <2>2, <2>3 DEF Reached
  <2>5. Left(after[0], sub) = k
    <3>1. {e \in sub : e[1] \notin after[0].types} = sub
        BY <2>3
    <3> QED
        BY <2>1, <2>3, <3>1 DEF Left
  <2> QED
      BY <1>2, <2>3, <2>4, <2>5 DEF Climbs
<1>4. ASSUME NEW n \in T PROVE n + 1 \in T
  <2> DEFINE s == after[n]
             t == after[n + 1]
  <2>1. n \in Nat /\ s \in S /\ t = turn(s, sub) /\ Climbs(s, classes, sub)
      BY <1>1
  <2>2. Climbs(t, classes, sub)
      BY <2>1, TurnClimbs DEF S
  <2>3. ASSUME t.todo # <<>> PROVE Left(t, sub) + (n + 1) = k
    <3>1. s.todo # <<>>
        BY <2>1, <2>3, TurnIs DEF S
    <3>2. Left(s, sub) + n = k /\ Left(t, sub) = Left(s, sub) - 1
        BY <2>1, <3>1, TurnsLeft DEF S
    <3>3. Left(s, sub) \in Nat
      <4>1. IsFiniteSet({e \in sub : e[1] \notin s.types})
          BY FS_Subset
      <4>2. Cardinality({e \in sub : e[1] \notin s.types}) \in Nat
          BY <4>1, FS_CardinalityType
      <4> QED
          BY <2>1, <4>2 DEF Left, S, States
    <3> QED
        BY <1>2, <2>1, <3>2, <3>3
  <2> QED
      BY <2>1, <2>2, <2>3
<1> HIDE DEF T
<1>5. T = Nat
    BY <1>3, <1>4, SetInduction DEF T
<1>6. k \in Nat
    BY <1>2
<1> DEFINE s == after[k]
<1>7. /\ s \in S /\ Climbs(s, classes, sub) /\ (s.todo # <<>> => Left(s, sub) + k = k)
    BY <1>1, <1>5, <1>6 DEF T
<1>8. s.todo = <<>>
  <2>1. SUFFICES ASSUME s.todo # <<>> PROVE FALSE
      OBVIOUS
  <2>2. IsFiniteSet({e \in sub : e[1] \notin s.types})
      BY FS_Subset
  <2>3. Cardinality({e \in sub : e[1] \notin s.types}) \in Nat
      BY <2>2, FS_CardinalityType
  <2>4. Len(s.todo) \in Nat /\ Len(s.todo) # 0
      BY <1>7, <2>1 DEF S, States
  <2> HIDE DEF k, s
  <2> QED
      BY <1>6, <1>7, <2>1, <2>3, <2>4 DEF Left
<1>9. Reached(s) = s.types
    BY <1>8 DEF Reached, Range
<1>10. climb(classes, sub) = s.types
    BY DEF climb, after
<1> HIDE DEF s
<1> QED
    BY <1>7, <1>9, <1>10 DEF Climbs

\* A path from c to d along n of the edges.
IsPath(up, nodes, c, d, n, p) ==
    /\ p \in [0 .. n -> nodes] /\ p[0] = c /\ p[n] = d
    /\ \A i \in 1 .. n : <<p[i - 1], p[i]>> \in up

\* A path that comes back to a node can be cut short there.
LEMMA CutPath ==
    ASSUME NEW up, NEW nodes, NEW c, NEW d, NEW n \in Nat, NEW p, IsPath(up, nodes, c, d, n, p),
           NEW i \in 1 .. n, NEW j \in 1 .. n, i < j, p[i] = p[j]
    PROVE  /\ n - (j - i) \in Nat \ {0} /\ n - (j - i) < n
           /\ \E r : IsPath(up, nodes, c, d, n - (j - i), r)
<1> DEFINE m == n - (j - i)
           r == [k \in 0 .. m |-> IF k =< i THEN p[k] ELSE p[k + (j - i)]]
<1>1. m \in Nat \ {0} /\ m < n /\ i =< m
    OBVIOUS
<1>2. \A k \in 0 .. m : k \in 0 .. n /\ (~(k =< i) => k + (j - i) \in 0 .. n)
    OBVIOUS
<1>3. r \in [0 .. m -> nodes] /\ r[0] = c
    BY <1>1, <1>2 DEF IsPath
<1>4. r[m] = d
  <2>1. CASE m = i
    <3>1. j = n
        BY <2>1
    <3> QED
        BY <1>1, <2>1, <3>1 DEF IsPath
  <2>2. CASE m # i
    <3>1. ~(m =< i) /\ m + (j - i) = n
        BY <1>1, <2>2
    <3> QED
        BY <1>1, <3>1 DEF IsPath
  <2> QED
      BY <2>1, <2>2
<1>5. ASSUME NEW k \in 1 .. m PROVE <<r[k - 1], r[k]>> \in up
  <2>1. k - 1 \in 0 .. m /\ k \in 0 .. m
      BY <1>1
  <2>2. CASE k =< i
    <3>1. k - 1 =< i /\ k \in 1 .. n
        BY <2>2
    <3> QED
        BY <2>1, <2>2, <3>1 DEF IsPath
  <2>3. CASE k = i + 1
    <3>1. r[k - 1] = p[j] /\ r[k] = p[j + 1]
        BY <2>1, <2>3
    <3>2. j + 1 \in 1 .. n /\ (j + 1) - 1 = j
        BY <2>3
    <3> QED
        BY <3>1, <3>2 DEF IsPath
  <2>4. CASE k > i + 1
    <3>1. ~(k - 1 =< i) /\ ~(k =< i)
        BY <2>4
    <3>2. r[k - 1] = p[(k - 1) + (j - i)] /\ r[k] = p[k + (j - i)]
        BY <2>1, <3>1
    <3>3. k + (j - i) \in 1 .. n /\ (k + (j - i)) - 1 = (k - 1) + (j - i)
        BY <2>4
    <3> QED
        BY <3>2, <3>3 DEF IsPath
  <2> QED
      BY <2>2, <2>3, <2>4
<1> HIDE DEF r
<1>6. IsPath(up, nodes, c, d, m, r)
    BY <1>3, <1>4, <1>5 DEF IsPath
<1> QED
    BY <1>1, <1>6

\* Between two nodes that a path connects there is one no longer than the
\* nodes are many.
LEMMA ShortPath ==
    ASSUME NEW up, NEW nodes, IsFiniteSet(nodes), NEW c, NEW d, NEW n \in Nat \ {0}, NEW p,
           IsPath(up, nodes, c, d, n, p)
    PROVE  \E m \in 1 .. Cardinality(nodes) : \E q : IsPath(up, nodes, c, d, m, q)
<1> DEFINE T == {m \in Nat \ {0} : \E q : IsPath(up, nodes, c, d, m, q)}
<1>1. T \in SUBSET Nat /\ T # {}
    OBVIOUS
<1> HIDE DEF T
<1>2. PICK m \in T : \A k \in T : m =< k
    BY <1>1, LeastNatural
<1>3. m \in Nat \ {0} /\ \E q : IsPath(up, nodes, c, d, m, q)
    BY <1>2 DEF T
<1>4. PICK q : IsPath(up, nodes, c, d, m, q)
    BY <1>3
<1>5. Cardinality(nodes) \in Nat
    BY FS_CardinalityType
<1>6. ASSUME Cardinality(nodes) < m PROVE FALSE
  <2> DEFINE f == [i \in 1 .. m |-> q[i]]
  <2>1. IsFiniteSet(1 .. m) /\ Cardinality(1 .. m) = m
    <3>1. 1 \in Int /\ m \in Int
        BY <1>3
    <3> QED
        BY <1>3, <3>1, FS_Interval
  <2>2. f \in [1 .. m -> nodes]
      BY <1>3, <1>4 DEF IsPath
  <2>3. Cardinality(nodes) < Cardinality(1 .. m)
      BY <1>6, <2>1
  <2>4. PICK i, j \in 1 .. m : i # j /\ f[i] = f[j]
    <3> DEFINE D == 1 .. m
    <3>1. IsFiniteSet(D) /\ Cardinality(nodes) < Cardinality(D) /\ f \in [D -> nodes]
        BY <2>1, <2>2, <2>3
    <3> HIDE DEF D, f
    <3>2. \E i, j \in D : i # j /\ f[i] = f[j]
        BY <3>1, FS_PigeonHole
    <3> QED
        BY <3>2 DEF D
  <2>5. PICK a, b \in 1 .. m : a < b /\ q[a] = q[b]
    <3>1. i < j \/ j < i
        BY <1>3, <2>4
    <3> QED
        BY <2>4, <3>1
  <2>6. /\ m - (b - a) \in Nat \ {0} /\ m - (b - a) < m
        /\ \E r : IsPath(up, nodes, c, d, m - (b - a), r)
      BY <1>3, <1>4, <2>5, CutPath
  <2>7. m - (b - a) \in T
      BY <2>6 DEF T
  <2> QED
      BY <1>2, <1>3, <2>6, <2>7
<1>7. m \in 1 .. Cardinality(nodes)
    BY <1>3, <1>5, <1>6
<1> QED
    BY <1>4, <1>7

SubClasses(S) == edges(S, SUB_CLASS_OF)
Typed(S) == edges(S, RDF_TYPE)

LEMMA EdgesAreFinite ==
    ASSUME NEW S, IsFiniteSet(S), NEW p
    PROVE  IsFiniteSet(edges(S, p)) /\ Edges(edges(S, p))
<1> DEFINE D == {e \in With(S, p) : BetweenNamed(e)}
           f == [q \in D |-> <<q.subject, q.object>>]
<1>1. IsFiniteSet(D)
    BY FS_Subset DEF With
<1>2. IsFiniteSet({f[q] : q \in D})
    BY <1>1, ImageIsFinite
<1>3. edges(S, p) = {f[q] : q \in D}
    BY DEF edges
<1>4. \A e \in edges(S, p) : e = <<e[1], e[2]>>
    BY DEF edges
<1> QED
    BY <1>2, <1>3, <1>4 DEF Edges

\* Above is the transitive closure of the subclass edges: d is above c when it
\* is in every set that has all that is directly above c or one of its members.
LEMMA AboveIs ==
    ASSUME NEW S, IsFiniteSet(S), NEW c, NEW d
    PROVE  <<c, d>> \in Above(S) <=>
               \A C : /\ Up(SubClasses(S), c) \subseteq C
                      /\ \A e \in SubClasses(S) : e[1] \in C => e[2] \in C
                      => d \in C
<1> DEFINE up == SubClasses(S)
           nodes == {e[1] : e \in up} \cup {e[2] : e \in up}
           Over(C) == Up(up, c) \subseteq C /\ \A e \in up : e[1] \in C => e[2] \in C
<1>1. IsFiniteSet(up) /\ Edges(up)
    BY EdgesAreFinite DEF SubClasses
<1>2. IsFiniteSet(nodes)
  <2> DEFINE f == [e \in up |-> e[1]]
             g == [e \in up |-> e[2]]
  <2> HIDE DEF up
  <2>1. IsFiniteSet({f[e] : e \in up}) /\ IsFiniteSet({g[e] : e \in up})
    <3>1. DOMAIN f = up /\ DOMAIN g = up
        OBVIOUS
    <3> HIDE DEF f, g
    <3> QED
        BY <1>1, <3>1, ImageIsFinite
  <2>2. {f[e] : e \in up} = {e[1] : e \in up} /\ {g[e] : e \in up} = {e[2] : e \in up}
      OBVIOUS
  <2>3. IsFiniteSet({e[1] : e \in up}) /\ IsFiniteSet({e[2] : e \in up})
      BY <2>1, <2>2
  <2> QED
      BY <2>3, FS_Union
<1>3. <<c, d>> \in Above(S) <=>
         /\ c \in nodes /\ d \in nodes
         /\ \E n \in 1 .. Cardinality(nodes) : \E p : IsPath(up, nodes, c, d, n, p)
  <2>1. <<c, d>> \in Above(S) <=>
           /\ <<c, d>> \in nodes \X nodes
           /\ \E n \in 1 .. Cardinality(nodes) : \E p \in [0 .. n -> nodes] :
                 p[0] = c /\ p[n] = d /\ \A i \in 1 .. n : <<p[i - 1], p[i]>> \in up
      BY DEF Above, SubClasses
  <2> HIDE DEF nodes, up
  <2> QED
      BY <2>1 DEF IsPath
<1>4. ASSUME NEW n \in Nat \ {0}, NEW p, IsPath(up, nodes, c, d, n, p), NEW C, Over(C)
      PROVE  d \in C
  <2> HIDE DEF up, nodes
  <2> DEFINE T == {i \in Nat : i + 1 =< n => p[i + 1] \in C}
  <2>1. 0 \in T
    <3>1. <<p[0], p[1]>> \in up /\ p[0] = c
        BY <1>4 DEF IsPath
    <3> QED
        BY <1>4, <3>1 DEF Up
  <2>2. ASSUME NEW i \in T PROVE i + 1 \in T
    <3>1. SUFFICES ASSUME (i + 1) + 1 =< n PROVE p[(i + 1) + 1] \in C
        OBVIOUS
    <3>2. p[i + 1] \in C /\ (i + 1) + 1 \in 1 .. n /\ ((i + 1) + 1) - 1 = i + 1
        BY <2>2, <3>1
    <3>3. <<p[i + 1], p[(i + 1) + 1]>> \in up
        BY <1>4, <3>2 DEF IsPath
    <3> QED
        BY <1>4, <3>2, <3>3
  <2> HIDE DEF T
  <2>3. T = Nat
      BY <2>1, <2>2, SetInduction DEF T
  <2>4. n - 1 \in T /\ (n - 1) + 1 = n
      BY <2>3
  <2> QED
      BY <1>4, <2>4 DEF T, IsPath
<1> DEFINE C0 == {x \in nodes : \E n \in Nat \ {0} : \E p : IsPath(up, nodes, c, x, n, p)}
<1>5. Over(C0)
  <2>1. ASSUME NEW x \in Up(up, c) PROVE x \in C0
    <3>1. <<c, x>> \in up
        BY <1>1 DEF Up, Edges
    <3>2. c \in nodes /\ x \in nodes
        BY <3>1
    <3> DEFINE p == [i \in 0 .. 1 |-> IF i = 0 THEN c ELSE x]
    <3> HIDE DEF up, nodes
    <3>3. IsPath(up, nodes, c, x, 1, p)
        BY <3>1, <3>2 DEF IsPath
    <3> HIDE DEF p
    <3> QED
        BY <3>2, <3>3
  <2>2. ASSUME NEW e \in up, e[1] \in C0 PROVE e[2] \in C0
    <3>1. e = <<e[1], e[2]>> /\ e[2] \in nodes
        BY <1>1 DEF Edges
    <3> HIDE DEF up, nodes
    <3>2. PICK n \in Nat \ {0} : \E p : IsPath(up, nodes, c, e[1], n, p)
        BY <2>2
    <3>3. PICK p : IsPath(up, nodes, c, e[1], n, p)
        BY <3>2
    <3> DEFINE r == [i \in 0 .. n + 1 |-> IF i = n + 1 THEN e[2] ELSE p[i]]
    <3>4. IsPath(up, nodes, c, e[2], n + 1, r)
      <4>1. r \in [0 .. n + 1 -> nodes] /\ r[0] = c /\ r[n + 1] = e[2]
          BY <3>1, <3>3 DEF IsPath
      <4>2. ASSUME NEW i \in 1 .. n + 1 PROVE <<r[i - 1], r[i]>> \in up
        <5>1. CASE i = n + 1
          <6>1. r[i - 1] = e[1] /\ r[i] = e[2]
              BY <3>3, <5>1 DEF IsPath
          <6> QED
              BY <2>2, <3>1, <6>1
        <5>2. CASE i \in 1 .. n
            BY <3>3, <5>2 DEF IsPath
        <5> QED
            BY <5>1, <5>2
      <4> HIDE DEF r
      <4> QED
          BY <4>1, <4>2 DEF IsPath
    <3> HIDE DEF r
    <3>5. n + 1 \in Nat \ {0}
        OBVIOUS
    <3> QED
        BY <3>1, <3>4, <3>5
  <2> QED
      BY <2>1, <2>2, Zenon
<1>6. ASSUME \A C : Over(C) => d \in C PROVE <<c, d>> \in Above(S)
  <2>1. d \in C0
      BY <1>5, <1>6, Zenon
  <2>2. c \in nodes
    <3>1. Up(up, c) # {}
      <4>1. SUFFICES ASSUME Up(up, c) = {} PROVE FALSE
          OBVIOUS
      <4>2. Over({})
          BY <4>1
      <4>3. d \in {}
          BY <1>6, <4>2, Zenon
      <4> QED
          BY <4>3
    <3> QED
        BY <3>1 DEF Up
  <2> HIDE DEF up, nodes
  <2>3. PICK n \in Nat \ {0} : \E p : IsPath(up, nodes, c, d, n, p)
      BY <2>1
  <2>4. \E m \in 1 .. Cardinality(nodes) : \E q : IsPath(up, nodes, c, d, m, q)
      BY <1>2, <2>3, ShortPath
  <2> QED
      BY <1>3, <2>1, <2>2, <2>4
<1>7. ASSUME <<c, d>> \in Above(S), NEW C, Over(C) PROVE d \in C
  <2>1. Cardinality(nodes) \in Nat
      BY <1>2, FS_CardinalityType
  <2> HIDE DEF nodes, up
  <2>2. PICK n \in 1 .. Cardinality(nodes) : \E p : IsPath(up, nodes, c, d, n, p)
      BY <1>3, <1>7
  <2>3. n \in Nat \ {0}
      BY <2>1, <2>2
  <2> QED
      BY <1>4, <1>7, <2>2, <2>3
<1> QED
    BY <1>6, <1>7, Zenon

LEMMA TypeQuadsAre ==
    ASSUME NEW sub, NEW typed, NEW q
    PROVE  q \in type_quads(sub, typed) <=>
               \E t \in typed : \E d \in climb(Up(typed, t[1]), sub) : q = Triple(t[1], RDF_TYPE, d)
<1>1. ASSUME q \in type_quads(sub, typed)
      PROVE  \E t \in typed : \E d \in climb(Up(typed, t[1]), sub) : q = Triple(t[1], RDF_TYPE, d)
  <2>1. PICK r \in realization(sub, typed) : q = Triple(r[1], RDF_TYPE, r[2])
      BY <1>1, Zenon DEF type_quads
  <2>2. PICK i \in {e[1] : e \in typed} : r \in {<<i, c>> : c \in climb(Up(typed, i), sub)}
      BY <2>1, Zenon DEF realization, Up
  <2>3. PICK t \in typed : i = t[1]
      BY <2>2, Zenon
  <2>4. PICK d \in climb(Up(typed, i), sub) : r = <<i, d>>
      BY <2>2, Zenon
  <2>5. r[1] = i /\ r[2] = d
      BY <2>4
  <2> QED
      BY <2>1, <2>3, <2>4, <2>5, Zenon
<1>2. ASSUME NEW t \in typed, NEW d \in climb(Up(typed, t[1]), sub), q = Triple(t[1], RDF_TYPE, d)
      PROVE  q \in type_quads(sub, typed)
  <2> DEFINE r == <<t[1], d>>
  <2>1. r \in realization(sub, typed)
    <3> DEFINE F(i) == {<<i, c>> : c \in climb(Up(typed, i), sub)}
    <3>1. r \in F(t[1]) /\ t[1] \in {e[1] : e \in typed}
        BY Zenon
    <3>2. realization(sub, typed) = UNION {F(i) : i \in {e[1] : e \in typed}}
        BY Zenon DEF realization, Up
    <3> HIDE DEF F, r
    <3> QED
        BY <3>1, <3>2, Zenon
  <2>2. r[1] = t[1] /\ r[2] = d
      OBVIOUS
  <2> HIDE DEF r
  <2> QED
      BY <1>2, <2>1, <2>2, Zenon DEF type_quads
<1> QED
    BY <1>1, <1>2, Zenon

LEMMA TypesEntailedAre ==
    ASSUME NEW S, NEW q
    PROVE  q \in TypesEntailed(S) <=>
               \E t \in Typed(S) : \E d : /\ q = Triple(t[1], RDF_TYPE, d)
                                          /\ d = t[2] \/ <<t[2], d>> \in Above(S)
<1>1. \A a \in Above(S) : a = <<a[1], a[2]>>
    BY DEF Above
<1>2. ASSUME q \in TypesEntailed(S)
      PROVE  \E t \in Typed(S) : \E d : /\ q = Triple(t[1], RDF_TYPE, d)
                                        /\ d = t[2] \/ <<t[2], d>> \in Above(S)
  <2>1. CASE \E t \in Typed(S) : q = Triple(t[1], RDF_TYPE, t[2])
      BY <2>1, Zenon
  <2>2. CASE \E t \in Typed(S) : \E a \in Above(S) : a[1] = t[2] /\ q = Triple(t[1], RDF_TYPE, a[2])
    <3>1. PICK t \in Typed(S), a \in Above(S) : a[1] = t[2] /\ q = Triple(t[1], RDF_TYPE, a[2])
        BY <2>2, Zenon
    <3>2. <<t[2], a[2]>> \in Above(S)
        BY <1>1, <3>1
    <3> QED
        BY <3>1, <3>2, Zenon
  <2> QED
      BY <1>2, <2>1, <2>2, Zenon DEF TypesEntailed, Typed
<1>3. ASSUME NEW t \in Typed(S), NEW d, q = Triple(t[1], RDF_TYPE, d),
             d = t[2] \/ <<t[2], d>> \in Above(S)
      PROVE  q \in TypesEntailed(S)
  <2>1. CASE d = t[2]
      BY <1>3, <2>1, Zenon DEF TypesEntailed, Typed
  <2>2. CASE <<t[2], d>> \in Above(S)
    <3> DEFINE a == <<t[2], d>>
    <3>1. a \in Above(S) /\ a[1] = t[2] /\ a[2] = d
        BY <2>2
    <3> HIDE DEF a
    <3> DEFINE F(u) == {Triple(u[1], RDF_TYPE, e[2]) : e \in {b \in Above(S) : b[1] = u[2]}}
    <3>2. q \in F(t)
        BY <1>3, <3>1, Zenon
    <3>3. UNION {F(u) : u \in Typed(S)} \subseteq TypesEntailed(S)
        BY Zenon DEF TypesEntailed, Typed
    <3> HIDE DEF F
    <3> QED
        BY <1>3, <3>2, <3>3, Zenon
  <2> QED
      BY <1>3, <2>1, <2>2
<1> QED
    BY <1>2, <1>3, Zenon

\* The loop finds the types and all that is above them.
LEMMA ClimbIsAbove ==
    ASSUME NEW S, IsFiniteSet(S), NEW i, NEW d
    PROVE  d \in climb(Up(Typed(S), i), SubClasses(S)) <=>
               \E t \in Typed(S) : t[1] = i /\ (d = t[2] \/ <<t[2], d>> \in Above(S))
<1> DEFINE sub == SubClasses(S)
           classes == Up(Typed(S), i)
           R == climb(classes, sub)
           A == {x \in classes \cup {e[2] : e \in sub} :
                    \E t \in Typed(S) : t[1] = i /\ (x = t[2] \/ <<t[2], x>> \in Above(S))}
<1>1. /\ IsFiniteSet(sub) /\ Edges(sub) /\ IsFiniteSet(Typed(S)) /\ Edges(Typed(S))
    BY EdgesAreFinite DEF SubClasses, Typed
<1>2. IsFiniteSet(classes)
    BY <1>1, UpIsFinite
<1>3. /\ classes \subseteq R
      /\ \A e \in sub : e[1] \in R => e[2] \in R
      /\ \A C : classes \subseteq C /\ (\A e \in sub : e[1] \in C => e[2] \in C) => R \subseteq C
  <2> HIDE DEF classes, sub
  <2> QED
      BY <1>1, <1>2, ClimbIsLeast
<1> HIDE DEF R
<1>4. classes \subseteq A
    BY Zenon DEF Up
<1>5. ASSUME NEW e \in sub, e[1] \in A PROVE e[2] \in A
  <2>1. PICK t \in Typed(S) : t[1] = i /\ (e[1] = t[2] \/ <<t[2], e[1]>> \in Above(S))
      BY <1>5
  <2>2. <<t[2], e[2]>> \in Above(S)
    <3>1. SUFFICES ASSUME NEW C, Up(sub, t[2]) \subseteq C,
                          \A f \in sub : f[1] \in C => f[2] \in C
                   PROVE  e[2] \in C
        BY AboveIs
    <3>2. CASE e[1] = t[2]
        BY <1>5, <3>1, <3>2 DEF Up
    <3>3. CASE <<t[2], e[1]>> \in Above(S)
      <4>1. e[1] \in C
          BY <3>1, <3>3, AboveIs
      <4> QED
          BY <1>5, <3>1, <4>1
    <3> QED
        BY <2>1, <3>2, <3>3
  <2> QED
      BY <1>5, <2>1, <2>2
<1>6. R \subseteq A
    BY <1>3, <1>4, <1>5, Zenon
<1>7. ASSUME NEW t \in Typed(S), t[1] = i, d = t[2] \/ <<t[2], d>> \in Above(S)
      PROVE  d \in R
  <2>1. t[2] \in R
      BY <1>3, <1>7 DEF Up
  <2>2. CASE d = t[2]
      BY <2>1, <2>2
  <2>3. CASE <<t[2], d>> \in Above(S)
    <3>1. Up(sub, t[2]) \subseteq R
        BY <1>3, <2>1 DEF Up
    <3> QED
        BY <1>3, <2>3, <3>1, AboveIs
  <2> QED
      BY <1>7, <2>2, <2>3
<1>8. d \in R => \E t \in Typed(S) : t[1] = i /\ (d = t[2] \/ <<t[2], d>> \in Above(S))
    BY <1>6
<1> QED
    BY <1>7, <1>8, Zenon DEF R

\* ToySubsumption computes what the reference says the quads entail.
LEMMA TypesAreEntailed ==
    ASSUME NEW S, IsFiniteSet(S)
    PROVE  type_quads(SubClasses(S), Typed(S)) = TypesEntailed(S)
<1>1. ASSUME NEW q, q \in type_quads(SubClasses(S), Typed(S)) PROVE q \in TypesEntailed(S)
  <2>0. PICK t \in Typed(S) : \E d \in climb(Up(Typed(S), t[1]), SubClasses(S)) :
           q = Triple(t[1], RDF_TYPE, d)
      BY <1>1, TypeQuadsAre
  <2>1. PICK d \in climb(Up(Typed(S), t[1]), SubClasses(S)) : q = Triple(t[1], RDF_TYPE, d)
      BY <2>0
  <2>2. PICK u \in Typed(S) : u[1] = t[1] /\ (d = u[2] \/ <<u[2], d>> \in Above(S))
      BY <2>1, ClimbIsAbove
  <2>3. q = Triple(u[1], RDF_TYPE, d)
      BY <2>1, <2>2, Zenon
  <2> QED
      BY <2>2, <2>3, TypesEntailedAre
<1>2. ASSUME NEW q, q \in TypesEntailed(S) PROVE q \in type_quads(SubClasses(S), Typed(S))
  <2>0. PICK t \in Typed(S) : \E d : /\ q = Triple(t[1], RDF_TYPE, d)
                                     /\ d = t[2] \/ <<t[2], d>> \in Above(S)
      BY <1>2, TypesEntailedAre
  <2>1. PICK d : q = Triple(t[1], RDF_TYPE, d) /\ (d = t[2] \/ <<t[2], d>> \in Above(S))
      BY <2>0
  <2>2. d \in climb(Up(Typed(S), t[1]), SubClasses(S))
      BY <2>1, ClimbIsAbove
  <2> QED
      BY <2>1, <2>2, TypeQuadsAre
<1> QED
    BY <1>1, <1>2

\* More edges, more types.
LEMMA TypeQuadsMore ==
    ASSUME NEW sub, NEW typed, NEW sub2, NEW typed2, sub \subseteq sub2, typed \subseteq typed2,
           IsFiniteSet(sub2), IsFiniteSet(typed2), Edges(sub2), Edges(typed2)
    PROVE  type_quads(sub, typed) \subseteq type_quads(sub2, typed2)
<1>1. IsFiniteSet(sub) /\ IsFiniteSet(typed) /\ Edges(sub) /\ Edges(typed)
    BY FS_Subset DEF Edges
<1>2. ASSUME NEW i PROVE climb(Up(typed, i), sub) \subseteq climb(Up(typed2, i), sub2)
  <2> DEFINE R == climb(Up(typed2, i), sub2)
  <2>1. IsFiniteSet(Up(typed, i)) /\ IsFiniteSet(Up(typed2, i)) /\ Up(typed, i) \subseteq Up(typed2, i)
    <3>1. IsFiniteSet(Up(typed, i)) /\ IsFiniteSet(Up(typed2, i))
        BY <1>1, UpIsFinite
    <3> QED
        BY <3>1 DEF Up
  <2>2. Up(typed2, i) \subseteq R /\ \A e \in sub2 : e[1] \in R => e[2] \in R
      BY <2>1, ClimbIsLeast
  <2> HIDE DEF R
  <2>3. Up(typed, i) \subseteq R /\ \A e \in sub : e[1] \in R => e[2] \in R
      BY <2>1, <2>2
  <2>4. \A C : Up(typed, i) \subseteq C /\ (\A e \in sub : e[1] \in C => e[2] \in C)
               => climb(Up(typed, i), sub) \subseteq C
      BY <1>1, <2>1, ClimbIsLeast
  <2> QED
      BY <2>3, <2>4, Zenon DEF R
<1> QED
    BY <1>2, TypeQuadsAre

-----------------------------------------------------------------------------
(* ToySubsumption keeps its inferences in the store *)

LEMMA EdgeIs ==
    ASSUME NEW S, NEW p, NEW e
    PROVE  e \in edges(S, p) <=>
             \E q \in S : q.predicate = p /\ BetweenNamed(q) /\ e = <<q.subject, q.object>>
BY DEF edges, With

\* Nothing entailed is without its place in Quads.
LEMMA EntailedAreQuads ==
    ASSUME NEW S, IsFiniteSet(S), S \subseteq Quads
    PROVE  TypesEntailed(S) \subseteq Quads
<1> SUFFICES ASSUME NEW q \in TypesEntailed(S) PROVE q \in Quads
    OBVIOUS
<1>1. PICK t \in Typed(S) : \E d : /\ q = Triple(t[1], RDF_TYPE, d)
                                   /\ d = t[2] \/ <<t[2], d>> \in Above(S)
    BY TypesEntailedAre
<1>2. PICK d : q = Triple(t[1], RDF_TYPE, d) /\ (d = t[2] \/ <<t[2], d>> \in Above(S))
    BY <1>1
<1>3. PICK p \in S : p.predicate = RDF_TYPE /\ BetweenNamed(p) /\ t = <<p.subject, p.object>>
    BY EdgeIs DEF Typed
<1>4. t[1] = p.subject /\ t[2] = p.object
    BY <1>3
<1>5. CASE d = t[2]
    BY <1>2, <1>3, <1>4, <1>5, ReasonersAssumption
<1>6. CASE <<t[2], d>> \in Above(S)
  <2> DEFINE C == {e[2] : e \in SubClasses(S)}
  <2>1. Up(SubClasses(S), t[2]) \subseteq C
      BY DEF Up
  <2>2. \A e \in SubClasses(S) : e[2] \in C
      OBVIOUS
  <2> HIDE DEF C
  <2>3. d \in C
      BY <1>6, <2>1, <2>2, AboveIs
  <2>4. PICK e \in SubClasses(S) : d = e[2]
      BY <2>3 DEF C
  <2>5. PICK u \in S : u.predicate = SUB_CLASS_OF /\ BetweenNamed(u) /\ e = <<u.subject, u.object>>
      BY EdgeIs DEF SubClasses
  <2>6. d = u.object
      BY <2>4, <2>5
  <2> QED
      BY <1>2, <1>3, <1>4, <2>5, <2>6, ReasonersAssumption
<1> QED
    BY <1>2, <1>5, <1>6

LEMMA AboveIsTransitive ==
    ASSUME NEW S, IsFiniteSet(S), NEW c, NEW d, NEW e, <<c, d>> \in Above(S), <<d, e>> \in Above(S)
    PROVE  <<c, e>> \in Above(S)
<1> DEFINE up == SubClasses(S)
<1> SUFFICES ASSUME NEW C, Up(up, c) \subseteq C, \A f \in up : f[1] \in C => f[2] \in C
             PROVE  e \in C
    BY AboveIs
<1>1. d \in C
    BY AboveIs
<1>2. Up(up, d) \subseteq C
    BY <1>1 DEF Up
<1> QED
    BY <1>2, AboveIs

LEMMA EntailedAreFinite ==
    ASSUME NEW S, IsFiniteSet(S)
    PROVE  IsFiniteSet(TypesEntailed(S))
<1> DEFINE I == {t[1] : t \in Typed(S)}
           N == {t[2] : t \in Typed(S)} \cup {e[2] : e \in SubClasses(S)}
           f == [x \in I \X N |-> Triple(x[1], RDF_TYPE, x[2])]
           g1 == [t \in Typed(S) |-> t[1]]
           g2 == [t \in Typed(S) |-> t[2]]
           g3 == [e \in SubClasses(S) |-> e[2]]
<1>1. IsFiniteSet(Typed(S)) /\ IsFiniteSet(SubClasses(S))
    BY EdgesAreFinite DEF Typed, SubClasses
<1>2. IsFiniteSet({g1[t] : t \in Typed(S)})
    BY <1>1, ImageIsFinite
<1>3. IsFiniteSet({g2[t] : t \in Typed(S)})
    BY <1>1, ImageIsFinite
<1>4. IsFiniteSet({g3[e] : e \in SubClasses(S)})
    BY <1>1, ImageIsFinite
<1>5. IsFiniteSet(I)
    BY <1>2
<1>6. IsFiniteSet(N)
  <2>1. IsFiniteSet({t[2] : t \in Typed(S)}) /\ IsFiniteSet({e[2] : e \in SubClasses(S)})
      BY <1>3, <1>4
  <2> QED
      BY <2>1, FS_Union
<1> HIDE DEF I, N
<1>7. IsFiniteSet(I \X N)
    BY <1>5, <1>6, FS_Product
<1>8. IsFiniteSet({f[x] : x \in I \X N})
  <2>1. DOMAIN f = I \X N
      OBVIOUS
  <2> HIDE DEF f
  <2> QED
      BY <1>7, <2>1, ImageIsFinite
<1>9. ASSUME NEW q \in TypesEntailed(S) PROVE q \in {f[x] : x \in I \X N}
  <2>1. PICK t \in Typed(S) : \E d : /\ q = Triple(t[1], RDF_TYPE, d)
                                     /\ d = t[2] \/ <<t[2], d>> \in Above(S)
      BY TypesEntailedAre
  <2>2. PICK d : q = Triple(t[1], RDF_TYPE, d) /\ (d = t[2] \/ <<t[2], d>> \in Above(S))
      BY <2>1
  <2> DEFINE C == {e[2] : e \in SubClasses(S)}
  <2>3. Up(SubClasses(S), t[2]) \subseteq C /\ \A e \in SubClasses(S) : e[2] \in C
      BY DEF Up
  <2> HIDE DEF C
  <2>4. <<t[2], d>> \in Above(S) => d \in C
      BY <2>3, AboveIs
  <2>5. t[1] \in I /\ d \in N
      BY <2>2, <2>4 DEF I, N, C
  <2>6. <<t[1], d>> \in I \X N /\ f[<<t[1], d>>] = q
      BY <2>2, <2>5
  <2> QED
      BY <2>6
<1>10. TypesEntailed(S) \subseteq {f[x] : x \in I \X N}
    BY <1>9
<1> HIDE DEF f
<1> QED
    BY <1>8, <1>10, FS_Subset

\* What is written adds types, and no subclass edge.
LEMMA ClosedOnce ==
    ASSUME NEW S, IsFiniteSet(S), S \subseteq Quads, NEW S2, S2 = S \cup TypesEntailed(S)
    PROVE  TypesEntailed(S2) \subseteq S2
<1>1. \A q \in TypesEntailed(S) : q.predicate = RDF_TYPE
  <2> SUFFICES ASSUME NEW q \in TypesEntailed(S) PROVE q.predicate = RDF_TYPE
      OBVIOUS
  <2>1. PICK t \in Typed(S) : \E d : /\ q = Triple(t[1], RDF_TYPE, d)
                                     /\ d = t[2] \/ <<t[2], d>> \in Above(S)
      BY TypesEntailedAre
  <2> QED
      BY <2>1 DEF Triple
<1>2. RDF_TYPE # SUB_CLASS_OF
    BY DEF RDF_TYPE, SUB_CLASS_OF
<1>3. edges(S2, SUB_CLASS_OF) = edges(S, SUB_CLASS_OF)
  <2>1. \A q : q \in S2 /\ q.predicate = SUB_CLASS_OF <=> q \in S /\ q.predicate = SUB_CLASS_OF
      BY <1>1, <1>2
  <2>2. With(S2, SUB_CLASS_OF) = With(S, SUB_CLASS_OF)
      BY <2>1 DEF With
  <2> QED
      BY <2>2 DEF edges
<1>4. \A c, d : <<c, d>> \in Above(S2) <=> <<c, d>> \in Above(S)
  <2>1. IsFiniteSet(S2)
      BY EntailedAreFinite, FS_Union
  <2>2. SubClasses(S2) = SubClasses(S)
      BY <1>3 DEF SubClasses
  <2> TAKE c, d
  <2> QED
      BY <2>1, <2>2, AboveIs, Zenon
<1> SUFFICES ASSUME NEW q \in TypesEntailed(S2) PROVE q \in TypesEntailed(S)
    OBVIOUS
<1>5. PICK t \in Typed(S2) : \E d : /\ q = Triple(t[1], RDF_TYPE, d)
                                    /\ d = t[2] \/ <<t[2], d>> \in Above(S2)
    BY TypesEntailedAre
<1>6. PICK d : q = Triple(t[1], RDF_TYPE, d) /\ (d = t[2] \/ <<t[2], d>> \in Above(S))
    BY <1>4, <1>5
<1>7. PICK p \in S2 : p.predicate = RDF_TYPE /\ BetweenNamed(p) /\ t = <<p.subject, p.object>>
    BY EdgeIs DEF Typed
<1>8. CASE p \in S
  <2>1. t \in Typed(S)
      BY <1>7, <1>8, EdgeIs DEF Typed
  <2> QED
      BY <1>6, <2>1, TypesEntailedAre
<1>9. CASE p \in TypesEntailed(S)
  <2>1. PICK u \in Typed(S) : \E c : /\ p = Triple(u[1], RDF_TYPE, c)
                                     /\ c = u[2] \/ <<u[2], c>> \in Above(S)
      BY <1>9, TypesEntailedAre
  <2>2. PICK c : p = Triple(u[1], RDF_TYPE, c) /\ (c = u[2] \/ <<u[2], c>> \in Above(S))
      BY <2>1
  <2>3. t[1] = u[1] /\ t[2] = c
      BY <1>7, <2>2 DEF Triple
  <2>4. d = u[2] \/ <<u[2], d>> \in Above(S)
    <3>1. CASE d = t[2]
        BY <2>2, <2>3, <3>1
    <3>2. CASE <<t[2], d>> \in Above(S) /\ c = u[2]
        BY <2>3, <3>2
    <3>3. CASE <<t[2], d>> \in Above(S) /\ <<u[2], c>> \in Above(S)
        BY <2>3, <3>3, AboveIsTransitive
    <3> QED
        BY <1>6, <2>2, <3>1, <3>2, <3>3
  <2>5. q = Triple(u[1], RDF_TYPE, d)
      BY <1>6, <2>3
  <2> QED
      BY <2>4, <2>5, TypesEntailedAre
<1> QED
    BY <1>7, <1>8, <1>9

\* The store, what is staged and what the call under way has seen are finite.
FiniteInv ==
    /\ IsFiniteSet(Committed) /\ IsFiniteSet(tx.inserted)
    /\ IsFiniteSet(held) /\ IsFiniteSet(seen)

\* All that ToySubsumption entails is in the store, unless it has still to be
\* told of a commit.
SubsumptionInv ==
    /\ reasoner = "ToySubsumption" => FiniteInv
    /\ TypesPresent

LEMMA ToyLoads ==
    ASSUME DocInv, FiniteInv, reasoner = "ToySubsumption",
           base' = Loaded(base, Derived(Committed)), UNCHANGED <<tx, held, seen>>
    PROVE  FiniteInv' /\ TypesEntailed(Committed') \subseteq Committed'
<1>1. IsFiniteSet(Committed) /\ Committed \subseteq Quads
    BY DEF FiniteInv, Committed
<1>2. Derived(Committed) = TypesEntailed(Committed)
    BY <1>1, TypesAreEntailed DEF Derived, SubClasses, Typed
<1>3. Committed' = Committed \cup TypesEntailed(Committed)
  <2>1. base' = Loaded(Unloaded(base, {}), TypesEntailed(Committed))
      BY <1>2, OneSided
  <2>2. Committed' = (Committed \ {}) \cup (TypesEntailed(Committed) \cap Quads)
      BY <2>1, LoadChanges
  <2> QED
      BY <1>1, <2>2, EntailedAreQuads
<1>4. IsFiniteSet(Committed')
    BY <1>1, <1>3, EntailedAreFinite, FS_Union
<1> QED
    BY <1>1, <1>3, <1>4, ClosedOnce DEF FiniteInv

LEMMA CommitKeepsSubsumption ==
    ASSUME DocInv, ProgramInv, SubsumptionInv, Commit, reasoner = "ToySubsumption"
    PROVE  SubsumptionInv'
<1>1. Committed' = (Committed \ tx.removed) \cup tx.inserted
    BY CommitChanges DEF Commit
<1>2. UNCHANGED <<reasoner, materialized>> /\ tx'.inserted = {} /\ Told
    BY DEF Commit, commit, NoTx, ProgramInv
<1>3. FiniteInv'
  <2>1. IsFiniteSet(Committed) /\ IsFiniteSet(tx.inserted) /\ IsFiniteSet(held) /\ IsFiniteSet(seen)
      BY DEF SubsumptionInv, FiniteInv
  <2>2. IsFiniteSet(Committed \ tx.removed)
      BY <2>1, FS_Subset
  <2>3. IsFiniteSet(Committed')
      BY <1>1, <2>1, <2>2, FS_Union
  <2>4. held' = held \cap Committed' /\ seen' = IF Idle THEN seen ELSE seen \cup Committed'
      BY DEF Commit, Committed
  <2>5. IsFiniteSet(held')
      BY <2>1, <2>4, FS_Subset
  <2>6. IsFiniteSet(seen')
      BY <2>1, <2>3, <2>4, FS_Union
  <2>7. IsFiniteSet(tx'.inserted)
      BY <1>2, FS_EmptySet
  <2> QED
      BY <2>3, <2>5, <2>6, <2>7 DEF FiniteInv
<1>4. ASSUME materialized, Told' PROVE TypesEntailed(Committed') \subseteq Committed'
  <2>1. tx.inserted = {} /\ tx.removed = {}
      BY <1>4 DEF Commit, Told
  <2>2. Committed' = Committed
      BY <1>1, <2>1
  <2> QED
      BY <1>2, <1>4, <2>2 DEF SubsumptionInv, TypesPresent
<1>5. TypesEntailed(Committed)' = TypesEntailed(Committed')
    OBVIOUS
<1> QED
    BY <1>2, <1>3, <1>4, <1>5 DEF SubsumptionInv, TypesPresent

LEMMA LoadsKeepSubsumption ==
    ASSUME DocInv, ProgramInv, SubsumptionInv, reasoner = "ToySubsumption",
           materialize \/ dematerialize \/ on_insert \/ on_remove
    PROVE  SubsumptionInv'
<1>1. FiniteInv /\ UNCHANGED <<reasoner, tx, held, seen>>
    BY DEF SubsumptionInv, materialize, dematerialize, on_insert, on_remove, Changes
<1>2. Apart = {}
    BY DEF Apart
<1>3. CASE dematerialize
  <2>1. base' = Loaded(Unloaded(base, {}), {}) /\ ~materialized'
      BY <1>2, <1>3, OneSided DEF dematerialize, Changes
  <2>2. Committed' = Committed
      BY <2>1, LoadChanges
  <2> QED
      BY <1>1, <2>1, <2>2 DEF SubsumptionInv, TypesPresent, FiniteInv
<1>4. CASE materialize \/ on_insert \/ on_remove
  <2>1. base' = Loaded(base, Derived(Committed))
    <3>1. CASE on_remove
      <4>1. Committed \ Apart = Committed
          BY <1>2
      <4>2. base' = Loaded(Unloaded(base, {}), Derived(Committed))
          BY <1>2, <3>1, <4>1 DEF on_remove, Changes
      <4> QED
          BY <4>2, OneSided
    <3> QED
        BY <1>4, <3>1 DEF materialize, on_insert, Changes
  <2>2. FiniteInv' /\ TypesEntailed(Committed') \subseteq Committed'
      BY <1>1, <2>1, ToyLoads
  <2>3. TypesEntailed(Committed)' = TypesEntailed(Committed')
      OBVIOUS
  <2> QED
      BY <2>2, <2>3 DEF SubsumptionInv, TypesPresent
<1> QED
    BY <1>3, <1>4

LEMMA QuietKeepsSubsumption ==
    ASSUME SubsumptionInv, UNCHANGED <<base, reasoner, materialized, pending>>,
           reasoner = "ToySubsumption" => FiniteInv'
    PROVE  SubsumptionInv'
<1>1. Committed' = Committed
    BY DEF Committed
<1>2. TypesEntailed(Committed)' = TypesEntailed(Committed)
    BY <1>1
<1> QED
    BY <1>1, <1>2 DEF SubsumptionInv, TypesPresent, Told

LEMMA SubsumptionStep ==
    ASSUME DocInv, ProgramInv, SubsumptionInv, [Next]_rvars
    PROVE  SubsumptionInv'
<1>1. CASE reasoner # "ToySubsumption"
    BY <1>1, StoreStep DEF ProgramInv, SubsumptionInv, TypesPresent
<1> SUFFICES ASSUME reasoner = "ToySubsumption" PROVE SubsumptionInv'
    BY <1>1
<1>2. FiniteInv
    BY DEF SubsumptionInv
<1>3. CASE Begin \/ Write \/ Rollback
  <2>1. UNCHANGED <<base, reasoner, materialized, pending, held, seen>>
      BY <1>3 DEF Begin, begin_write, Write, insert, remove, look, Returns, Rollback, rollback
  <2>2. IsFiniteSet(tx'.inserted)
    <3>1. CASE Begin \/ Rollback
      <4>1. tx'.inserted = {}
          BY <3>1 DEF Begin, begin_write, Rollback, rollback, NoTx
      <4> QED
          BY <4>1, FS_EmptySet
    <3>2. CASE Write
      <4>1. PICK q \in Data[reasoner] : insert(q) \/ remove(q) \/ look(q)
          BY <3>2 DEF Write
      <4>2. tx'.inserted \subseteq tx.inserted \cup {q}
          BY <4>1 DEF insert, remove, look, DocInv, DocShape
      <4>3. IsFiniteSet(tx.inserted \cup {q})
          BY <1>2, FS_AddElement DEF FiniteInv
      <4> QED
          BY <4>2, <4>3, FS_Subset
    <3> QED
        BY <1>3, <3>1, <3>2
  <2>3. Committed' = Committed
      BY <2>1 DEF Committed
  <2>4. FiniteInv'
      BY <1>2, <2>1, <2>2, <2>3 DEF FiniteInv
  <2> QED
      BY <2>1, <2>4, QuietKeepsSubsumption
<1>4. CASE load_program \/ Still \/ UNCHANGED rvars
  <2>1. UNCHANGED <<base, tx, reasoner, materialized, pending>>
      BY <1>4, StillIsStill DEF load_program, rvars
  <2>2. Committed' = Committed
      BY <2>1 DEF Committed
  <2>3. IsFiniteSet(held') /\ IsFiniteSet(seen')
    <3>1. CASE Asks
        BY <1>2, <3>1 DEF FiniteInv, Asks, entails_knows, entails_type, validate, realize, evaluate,
                          Asked
    <3>2. CASE Reads
      <4>1. UNCHANGED <<held, seen>> \/ (held' = {} /\ seen' = {})
          BY <3>2 DEF Reads, knows_itself, knows_converse, type_itself, read_sub_classes, read_types,
                      read_shapes, read_members, read_values, next_constraint, report,
                      evaluate_rule, returned, Answer, Goes
      <4> QED
          BY <1>2, <4>1, FS_EmptySet DEF FiniteInv
    <3>3. CASE load_program \/ UNCHANGED rvars
        BY <1>2, <3>3 DEF FiniteInv, load_program, rvars
    <3> QED
        BY <1>4, <3>1, <3>2, <3>3 DEF Still
  <2>4. FiniteInv'
      BY <1>2, <2>1, <2>2, <2>3 DEF FiniteInv
  <2> QED
      BY <2>1, <2>4, QuietKeepsSubsumption
<1>5. CASE Commit
    BY <1>5, CommitKeepsSubsumption
<1>6. CASE materialize \/ dematerialize \/ on_insert \/ on_remove
    BY <1>6, LoadsKeepSubsumption
<1> QED
    BY <1>3, <1>4, <1>5, <1>6 DEF Next, Still

LEMMA SubsumptionInvariance == Spec => []SubsumptionInv
<1>1. Init => SubsumptionInv
  <2> SUFFICES ASSUME Init PROVE SubsumptionInv
      OBVIOUS
  <2>1. Committed = {} /\ tx.inserted = {} /\ held = {} /\ seen = {} /\ ~materialized
      BY DEF Init, DocInit, NoTx, Committed
  <2> QED
      BY <2>1, FS_EmptySet DEF SubsumptionInv, TypesPresent, FiniteInv
<1>2. DocInv /\ ProgramInv /\ SubsumptionInv /\ [Next]_rvars => SubsumptionInv'
    BY SubsumptionStep
<1> QED
    BY <1>1, <1>2, ClosureInvariance, PTL DEF Spec

\* Both reasoners that materialize (reasoner.rs, SymmetricClosure and
\* ToySubsumption) have all that the asserted quads entail in the store, as long
\* as they are told of every commit: for SymmetricClosure the converses, for
\* ToySubsumption the types that a path of subclass edges leads to, which its
\* loop over a stack of classes finds however long and however cyclic.
THEOREM EntailmentsArePresent == Spec => []EntailmentsPresent
<1>1. SubsumptionInv /\ KnowsPresent => EntailmentsPresent
    BY DEF SubsumptionInv, EntailmentsPresent
<1> QED
    BY <1>1, SubsumptionInvariance, ClosureIsComplete, PTL

-----------------------------------------------------------------------------
(* ToySubsumption answers *)

\* An answer under way: the subclass edges that it has read were all there at
\* some time, and those there all through are among them.
TypesInv ==
    ~Idle /\ call.op \in {"entails", "realize"} =>
        /\ reasoner = "ToySubsumption"
        /\ ~call.done /\ call.op = "entails" /\ call.reads # 0 => call.arg \notin held
        /\ ~call.done /\ call.reads = 2 =>
              SubClasses(held) \subseteq call.sub /\ call.sub \subseteq SubClasses(seen)
        /\ call.done => TypesInBetween

LEMMA EdgesMore ==
    ASSUME NEW S, NEW S2, S \subseteq S2
    PROVE  SubClasses(S) \subseteq SubClasses(S2) /\ Typed(S) \subseteq Typed(S2)
BY EdgeIs DEF SubClasses, Typed

LEMMA TypesWait ==
    ASSUME TypesInv, Waits, UNCHANGED reasoner
    PROVE  TypesInv'
<1> SUFFICES ASSUME ~Idle, call.op \in {"entails", "realize"} PROVE TypesInv'
    BY DEF Waits, TypesInv, Idle
<1>1. call' = call /\ held' \subseteq held /\ seen \subseteq seen'
    BY DEF Waits
<1>2. CASE call.done
  <2>1. UNCHANGED <<call, held, seen>>
      BY <1>1, <1>2 DEF Waits
  <2>2. TypesInBetween' = TypesInBetween
      BY <2>1 DEF TypesInBetween, Returning, Idle
  <2> QED
      BY <1>2, <2>1, <2>2 DEF TypesInv
<1>3. CASE ~call.done
  <2>1. SubClasses(held') \subseteq SubClasses(held) /\ SubClasses(seen) \subseteq SubClasses(seen')
      BY <1>1, EdgesMore
  <2>2. SubClasses(held)' = SubClasses(held') /\ SubClasses(seen)' = SubClasses(seen')
      OBVIOUS
  <2> QED
      BY <1>1, <1>3, <2>1, <2>2 DEF TypesInv
<1> QED
    BY <1>2, <1>3

LEMMA TypeItselfStep ==
    ASSUME TypesInv, Steps, type_itself, UNCHANGED reasoner
    PROVE  TypesInv'
<1>1. /\ call.op = "entails" /\ call'.op = "entails" /\ call'.arg = call.arg /\ reasoner = "ToySubsumption"
      /\ held' = held /\ seen' = seen /\ held \subseteq Committed /\ Committed \subseteq seen
    BY DEF type_itself, Reading, Steps, TypesInv
<1>2. CASE call.arg \in Committed
  <2>1. call'.done /\ call'.found = {call.arg}
      BY <1>2 DEF type_itself, Answer, Goes, Steps, Fields
  <2>2. TypesInBetween'
    <3>1. (held' \cup TypesEntailed(held')) \cap {call'.arg} \subseteq call'.found
        BY <1>1, <2>1
    <3>2. call'.found \subseteq seen' \cup TypesEntailed(seen')
        BY <1>1, <1>2, <2>1
    <3> QED
        BY <1>1, <3>1, <3>2 DEF TypesInBetween
  <2> QED
      BY <1>1, <2>1, <2>2 DEF TypesInv
<1>3. CASE call.arg \notin Committed
  <2>1. ~call'.done /\ call'.reads = 1
      BY <1>3 DEF type_itself, Reading, Goes, Steps, Fields
  <2> QED
      BY <1>1, <1>3, <2>1 DEF TypesInv
<1> QED
    BY <1>2, <1>3

LEMMA SubClassesStep ==
    ASSUME TypesInv, Steps, read_sub_classes, UNCHANGED reasoner
    PROVE  TypesInv'
<1>1. /\ call.op \in {"entails", "realize"} /\ call'.op = call.op /\ call'.arg = call.arg
      /\ reasoner = "ToySubsumption"
      /\ held' = held /\ seen' = seen /\ held \subseteq Committed /\ Committed \subseteq seen
    BY DEF read_sub_classes, Reading, Steps, TypesInv
<1>2. call'.sub = SubClasses(Committed) /\ call'.reads = 2 /\ ~call'.done
    BY DEF read_sub_classes, Reading, Goes, Steps, Fields, SubClasses
<1>3. call.op = "entails" => call.arg \notin held
    BY DEF read_sub_classes, Reading, Steps, TypesInv
<1>4. SubClasses(held) \subseteq SubClasses(Committed) /\ SubClasses(Committed) \subseteq SubClasses(seen)
    BY <1>1, EdgesMore
<1>5. SubClasses(held)' = SubClasses(held) /\ SubClasses(seen)' = SubClasses(seen)
    BY <1>1
<1> QED
    BY <1>1, <1>2, <1>3, <1>4, <1>5 DEF TypesInv

LEMMA TypesStep ==
    ASSUME TypesInv, SubsumptionInv, Steps, read_types, UNCHANGED reasoner
    PROVE  TypesInv'
<1> DEFINE types == type_quads(call.sub, Typed(Committed))
<1>1. /\ call.op \in {"entails", "realize"} /\ call'.op = call.op /\ call'.arg = call.arg
      /\ reasoner = "ToySubsumption"
      /\ held' = held /\ seen' = seen /\ held \subseteq Committed /\ Committed \subseteq seen
    BY DEF read_types, Reading, Steps, TypesInv
<1>2. /\ call'.done
      /\ call.op = "realize" => call'.found = types
      /\ call.op = "entails" => call'.found = Holds(call.arg, types)
    BY <1>1 DEF read_types, Answer, Goes, Steps, Fields, Typed
<1>3. /\ SubClasses(held) \subseteq call.sub /\ call.sub \subseteq SubClasses(seen)
      /\ call.op = "entails" => call.arg \notin held
    BY <1>1 DEF read_types, Reading, Steps, TypesInv
<1>4. IsFiniteSet(held) /\ IsFiniteSet(Committed) /\ IsFiniteSet(seen)
    BY <1>1 DEF SubsumptionInv, FiniteInv
<1>5. \A S \in {held, Committed, seen} :
          /\ IsFiniteSet(SubClasses(S)) /\ Edges(SubClasses(S))
          /\ IsFiniteSet(Typed(S)) /\ Edges(Typed(S))
    BY <1>4, EdgesAreFinite DEF SubClasses, Typed
<1>6. IsFiniteSet(call.sub) /\ Edges(call.sub)
    BY <1>3, <1>5, FS_Subset DEF Edges
<1>7. Typed(held) \subseteq Typed(Committed) /\ Typed(Committed) \subseteq Typed(seen)
    BY <1>1, EdgesMore
<1>8. type_quads(SubClasses(held), Typed(held)) \subseteq types
    BY <1>3, <1>5, <1>6, <1>7, TypeQuadsMore
<1>9. types \subseteq type_quads(SubClasses(seen), Typed(seen))
    BY <1>3, <1>5, <1>7, TypeQuadsMore
<1>10. TypesEntailed(held) \subseteq types /\ types \subseteq TypesEntailed(seen)
    BY <1>4, <1>8, <1>9, TypesAreEntailed
<1> HIDE DEF types
<1>11. TypesInBetween'
  <2>1. ASSUME call.op = "realize"
        PROVE  TypesEntailed(held') \subseteq call'.found /\ call'.found \subseteq TypesEntailed(seen')
      BY <1>1, <1>2, <1>10, <2>1
  <2>2. ASSUME call.op = "entails"
        PROVE  /\ (held' \cup TypesEntailed(held')) \cap {call'.arg} \subseteq call'.found
               /\ call'.found \subseteq seen' \cup TypesEntailed(seen')
      BY <1>1, <1>2, <1>3, <1>10, <2>2 DEF Holds
  <2> QED
      BY <1>1, <2>1, <2>2 DEF TypesInBetween
<1> QED
    BY <1>1, <1>2, <1>11 DEF TypesInv

LEMMA AskingToy ==
    ASSUME Asks
    PROVE  call'.op \in {"entails", "realize"} =>
              reasoner' = "ToySubsumption" /\ call'.reads = 0 /\ ~call'.done
BY DEF Asks, entails_knows, entails_type, validate, realize, evaluate, Asked

LEMMA TypesNext ==
    ASSUME CallInv, reasoner \in DOMAIN Data, SubsumptionInv, TypesInv, [Next]_rvars
    PROVE  TypesInv'
<1>0. UNCHANGED reasoner
    BY StoreStep
<1>1. CASE Asks
    BY <1>1, AskingToy DEF TypesInv
<1>2. CASE Reads /\ returned
    BY <1>2 DEF returned, TypesInv, Idle
<1>3. CASE Reads /\ ~returned
  <2>1. Steps /\ ReadsOf
      BY <1>3, ReadingSteps
  <2>2. CASE call.op \in {"entails", "realize"}
      BY <1>0, <2>1, <2>2, TypeItselfStep, SubClassesStep, TypesStep DEF ReadsOf
  <2>3. CASE call.op \notin {"entails", "realize"}
      BY <2>1, <2>3 DEF Steps, TypesInv
  <2> QED
      BY <2>2, <2>3
<1>4. CASE ~Asks /\ ~Reads
    BY <1>0, <1>4, WaitingSteps, TypesWait
<1> QED
    BY <1>1, <1>2, <1>3, <1>4

\* entails and realize (reasoner.rs, SymmetricKnows and ToySubsumption) read the
\* store several times while others commit: ToySubsumption reads the subclass
\* edges in one transaction and the types in another.  The answer holds all that
\* follows from the quads committed all through, and nothing that does not
\* follow from those committed at some time during the call.
THEOREM AnswersAreInBetween == Spec => []EntailedInBetween
<1>1. Init => CallInv /\ TypesInv
    BY DEF Init, CallInv, TypesInv, Idle
<1>2. CallInv /\ reasoner \in DOMAIN Data /\ SubsumptionInv /\ TypesInv /\ [Next]_rvars
      => (CallInv /\ TypesInv)'
    BY CallStep, TypesNext
<1>3. TypesInv /\ KnowsInBetween => EntailedInBetween
  <2> SUFFICES ASSUME TypesInv PROVE TypesInBetween
      BY DEF EntailedInBetween
  <2>1. CASE Returning /\ call.op \in {"entails", "realize"}
      BY <2>1 DEF TypesInv, Returning
  <2>2. CASE ~(Returning /\ call.op \in {"entails", "realize"})
      BY <2>2 DEF TypesInBetween
  <2> QED
      BY <2>1, <2>2
<1> QED
    BY <1>1, <1>2, <1>3, ReasonerIsFixed, SubsumptionInvariance, KnowsIsInBetween, PTL DEF Spec

-----------------------------------------------------------------------------
(* MinCountOne *)

\* A focus node that a constraint is about, and that has no value.
Blames(focus, typed, valued, c, f) ==
    /\ c \in Constraints(Shapes)
    /\ focus \in {"all", f}
    /\ f \in members(typed, c.class)
    /\ objects(valued, f, c.path) = {}

LEMMA ConstraintIs ==
    ASSUME NEW c
    PROVE  c \in Constraints(Shapes) <=>
             \E s \in Shapes : /\ s.predicate = "sh:targetClass"
                               /\ \E p \in objects(Shapes, s.subject, "sh:path") \cap Named :
                                     c = [shape |-> s.subject, class |-> s.object, path |-> p]
BY DEF Constraints, With

LEMMA MemberIs ==
    ASSUME NEW S, NEW class, NEW f
    PROVE  f \in members(S, class) <=>
             \E q \in S : q.predicate = RDF_TYPE /\ q.object = class /\ q.subject = f
BY DEF members, With

LEMMA NoValueIs ==
    ASSUME NEW S, NEW s, NEW p
    PROVE  objects(S, s, p) = {} <=> ~ \E v \in S : v.subject = s /\ v.predicate = p
BY DEF objects, With

\* The reference definition, constraint by constraint: a shape may have several
\* target classes.
LEMMA MissingIsBlamed ==
    ASSUME NEW focus, NEW typed, NEW valued, NEW r
    PROVE  r \in Missing(focus, typed, valued) <=>
             \E c, f : Blames(focus, typed, valued, c, f) /\ r = Violation(c, f)
<1>1. ASSUME r \in Missing(focus, typed, valued)
      PROVE  \E c, f : Blames(focus, typed, valued, c, f) /\ r = Violation(c, f)
  <2>1. PICK b \in Constraints(Shapes), f \in {q.subject : q \in typed} : r = Violation(b, f)
      BY <1>1 DEF Missing
  <2>2. r.focus_node = f /\ r.result_path = b.path /\ r.source_shape = b.shape
      BY <2>1 DEF Violation
  <2>3. PICK s \in Shapes, t \in typed :
            /\ s.predicate = "sh:targetClass" /\ s.subject = b.shape
            /\ t.predicate = RDF_TYPE /\ t.subject = f /\ t.object = s.object
      BY <1>1, <2>2 DEF Missing
  <2>4. focus \in {"all", f} /\ ~ \E v \in valued : v.subject = f /\ v.predicate = b.path
      BY <1>1, <2>2 DEF Missing
  <2>5. b.path \in objects(Shapes, b.shape, "sh:path") \cap Named
      BY ConstraintIs
  <2> DEFINE c == [shape |-> s.subject, class |-> s.object, path |-> b.path]
  <2>6. c \in Constraints(Shapes)
      BY <2>3, <2>5, ConstraintIs
  <2>7. f \in members(typed, c.class)
      BY <2>3, MemberIs
  <2>8. objects(valued, f, c.path) = {}
      BY <2>4, NoValueIs
  <2>9. r = Violation(c, f)
      BY <2>1, <2>3 DEF Violation
  <2> QED
      BY <2>4, <2>6, <2>7, <2>8, <2>9 DEF Blames
<1>2. ASSUME NEW c, NEW f, Blames(focus, typed, valued, c, f), r = Violation(c, f)
      PROVE  r \in Missing(focus, typed, valued)
  <2>1. r.focus_node = f /\ r.result_path = c.path /\ r.source_shape = c.shape
      BY <1>2 DEF Violation
  <2>2. PICK t \in typed : t.predicate = RDF_TYPE /\ t.object = c.class /\ t.subject = f
      BY <1>2, MemberIs DEF Blames
  <2>3. PICK s \in Shapes : /\ s.predicate = "sh:targetClass" /\ s.subject = c.shape
                            /\ s.object = c.class
      BY <1>2, ConstraintIs DEF Blames
  <2>4. ~ \E v \in valued : v.subject = f /\ v.predicate = c.path
      BY <1>2, NoValueIs DEF Blames
  <2>5. r \in {Violation(d, g) : d \in Constraints(Shapes), g \in {q.subject : q \in typed}}
      BY <1>2, <2>2 DEF Blames
  <2> QED
      BY <1>2, <2>1, <2>2, <2>3, <2>4, <2>5 DEF Missing, Blames
<1> QED
    BY <1>1, <1>2

\* More types and fewer values blame more.
LEMMA BlamesMore ==
    ASSUME NEW focus, NEW T, NEW V, NEW c, NEW f, Blames(focus, T, V, c, f),
           NEW T2, NEW V2, T \subseteq T2, V2 \subseteq V
    PROVE  Blames(focus, T2, V2, c, f)
BY MemberIs, NoValueIs DEF Blames

\* The report under way: what is found is right, and what was an instance all
\* through and never had a value is found, or is still to be looked at.
ReportInv ==
    ~Idle /\ call.op = "validate" =>
        /\ call.reads \in {0, 1, 2}
        /\ \A r \in call.found : \E c, f : Blames(call.arg, seen, held, c, f) /\ r = Violation(c, f)
        /\ call.todo \subseteq Constraints(Shapes)
        /\ \A m \in call.at : /\ m = <<m[1], m[2]>> /\ m[1] \in Constraints(Shapes)
                              /\ call.arg \in {"all", m[2]} /\ m[2] \in members(seen, m[1].class)
        /\ call.reads # 2 => call.at = {}
        /\ call.reads # 0 \/ call.done =>
              \A c, f : Blames(call.arg, held, seen, c, f) =>
                  Violation(c, f) \in call.found \/ (~call.done /\ (<<c, f>> \in call.at \/ c \in call.todo))

LEMMA ReportWaits ==
    ASSUME ReportInv, Waits
    PROVE  ReportInv'
<1> SUFFICES ASSUME ~Idle, call.op = "validate" PROVE ReportInv'
    BY DEF Waits, ReportInv, Idle
<1>1. call' = call /\ held' \subseteq held /\ seen \subseteq seen'
    BY DEF Waits
<1>2. \A r \in call.found : \E c, f : Blames(call.arg, seen', held', c, f) /\ r = Violation(c, f)
    BY <1>1, BlamesMore DEF ReportInv
<1>3. \A m \in call.at : m[2] \in members(seen', m[1].class)
    BY <1>1, MemberIs DEF ReportInv
<1>4. \A c, f : Blames(call.arg, held', seen', c, f) => Blames(call.arg, held, seen, c, f)
    BY <1>1, BlamesMore
<1> QED
    BY <1>1, <1>2, <1>3, <1>4 DEF ReportInv

LEMMA ShapesStep ==
    ASSUME ReportInv, Steps, read_shapes
    PROVE  ReportInv'
<1>1. /\ call.op = "validate" /\ ~Idle /\ call'.todo = Constraints(Shapes) /\ call'.reads = 1
      /\ call'.at = call.at /\ call'.found = call.found /\ call'.arg = call.arg /\ ~call'.done
    BY DEF read_shapes, Reading, Goes, Steps, Fields
<1>2. call.at = {} /\ held' = held /\ seen' = seen
    BY <1>1 DEF read_shapes, Reading, ReportInv, Steps
<1>3. \A r \in call'.found : \E c, f : Blames(call'.arg, seen', held', c, f) /\ r = Violation(c, f)
    BY <1>1, <1>2 DEF ReportInv
<1>4. \A c, f : Blames(call'.arg, held', seen', c, f) => c \in call'.todo
    BY <1>1 DEF Blames
<1> QED
    BY <1>1, <1>2, <1>3, <1>4 DEF ReportInv

LEMMA MembersStep ==
    ASSUME ReportInv, Steps, read_members
    PROVE  ReportInv'
<1> DEFINE foci(c) == {m \in members(Committed, c.class) : call.arg \in {"all", m}}
<1>1. PICK c \in call.todo :
          Goes([call EXCEPT !.todo = @ \ {c}, !.reads = 2, !.at = {<<c, f>> : f \in foci(c)}])
    BY DEF read_members
<1>2. /\ call.op = "validate" /\ ~Idle /\ call.reads = 1 /\ ~call.done
      /\ held' = held /\ seen' = seen /\ held \subseteq Committed /\ Committed \subseteq seen
    BY DEF read_members, Reading, Steps
<1> HIDE DEF foci
<1>3. /\ call'.todo = call.todo \ {c} /\ call'.reads = 2 /\ call'.at = {<<c, f>> : f \in foci(c)}
      /\ call'.found = call.found /\ call'.arg = call.arg /\ call'.done = call.done
    BY <1>1 DEF Goes, Steps, Fields
<1>4. c \in Constraints(Shapes) /\ call.at = {}
    BY <1>2 DEF ReportInv
<1>5. \A f \in foci(c) : call.arg \in {"all", f} /\ f \in members(seen, c.class)
    BY <1>2, MemberIs DEF foci
<1>6. \A r \in call'.found : \E d, f : Blames(call'.arg, seen', held', d, f) /\ r = Violation(d, f)
    BY <1>2, <1>3 DEF ReportInv
<1>7. \A m \in call'.at : /\ m = <<m[1], m[2]>> /\ m[1] \in Constraints(Shapes)
                          /\ call'.arg \in {"all", m[2]} /\ m[2] \in members(seen', m[1].class)
    BY <1>2, <1>3, <1>4, <1>5
<1>8. ASSUME NEW d, NEW f, Blames(call.arg, held, seen, d, f),
             Violation(d, f) \notin call.found
      PROVE  <<d, f>> \in call'.at \/ d \in call'.todo
  <2>1. d \in call.todo
      BY <1>2, <1>4, <1>8 DEF ReportInv
  <2>2. CASE d = c
    <3>1. f \in foci(c)
        BY <1>2, <1>8, <2>2, MemberIs DEF Blames, foci
    <3> QED
        BY <1>3, <2>2, <3>1
  <2> QED
      BY <1>3, <2>1, <2>2
<1> QED
    BY <1>2, <1>3, <1>4, <1>6, <1>7, <1>8 DEF ReportInv

LEMMA ValuesStep ==
    ASSUME ReportInv, Steps, read_values
    PROVE  ReportInv'
<1> DEFINE new(m) == IF objects(Committed, m[2], m[1].path) = {} THEN {Violation(m[1], m[2])} ELSE {}
<1>1. PICK m \in call.at : Goes([call EXCEPT !.at = @ \ {m}, !.found = @ \cup new(m)])
    BY DEF read_values
<1>2. /\ call.op = "validate" /\ ~Idle /\ call.reads = 2 /\ ~call.done
      /\ held' = held /\ seen' = seen /\ held \subseteq Committed /\ Committed \subseteq seen
    BY DEF read_values, Reading, Steps
<1> HIDE DEF new
<1>3. /\ call'.at = call.at \ {m} /\ call'.found = call.found \cup new(m)
      /\ call'.todo = call.todo /\ call'.reads = 2 /\ call'.arg = call.arg /\ ~call'.done
    BY <1>1, <1>2 DEF Goes, Steps, Fields
<1>4. /\ m = <<m[1], m[2]>> /\ m[1] \in Constraints(Shapes)
      /\ call.arg \in {"all", m[2]} /\ m[2] \in members(seen, m[1].class)
    BY <1>2 DEF ReportInv
<1>5. ASSUME NEW r \in new(m) PROVE Blames(call.arg, seen, held, m[1], m[2]) /\ r = Violation(m[1], m[2])
  <2>1. objects(Committed, m[2], m[1].path) = {} /\ r = Violation(m[1], m[2])
      BY <1>5 DEF new
  <2>2. objects(held, m[2], m[1].path) = {}
      BY <1>2, <2>1, NoValueIs
  <2> QED
      BY <1>4, <2>1, <2>2 DEF Blames
<1>6. \A r \in call'.found : \E d, f : Blames(call'.arg, seen', held', d, f) /\ r = Violation(d, f)
    BY <1>2, <1>3, <1>5 DEF ReportInv
<1>7. ASSUME NEW d, NEW f, Blames(call.arg, held, seen, d, f), <<d, f>> = m
      PROVE  Violation(d, f) \in new(m)
  <2>1. d = m[1] /\ f = m[2]
      BY <1>7
  <2>2. objects(Committed, m[2], m[1].path) = {}
      BY <1>2, <1>7, <2>1, NoValueIs DEF Blames
  <2> QED
      BY <2>1, <2>2 DEF new
<1>8. ASSUME NEW d, NEW f, Blames(call.arg, held, seen, d, f)
      PROVE  Violation(d, f) \in call'.found \/ <<d, f>> \in call'.at \/ d \in call'.todo
  <2>1. Violation(d, f) \in call.found \/ <<d, f>> \in call.at \/ d \in call.todo
      BY <1>2, <1>8 DEF ReportInv
  <2> QED
      BY <1>3, <1>7, <1>8, <2>1
<1> QED
    BY <1>2, <1>3, <1>6, <1>8 DEF ReportInv

LEMMA ConstraintStep ==
    ASSUME ReportInv, Steps, next_constraint \/ report
    PROVE  ReportInv'
<1>1. /\ call.op = "validate" /\ ~Idle /\ ~call.done /\ held' = held /\ seen' = seen
      /\ call.reads # 0 /\ call.at = {} /\ (report => call.todo = {})
    BY DEF next_constraint, report, Reading, Steps, ReportInv
<1>2. /\ call'.reads = 1 /\ call'.found = call.found /\ call'.at = {} /\ call'.todo = call.todo
      /\ call'.arg = call.arg /\ (call'.done => report)
    BY <1>1 DEF next_constraint, report, Reading, Answer, Goes, Steps, Fields
<1>3. \A r \in call'.found : \E d, f : Blames(call'.arg, seen', held', d, f) /\ r = Violation(d, f)
    BY <1>1, <1>2 DEF ReportInv
<1>4. \A c, f : Blames(call.arg, held, seen, c, f) => Violation(c, f) \in call.found \/ c \in call.todo
    BY <1>1 DEF ReportInv
<1>5. \A c, f : Blames(call'.arg, held', seen', c, f) =>
          Violation(c, f) \in call'.found \/ (~call'.done /\ c \in call'.todo)
    BY <1>1, <1>2, <1>4
<1> QED
    BY <1>1, <1>2, <1>3, <1>5 DEF ReportInv

LEMMA ReportStep ==
    ASSUME CallInv, ReportInv, [Next]_rvars
    PROVE  ReportInv'
<1>1. CASE Asks
    BY <1>1, AskingSteps DEF Begun, ReportInv
<1>2. CASE Reads /\ returned
    BY <1>2 DEF returned, ReportInv, Idle
<1>3. CASE Reads /\ ~returned
  <2>1. Steps /\ ReadsOf
      BY <1>3, ReadingSteps
  <2>2. CASE call.op = "validate"
      BY <2>1, <2>2, ShapesStep, MembersStep, ValuesStep, ConstraintStep DEF ReadsOf
  <2>3. CASE call.op # "validate"
      BY <2>1, <2>3 DEF Steps, ReportInv
  <2> QED
      BY <2>2, <2>3
<1>4. CASE ~Asks /\ ~Reads
    BY <1>4, WaitingSteps, ReportWaits
<1> QED
    BY <1>1, <1>2, <1>3, <1>4

\* MinCountOne::check (shacl.rs) reads the members of each target class and the
\* values of each member while others commit: its report misses no node that
\* was an instance all through and never had a value, and blames none that
\* never was an instance or had a value all through.
THEOREM ReportIsInBetween == Spec => []ReportInBetween
<1>1. Init => CallInv /\ ReportInv
    BY DEF Init, CallInv, ReportInv, Idle
<1>2. CallInv /\ ReportInv /\ [Next]_rvars => (CallInv /\ ReportInv)'
    BY CallStep, ReportStep
<1>3. ASSUME ReportInv PROVE ReportInBetween
  <2> SUFFICES ASSUME ~Idle, call.done, call.op = "validate"
               PROVE  /\ Missing(call.arg, held, seen) \subseteq call.found
                      /\ call.found \subseteq Missing(call.arg, seen, held)
      BY DEF ReportInBetween, Returning, from_results
  <2>1. Missing(call.arg, held, seen) \subseteq call.found
      BY <1>3, MissingIsBlamed DEF ReportInv
  <2>2. call.found \subseteq Missing(call.arg, seen, held)
      BY <1>3, MissingIsBlamed DEF ReportInv
  <2> QED
      BY <2>1, <2>2
<1> QED
    BY <1>1, <1>2, <1>3, PTL DEF Spec

-----------------------------------------------------------------------------
(* OneStep *)

Row(q) == <<q.subject, q.object>>
Body(r) == r.body[1].atom
Variables(atom) == {t \in ToSet(atom.terms) : t.kind = "var"}
Subst(s, atom) == [i \in DOMAIN atom.terms |-> IF atom.terms[i].kind = "var" THEN s[atom.terms[i]]
                                               ELSE atom.terms[i].name]
TermsOf(S) == {q.subject : q \in S} \cup {q.object : q \in S}

\* A rule that load_program accepts.
Accepted(r) == IsAtom(r.head) /\ IsAtom(Body(r)) /\ Len(Body(r).terms) = 2

\* No variable stands twice in the body.
Distinct(r) ==
    \A i, j \in DOMAIN Body(r).terms :
        Body(r).terms[i].kind = "var" /\ Body(r).terms[i] = Body(r).terms[j] => i = j

LEMMA FactIs ==
    ASSUME NEW r, NEW S, NEW x
    PROVE  x \in facts(r, S) <=>
             \E q \in S : /\ q.predicate = Body(r).predicate
                          /\ consts_match(Body(r).terms, Row(q)) /\ head_bound(r, Row(q))
                          /\ x = <<r.head.predicate, head_args(r, Row(q))>>
BY DEF facts, With, Body, Row

LEMMA FactsMore ==
    ASSUME NEW r, NEW S, NEW T, S \subseteq T
    PROVE  facts(r, S) \subseteq facts(r, T)
BY FactIs

LEMMA ConclusionIs ==
    ASSUME NEW r, NEW S, NEW x
    PROVE  x \in Conclusions(r, S) <=>
             /\ Variables(r.head) \subseteq Variables(Body(r))
             /\ \E s \in [Variables(Body(r)) -> TermsOf(S)] :
                   /\ \E q \in S : q.predicate = Body(r).predicate /\ Row(q) = Subst(s, Body(r))
                   /\ x = <<r.head.predicate, Subst(s, r.head)>>
BY DEF Conclusions, Variables, Subst, TermsOf, Row, Body

LEMMA AtomTerms ==
    ASSUME NEW a, IsAtom(a)
    PROVE  /\ Len(a.terms) \in Nat /\ DOMAIN a.terms = 1 .. Len(a.terms)
           /\ \A i \in DOMAIN a.terms : a.terms[i].kind \in {"var", "const"}
           /\ \A t : t \in Variables(a) <=> \E i \in DOMAIN a.terms : t = a.terms[i] /\ t.kind = "var"
<1>1. a.terms \in Seq({t \in ToSet(a.terms) : t.kind \in {"var", "const"}})
    BY DEF IsAtom
<1>2. \A t : t \in ToSet(a.terms) <=> \E i \in DOMAIN a.terms : t = a.terms[i]
    BY DEF ToSet
<1>3. Len(a.terms) \in Nat /\ DOMAIN a.terms = 1 .. Len(a.terms)
    BY <1>1
<1>4. \A i \in DOMAIN a.terms : a.terms[i].kind \in {"var", "const"}
    BY <1>1
<1> QED
    BY <1>2, <1>3, <1>4 DEF Variables

\* Where a variable stands first.
First(t, terms) == Min({i \in DOMAIN terms : terms[i] = t})

LEMMA FirstIsThere ==
    ASSUME NEW terms, DOMAIN terms = 1 .. 2, NEW i \in 1 .. 2
    PROVE  /\ First(terms[i], terms) \in 1 .. 2
           /\ terms[First(terms[i], terms)] = terms[i]
<1> DEFINE at == {j \in DOMAIN terms : terms[j] = terms[i]}
<1>1. i \in at /\ at \subseteq 1 .. 2
    OBVIOUS
<1>2. \E j \in at : \A k \in at : j <= k
  <2>1. CASE 1 \in at
      BY <1>1, <2>1
  <2>2. CASE 1 \notin at
      BY <1>1, <2>2
  <2> QED
      BY <2>1, <2>2
<1> HIDE DEF at
<1>3. Min(at) \in at
    BY <1>2 DEF Min
<1>4. First(terms[i], terms) = Min(at)
    BY DEF First, at
<1> QED
    BY <1>1, <1>3, <1>4 DEF at

\* What a term of the head stands for.
LEMMA LookupIs ==
    ASSUME NEW t, NEW terms, NEW row
    PROVE  /\ t.kind = "const" => lookup(t, terms, row) = {t.name}
           /\ t.kind # "const" /\ (\E i \in DOMAIN terms : terms[i] = t) =>
                lookup(t, terms, row) = {row[First(t, terms)]}
           /\ t.kind # "const" /\ ~(\E i \in DOMAIN terms : terms[i] = t) => lookup(t, terms, row) = {}
BY DEF lookup, First

LEMMA ValueIs ==
    ASSUME NEW t, NEW terms, NEW row, NEW v, lookup(t, terms, row) = {v}
    PROVE  value(t, terms, row) = v
BY DEF value

\* A rule adds all that follows from it.
LEMMA RuleIsComplete ==
    ASSUME NEW r, Accepted(r), NEW S
    PROVE  Conclusions(r, S) \subseteq facts(r, S)
<1> SUFFICES ASSUME NEW x \in Conclusions(r, S) PROVE x \in facts(r, S)
    OBVIOUS
<1> DEFINE terms == Body(r).terms
           head == r.head.terms
<1>1. Variables(r.head) \subseteq Variables(Body(r))
    BY ConclusionIs
<1>2. PICK s \in [Variables(Body(r)) -> TermsOf(S)] :
          /\ \E q \in S : q.predicate = Body(r).predicate /\ Row(q) = Subst(s, Body(r))
          /\ x = <<r.head.predicate, Subst(s, r.head)>>
    BY ConclusionIs
<1>3. PICK q \in S : q.predicate = Body(r).predicate /\ Row(q) = Subst(s, Body(r))
    BY <1>2
<1>4. DOMAIN terms = 1 .. 2 /\ \A i \in DOMAIN terms : terms[i].kind \in {"var", "const"}
    BY AtomTerms DEF Accepted
<1>5. \A i \in DOMAIN terms : Row(q)[i] = IF terms[i].kind = "var" THEN s[terms[i]] ELSE terms[i].name
    BY <1>3 DEF Subst
<1>6. consts_match(terms, Row(q))
    BY <1>5 DEF consts_match
<1>7. ASSUME NEW i \in DOMAIN head
      PROVE  lookup(head[i], terms, Row(q)) = {Subst(s, r.head)[i]}
  <2>1. head[i].kind \in {"var", "const"}
      BY AtomTerms DEF Accepted
  <2>2. Subst(s, r.head)[i] = IF head[i].kind = "var" THEN s[head[i]] ELSE head[i].name
      BY DEF Subst
  <2>3. CASE head[i].kind = "const"
      BY <2>2, <2>3, LookupIs
  <2>4. CASE head[i].kind = "var"
    <3>1. head[i] \in Variables(Body(r))
        BY <1>1, <2>4, AtomTerms DEF Accepted
    <3>2. PICK j \in DOMAIN terms : terms[j] = head[i]
        BY <3>1, AtomTerms DEF Accepted
    <3>3. /\ First(head[i], terms) \in DOMAIN terms
          /\ terms[First(head[i], terms)] = head[i]
      <4>1. /\ First(terms[j], terms) \in 1 .. 2
            /\ terms[First(terms[j], terms)] = terms[j]
          BY <1>4, <3>2, FirstIsThere, Zenon
      <4> QED
          BY <1>4, <3>2, <4>1
    <3>4. Row(q)[First(head[i], terms)] = s[head[i]]
        BY <1>5, <2>4, <3>3
    <3>5. lookup(head[i], terms, Row(q)) = {Row(q)[First(head[i], terms)]}
        BY <2>4, <3>2, LookupIs
    <3> QED
        BY <2>2, <2>4, <3>4, <3>5
  <2> QED
      BY <2>1, <2>3, <2>4
<1>8. head_bound(r, Row(q))
    BY <1>7 DEF head_bound, Body
<1>9. head_args(r, Row(q)) = Subst(s, r.head)
  <2>1. \A i \in DOMAIN head : value(head[i], terms, Row(q)) = Subst(s, r.head)[i]
    <3> TAKE i \in DOMAIN head
    <3>1. lookup(head[i], terms, Row(q)) = {Subst(s, r.head)[i]}
        BY <1>7
    <3> QED
        BY <3>1, ValueIs, Zenon
  <2>2. head_args(r, Row(q)) = [i \in DOMAIN head |-> value(head[i], terms, Row(q))]
      BY DEF head_args, Body
  <2>3. Subst(s, r.head) = [i \in DOMAIN head |-> Subst(s, r.head)[i]]
      BY DEF Subst
  <2> QED
      BY <2>1, <2>2, <2>3
<1> QED
    BY <1>2, <1>3, <1>6, <1>8, <1>9, FactIs

\* It adds nothing else, unless a variable stands twice in its body.
LEMMA RuleIsSound ==
    ASSUME NEW r, Accepted(r), Distinct(r), NEW S
    PROVE  facts(r, S) \subseteq Conclusions(r, S)
<1> SUFFICES ASSUME NEW x \in facts(r, S) PROVE x \in Conclusions(r, S)
    OBVIOUS
<1> DEFINE terms == Body(r).terms
           head == r.head.terms
<1>1. PICK q \in S : /\ q.predicate = Body(r).predicate
                     /\ consts_match(terms, Row(q)) /\ head_bound(r, Row(q))
                     /\ x = <<r.head.predicate, head_args(r, Row(q))>>
    BY FactIs
<1> DEFINE row == Row(q)
           s == [t \in Variables(Body(r)) |-> row[First(t, terms)]]
<1>2. DOMAIN terms = 1 .. 2 /\ \A i \in DOMAIN terms : terms[i].kind \in {"var", "const"}
    BY AtomTerms DEF Accepted
<1>3. \A i \in 1 .. 2 : row[i] \in TermsOf(S)
    BY DEF Row, TermsOf
<1>4. \A t \in Variables(Body(r)) : First(t, terms) \in 1 .. 2
    BY <1>2, AtomTerms, FirstIsThere DEF Accepted
<1>5. s \in [Variables(Body(r)) -> TermsOf(S)]
    BY <1>3, <1>4
<1>6. row = Subst(s, Body(r))
  <2>1. ASSUME NEW i \in 1 .. 2 PROVE row[i] = Subst(s, Body(r))[i]
    <3>1. Subst(s, Body(r))[i] = IF terms[i].kind = "var" THEN s[terms[i]] ELSE terms[i].name
        BY <1>2 DEF Subst
    <3>2. CASE terms[i].kind = "var"
      <4>1. First(terms[i], terms) = i
          BY <1>2, <3>2, FirstIsThere DEF Distinct
      <4>2. terms[i] \in Variables(Body(r))
          BY <1>2, <3>2, AtomTerms DEF Accepted
      <4> QED
          BY <3>1, <3>2, <4>1, <4>2
    <3>3. CASE terms[i].kind = "const"
        BY <1>1, <1>2, <3>1, <3>3 DEF consts_match
    <3> QED
        BY <1>2, <3>2, <3>3
  <2>2. row = [i \in 1 .. 2 |-> row[i]]
      BY DEF Row
  <2>3. Subst(s, Body(r)) = [i \in 1 .. 2 |-> Subst(s, Body(r))[i]]
      BY <1>2 DEF Subst
  <2> QED
      BY <2>1, <2>2, <2>3
<1>7. ASSUME NEW i \in DOMAIN head
      PROVE  /\ head[i].kind = "var" => head[i] \in Variables(Body(r))
             /\ value(head[i], terms, row) = Subst(s, r.head)[i]
  <2>1. head[i].kind \in {"var", "const"}
      BY AtomTerms DEF Accepted
  <2>2. Subst(s, r.head)[i] = IF head[i].kind = "var" THEN s[head[i]] ELSE head[i].name
      BY DEF Subst
  <2>3. CASE head[i].kind = "const"
    <3>1. lookup(head[i], terms, row) = {head[i].name}
        BY <2>3, LookupIs
    <3>2. value(head[i], terms, row) = head[i].name
        BY <3>1, ValueIs, Zenon
    <3> QED
        BY <2>2, <2>3, <3>2
  <2>4. CASE head[i].kind = "var"
    <3>1. lookup(head[i], terms, row) # {}
        BY <1>1 DEF head_bound, Body
    <3>2. PICK j \in DOMAIN terms : terms[j] = head[i]
        BY <2>4, <3>1, LookupIs
    <3>3. head[i] \in Variables(Body(r))
        BY <2>4, <3>2, AtomTerms DEF Accepted
    <3>4. lookup(head[i], terms, row) = {row[First(head[i], terms)]}
        BY <2>4, <3>2, LookupIs
    <3>5. value(head[i], terms, row) = row[First(head[i], terms)]
        BY <3>4, ValueIs, Zenon
    <3> QED
        BY <2>2, <2>4, <3>3, <3>5
  <2> QED
      BY <2>1, <2>3, <2>4
<1>8. Variables(r.head) \subseteq Variables(Body(r))
  <2>1. \A t \in Variables(r.head) : \E i \in DOMAIN head : t = head[i] /\ t.kind = "var"
      BY AtomTerms DEF Accepted
  <2> QED
      BY <1>7, <2>1
<1>9. head_args(r, row) = Subst(s, r.head)
  <2>1. head_args(r, row) = [i \in DOMAIN head |-> value(head[i], terms, row)]
      BY DEF head_args, Body
  <2>2. Subst(s, r.head) = [i \in DOMAIN head |-> Subst(s, r.head)[i]]
      BY DEF Subst
  <2> QED
      BY <1>7, <2>1, <2>2
<1> HIDE DEF s
<1> QED
    BY <1>1, <1>5, <1>6, <1>8, <1>9, ConclusionIs

LoadedProgram ==
    /\ program \in Seq(ToSet(program))
    /\ \A i \in DOMAIN program : Accepted(program[i])
    /\ program # <<>> => program \in Programs

LEMMA SupportedIsLoaded ==
    ASSUME NEW p \in Programs, supported(p)
    PROVE  p \in Seq(ToSet(p)) /\ \A i \in DOMAIN p : Accepted(p[i])
<1>1. p \in Seq(ToSet(p))
    BY ProgramsAssumption
<1>2. ASSUME NEW i \in DOMAIN p PROVE Accepted(p[i])
  <2>1. p[i] \in ToSet(p)
      BY DEF ToSet
  <2>2. /\ IsAtom(p[i].head) /\ p[i].body \in Seq(ToSet(p[i].body))
        /\ \A l \in ToSet(p[i].body) : IsAtom(l.atom)
      BY <2>1, ProgramsAssumption
  <2>3. Len(p[i].body) = 1 /\ Len(p[i].body[1].atom.terms) = 2
      BY DEF supported
  <2>4. 1 \in DOMAIN p[i].body
      BY <2>2, <2>3
  <2>5. p[i].body[1] \in ToSet(p[i].body)
      BY <2>4 DEF ToSet
  <2> QED
      BY <2>2, <2>3, <2>5 DEF Accepted, Body
<1> QED
    BY <1>1, <1>2

LEMMA ProgramIsLoaded ==
    ASSUME LoadedProgram, [Next]_rvars
    PROVE  LoadedProgram'
<1>1. CASE load_program
  <2>1. PICK p \in Programs : program' = IF supported(p) THEN p ELSE program
      BY <1>1 DEF load_program
  <2>2. CASE supported(p)
      BY <2>1, <2>2, SupportedIsLoaded DEF LoadedProgram
  <2>3. CASE ~supported(p)
      BY <2>1, <2>3 DEF LoadedProgram
  <2> QED
      BY <2>2, <2>3
<1>2. CASE ~load_program
  <2>1. program' = program
    <3>1. CASE Begin \/ Write \/ Commit \/ Rollback
        BY <3>1 DEF Begin, Write, Commit, Rollback
    <3>2. CASE materialize \/ dematerialize \/ on_insert \/ on_remove
        BY <3>2 DEF materialize, dematerialize, on_insert, on_remove, Changes
    <3>3. CASE Still \/ UNCHANGED rvars
        BY <3>3, StillIsStill DEF rvars
    <3> QED
        BY <1>2, <3>1, <3>2, <3>3 DEF Next, Still
  <2> QED
      BY <2>1 DEF LoadedProgram
<1> QED
    BY <1>1, <1>2

\* The evaluation under way: the rules that have been applied have added what
\* they add to the facts there all through, and nothing they do not add to
\* those there at some time.
FactsInv ==
    ~Idle /\ call.op = "evaluate" =>
        /\ call.reads \in 0 .. Len(program)
        /\ call.done => call.reads = Len(program)
        /\ \A i \in 1 .. call.reads : facts(program[i], held) \subseteq call.found
        /\ \A x \in call.found : \E i \in 1 .. Len(program) : x \in facts(program[i], seen)

LEMMA EvaluateStep ==
    ASSUME LoadedProgram, FactsInv, Steps, evaluate_rule
    PROVE  FactsInv'
<1>1. /\ call.op = "evaluate" /\ ~Idle /\ ~call.done /\ call'.op = call.op
      /\ program' = program /\ held' = held /\ seen' = seen
      /\ held \subseteq Committed /\ Committed \subseteq seen
    BY DEF evaluate_rule, Steps
<1>2. Len(program) \in Nat /\ call.reads \in 0 .. Len(program)
    BY <1>1 DEF LoadedProgram, FactsInv
<1>3. CASE call.reads = Len(program)
  <2>1. call'.found = call.found /\ call'.reads = call.reads
      BY <1>3 DEF evaluate_rule, Answer, Goes, Steps, Fields
  <2> QED
      BY <1>1, <1>2, <1>3, <2>1 DEF FactsInv
<1>4. CASE call.reads # Len(program)
  <2> DEFINE n == call.reads + 1
  <2>1. /\ call'.found = call.found \cup facts(program[n], Committed) /\ call'.reads = n
        /\ ~call'.done
      BY <1>1, <1>4 DEF evaluate_rule, Goes, Steps, Fields
  <2>2. n \in 1 .. Len(program) /\ \A i \in 1 .. n : i \in 1 .. call.reads \/ i = n
      BY <1>2, <1>4
  <2>3. n \in 0 .. Len(program)
      BY <1>2, <1>4
  <2> HIDE DEF n
  <2>4. /\ facts(program[n], held) \subseteq facts(program[n], Committed)
        /\ facts(program[n], Committed) \subseteq facts(program[n], seen)
      BY <1>1, FactsMore
  <2>5. \A i \in 1 .. n : facts(program[i], held) \subseteq call'.found
      BY <1>1, <2>1, <2>2, <2>4 DEF FactsInv
  <2>6. \A x \in call'.found : \E i \in 1 .. Len(program) : x \in facts(program[i], seen)
      BY <1>1, <2>1, <2>2, <2>4 DEF FactsInv
  <2> QED
      BY <1>1, <2>1, <2>3, <2>5, <2>6 DEF FactsInv
<1> QED
    BY <1>3, <1>4

LEMMA FactsWait ==
    ASSUME FactsInv, Waits
    PROVE  FactsInv'
<1> SUFFICES ASSUME ~Idle, call.op = "evaluate" PROVE FactsInv'
    BY DEF Waits, FactsInv, Idle
<1>1. call' = call /\ held' \subseteq held /\ seen \subseteq seen' /\ program' = program
    BY DEF Waits
<1>2. \A i : /\ facts(program[i], held') \subseteq facts(program[i], held)
             /\ facts(program[i], seen) \subseteq facts(program[i], seen')
    BY <1>1, FactsMore
<1> QED
    BY <1>1, <1>2 DEF FactsInv

LEMMA FactsStep ==
    ASSUME CallInv, LoadedProgram, FactsInv, [Next]_rvars
    PROVE  FactsInv'
<1>1. CASE Asks
  <2>1. Len(program') \in Nat
      BY ProgramIsLoaded DEF LoadedProgram
  <2>2. call'.op = "evaluate" => call'.reads = 0 /\ call'.found = {} /\ ~call'.done
      BY <1>1, AskingSteps DEF Begun
  <2> QED
      BY <2>1, <2>2 DEF FactsInv
<1>2. CASE Reads /\ returned
    BY <1>2 DEF returned, FactsInv, Idle
<1>3. CASE Reads /\ ~returned
  <2>1. Steps /\ ReadsOf
      BY <1>3, ReadingSteps
  <2>2. CASE call.op = "evaluate"
      BY <2>1, <2>2, EvaluateStep DEF ReadsOf
  <2>3. CASE call.op # "evaluate"
      BY <2>1, <2>3 DEF Steps, FactsInv
  <2> QED
      BY <2>2, <2>3
<1>4. CASE ~Asks /\ ~Reads
    BY <1>4, WaitingSteps, FactsWait
<1> QED
    BY <1>1, <1>2, <1>3, <1>4

LEMMA FactsInvariance == Spec => [](CallInv /\ LoadedProgram /\ FactsInv)
<1>1. Init => CallInv /\ LoadedProgram /\ FactsInv
  <2> SUFFICES ASSUME Init PROVE CallInv /\ LoadedProgram /\ FactsInv
      OBVIOUS
  <2>1. Idle /\ program = <<>>
      BY DEF Init, Idle
  <2>2. <<>> \in Seq(ToSet(<<>>)) /\ DOMAIN <<>> = {}
      OBVIOUS
  <2> QED
      BY <2>1, <2>2 DEF CallInv, LoadedProgram, FactsInv
<1>2. CallInv /\ LoadedProgram /\ FactsInv /\ [Next]_rvars => (CallInv /\ LoadedProgram /\ FactsInv)'
    BY CallStep, ProgramIsLoaded, FactsStep
<1> QED
    BY <1>1, <1>2, PTL DEF Spec

FactsComplete == Returning /\ call.op = "evaluate" => Consequences(held) \subseteq call.found

\* OneStep::evaluate (datalog.rs) scans the store once for each rule while
\* others commit: its result misses nothing that follows from the facts there
\* all through, whatever the rules.
THEOREM FactsAreComplete == Spec => []FactsComplete
<1>1. ASSUME LoadedProgram, FactsInv PROVE FactsComplete
  <2> SUFFICES ASSUME ~Idle, call.done, call.op = "evaluate", NEW i \in DOMAIN program
               PROVE  Conclusions(program[i], held) \subseteq call.found
      BY DEF FactsComplete, Consequences, Returning
  <2>1. Accepted(program[i]) /\ i \in 1 .. call.reads
      BY <1>1 DEF LoadedProgram, FactsInv
  <2> QED
      BY <1>1, <2>1, RuleIsComplete DEF FactsInv
<1> QED
    BY <1>1, FactsInvariance, PTL

\* When no variable stands twice in the body of a rule (evaluate does not
\* compare the two values then), it also holds nothing that does not follow from
\* facts there at some time.
THEOREM FactsAreInBetween ==
    ASSUME \A p \in Programs : \A i \in DOMAIN p : Distinct(p[i])
    PROVE  Spec => []FactsInBetween
<1>1. ASSUME LoadedProgram, FactsInv, FactsComplete PROVE FactsInBetween
  <2> SUFFICES ASSUME ~Idle, call.done, call.op = "evaluate", NEW x \in call.found
               PROVE  x \in Consequences(seen)
      BY <1>1 DEF FactsInBetween, FactsComplete, Returning
  <2>1. PICK i \in 1 .. Len(program) : x \in facts(program[i], seen)
      BY <1>1 DEF FactsInv
  <2>2. i \in DOMAIN program /\ Accepted(program[i])
      BY <1>1 DEF LoadedProgram
  <2>3. Distinct(program[i])
      BY <1>1, <2>2 DEF LoadedProgram
  <2> QED
      BY <2>1, <2>2, <2>3, RuleIsSound DEF Consequences
<1> QED
    BY <1>1, FactsInvariance, FactsAreComplete, PTL
=============================================================================
