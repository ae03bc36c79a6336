---------------------------- MODULE OxStoreProofs ----------------------------
(***************************************************************************)
(* Proofs about OxStore, for any terms, quads, transactions and bounds.    *)
(***************************************************************************)
EXTENDS OxStore, TermConvertProofs, CommonProofs

Txn == [mode : Modes, base : SUBSET Encoded, puts : SUBSET Encoded, dels : SUBSET Encoded]

Outcomes == {"open", "committed", "aborted", "outside"}

-----------------------------------------------------------------------------
(* The shape of the state *)

LEMMA NoTxIsTxn == NoTx \in Txn
BY DEF NoTx, Txn, Modes

LEMMA Monotone ==
    ASSUME NEW S, NEW T \in SUBSET S
    PROVE  GraphsIn(T) \subseteq GraphsIn(S) /\ Contents(T) \subseteq Contents(S)
BY DEF GraphsIn, Contents, Yielded

LEMMA HeldKeys ==
    ASSUME NEW q \in Quads, quad_to_ox(q) # Refused
    PROVE  q \in Storable /\ Key(q) \in Encoded
BY DEF Storable, Encoded

LEMMA InitType == Init => TypeOK
<1> SUFFICES ASSUME Init PROVE TypeOK
    OBVIOUS
<1>1. tx \in [Txs -> Txn]
    BY NoTxIsTxn DEF Init
<1>2. log \in [Txs -> Seq(Calls(Quads))]
    BY DEF Init
<1> QED
    BY <1>1, <1>2 DEF Init, TypeOK, Txn, Kinds, Outcomes

LEMMA StartType ==
    ASSUME TypeOK, NEW t \in Txs, NEW mode \in Modes, Start(t, mode)
    PROVE  /\ tx' \in [Txs -> Txn]
           /\ start' \in [Txs -> SUBSET Contents(Encoded)]
           /\ log' \in [Txs -> Seq(Calls(Quads))]
<1> DEFINE base == IF mode = "Latest" THEN {} ELSE quads
<1>1. [NoTx EXCEPT !.mode = mode, !.base = base] \in Txn
    BY DEF TypeOK, NoTx, Txn
<1>2. /\ tx \in [Txs -> Txn] /\ start \in [Txs -> SUBSET Contents(Encoded)]
      /\ Contents(quads) \in SUBSET Contents(Encoded)
    BY Monotone DEF TypeOK, Txn
<1>3. tx' \in [Txs -> Txn]
    BY <1>1, <1>2 DEF Start
<1>4. log' \in [Txs -> Seq(Calls(Quads))]
    BY DEF Start, TypeOK
<1> HIDE DEF Txn
<1> QED
    BY <1>2, <1>3, <1>4 DEF Start, TypeOK

LEMMA ReturnsType ==
    ASSUME TypeOK, NEW t \in Txs, NEW op \in Operations, NEW q \in Quads,
           NEW result \in BOOLEAN, Returns(t, op, q, result)
    PROVE  log' \in [Txs -> Seq(Calls(Quads))]
<1> DEFINE call == [op |-> op, quad |-> q, result |-> result]
<1>1. call \in Calls(Quads)
    BY DEF Calls
<1>2. log' = log \/ log' = [log EXCEPT ![t] = Append(@, call)]
    BY DEF Returns
<1> HIDE DEF call
<1>3. log \in [Txs -> Seq(Calls(Quads))] /\ Append(log[t], call) \in Seq(Calls(Quads))
    BY <1>1 DEF TypeOK
<1> QED
    BY <1>2, <1>3

Call(t, q) ==
    \/ Insert(t, q) \/ Remove(t, q) \/ Contains(t, q)
    \/ \E bound \in BOOLEAN : Scan(t, q, bound)

\* A call on a write transaction changes only its batch.
LEMMA CallType ==
    ASSUME TypeOK, NEW t \in Txs, NEW q \in Quads,
           Call(t, q)
    PROVE  /\ TypeOK'
           /\ UNCHANGED <<kind, quads, lock>>
           /\ \A u \in Txs : tx'[u].mode = tx[u].mode /\ tx'[u].base = tx[u].base
<1>1. UNCHANGED <<kind, quads, names, lock, start>>
    BY DEF Call, Insert, Remove, Contains, Scan, Returns
<1>2. tx \in [Txs -> Txn]
    BY DEF TypeOK, Txn
<1>3. tx' \in [Txs -> Txn] /\ \A u \in Txs : tx'[u].mode = tx[u].mode
                                           /\ tx'[u].base = tx[u].base
  <2>1. CASE Insert(t, q)
    <3>1. Key(q) \in Encoded
        BY <2>1 DEF Insert, Encoded
    <3> QED
        BY <2>1, <3>1, <1>2 DEF Insert, Txn
  <2>2. CASE Remove(t, q)
    <3>1. Holds(View(t), q) => Key(q) \in Encoded
        BY HeldKeys DEF Holds
    <3> QED
        BY <2>2, <3>1, <1>2 DEF Remove, Txn
  <2>3. CASE UNCHANGED tx
      BY <2>3, <1>2
  <2> QED
      BY <2>1, <2>2, <2>3 DEF Call, Contains, Scan
<1>4. PICK op \in Operations, result \in BOOLEAN : Returns(t, op, q, result)
  <2>1. CASE Insert(t, q)
    <3>1. /\ Returns(t, "insert", q, ~Holds(View(t), q)) /\ "insert" \in Operations
          /\ (~Holds(View(t), q)) \in BOOLEAN
        BY <2>1 DEF Insert, Operations
    <3> QED
        BY <3>1
  <2>2. CASE Remove(t, q)
    <3>1. /\ Returns(t, "remove", q, Holds(View(t), q)) /\ "remove" \in Operations
          /\ Holds(View(t), q) \in BOOLEAN
        BY <2>2 DEF Remove, Operations, Holds
    <3> QED
        BY <3>1
  <2>3. CASE Contains(t, q)
    <3>1. /\ Returns(t, "contains", q, Holds(View(t), q)) /\ "contains" \in Operations
          /\ Holds(View(t), q) \in BOOLEAN
        BY <2>3 DEF Contains, Operations, Holds
    <3> QED
        BY <3>1
  <2>4. ASSUME NEW bound \in BOOLEAN, Scan(t, q, bound)
        PROVE  \E op \in Operations, result \in BOOLEAN : Returns(t, op, q, result)
    <3>1. PICK S : Returns(t, "contains", q, q \in Yielded(S))
        BY <2>4 DEF Scan
    <3>2. (q \in Yielded(S)) \in BOOLEAN /\ "contains" \in Operations
        BY DEF Operations
    <3> QED
        BY <3>1, <3>2
  <2> QED
      BY <2>1, <2>2, <2>3, <2>4 DEF Call
<1>5. log' \in [Txs -> Seq(Calls(Quads))]
    BY <1>4, ReturnsType
<1>6. outcome' \in Outcomes
    BY <1>4 DEF Returns, TypeOK, Outcomes
<1> QED
    BY <1>1, <1>3, <1>5, <1>6 DEF TypeOK, Txn, Outcomes

\* Commit and Rollback close the transaction and free its lock.
LEMMA EndsType ==
    ASSUME TypeOK, NEW t \in Txs, NEW how \in {"committed", "aborted"}, Ends(t, how)
    PROVE  /\ tx' \in [Txs -> Txn] /\ start' \in [Txs -> SUBSET Contents(Encoded)]
           /\ log' \in [Txs -> Seq(Calls(Quads))]
           /\ outcome' \in Outcomes
           /\ lock' = (IF lock = t THEN Nobody ELSE lock)
           /\ tx'[t].mode = "Closed"
           /\ \A u \in Txs \ {t} : tx'[u] = tx[u]
<1>1. tx \in [Txs -> Txn]
    BY DEF TypeOK, Txn
<1>2. tx' = [tx EXCEPT ![t] = NoTx]
    BY DEF Ends, Finish
<1>3. tx' \in [Txs -> Txn] /\ tx'[t] = NoTx /\ \A u \in Txs \ {t} : tx'[u] = tx[u]
    BY <1>1, <1>2, NoTxIsTxn
<1>4. tx'[t].mode = "Closed"
    BY <1>3 DEF NoTx
<1>5. log' \in [Txs -> Seq(Calls(Quads))]
    BY DEF Ends, Finish, TypeOK
<1>6. start' \in [Txs -> SUBSET Contents(Encoded)]
    BY DEF Ends, Finish, TypeOK
<1> QED
    BY <1>3, <1>4, <1>5, <1>6 DEF Ends, TypeOK, Outcomes

LEMMA CommitType ==
    ASSUME TypeOK, NEW t \in Txs, Commit(t)
    PROVE  TypeOK'
<1>1. Ends(t, "committed") /\ UNCHANGED kind
    BY DEF Commit
<1>2. quads' \subseteq Encoded
    BY DEF Commit, Over, TypeOK
<1>3. names' \subseteq GraphsIn(Encoded)
  <2>1. tx[t].puts \in SUBSET Encoded
      BY DEF TypeOK
  <2> QED
      BY <2>1, Monotone DEF Commit, TypeOK
<1> QED
    BY <1>1, <1>2, <1>3, EndsType DEF TypeOK, Txn, Outcomes

LEMMA RollbackType ==
    ASSUME TypeOK, NEW t \in Txs, Rollback(t)
    PROVE  TypeOK'
<1>1. Ends(t, "aborted") /\ UNCHANGED <<kind, quads, names>>
    BY DEF Rollback
<1> QED
    BY <1>1, EndsType DEF TypeOK, Txn, Outcomes

-----------------------------------------------------------------------------
(* The writer lock *)

Inv == TypeOK /\ WriterSeesLatest

\* In memory, a transaction begins to write when no other does.
LEMMA BeginKeepsInv ==
    ASSUME Inv, NEW t \in Txs, BeginRead(t) \/ BeginWrite(t)
    PROVE  Inv'
<1>1. TypeOK'
  <2>1. CASE BeginRead(t)
    <3>1. PICK mode \in Modes : Start(t, mode)
        BY <2>1 DEF BeginRead, Modes
    <3> QED
        BY <2>1, <3>1, StartType DEF BeginRead, Inv, TypeOK, Txn
  <2>2. CASE BeginWrite(t)
    <3>1. Start(t, "Write") /\ "Write" \in Modes
        BY <2>2 DEF BeginWrite, Modes
    <3> QED
        BY <2>2, <3>1, StartType DEF BeginWrite, Inv, TypeOK, Txn
  <2> QED
      BY <2>1, <2>2
<1>2. \A u \in Txs \ {t} : tx'[u] = tx[u]
    BY DEF BeginRead, BeginWrite, Start, Inv, TypeOK
<1>3. WriterSeesLatest'
  <2> SUFFICES ASSUME kind' = "InMemory", NEW u \in Txs
               PROVE  /\ tx'[u].mode = "Write" <=> lock' = u
                      /\ lock' = u => tx'[u].base = quads'
      BY DEF WriterSeesLatest
  <2>1. kind = "InMemory" /\ quads' = quads
      BY DEF BeginRead, BeginWrite
  <2>2. CASE BeginRead(t)
    <3>1. Start(t, "Latest") /\ lock' = lock
        BY <2>1, <2>2 DEF BeginRead
    <3>2. tx'[t].mode = "Latest" /\ tx[t].mode = "Closed"
        BY <3>1 DEF Start, NoTx, Inv, TypeOK
    <3> QED
        BY <1>2, <2>1, <3>1, <3>2 DEF Inv, WriterSeesLatest
  <2>3. CASE BeginWrite(t)
    <3>1. lock = Nobody /\ lock' = t /\ Start(t, "Write")
        BY <2>1, <2>3 DEF BeginWrite
    <3>2. tx'[t].mode = "Write" /\ tx'[t].base = quads
        BY <3>1 DEF Start, NoTx, Inv, TypeOK
    <3> QED
        BY <1>2, <2>1, <3>1, <3>2, StoreAssumption DEF Inv, WriterSeesLatest
  <2> QED
      BY <2>2, <2>3
<1> QED
    BY <1>1, <1>3 DEF Inv

LEMMA EndKeepsInv ==
    ASSUME Inv, NEW t \in Txs, Commit(t) \/ Rollback(t)
    PROVE  Inv'
<1>1. PICK how \in {"committed", "aborted"} : Ends(t, how)
    BY DEF Commit, Rollback
<1>2. /\ lock' = (IF lock = t THEN Nobody ELSE lock)
      /\ tx'[t].mode = "Closed"
      /\ \A u \in Txs \ {t} : tx'[u] = tx[u]
    BY <1>1, EndsType DEF Inv
<1>3. kind' = kind /\ (quads' = quads \/ tx[t].mode = "Write")
    BY DEF Commit, Rollback
<1>4. WriterSeesLatest'
    BY <1>2, <1>3, StoreAssumption DEF Inv, WriterSeesLatest
<1> QED
    BY <1>4, CommitType, RollbackType DEF Inv

\* In memory, nobody else writes while a write transaction is open.
LEMMA ForeignKeepsInv ==
    ASSUME Inv, NEW f \in Foreign, ForeignWrite(f)
    PROVE  Inv'
<1>1. Encode(f) \in Encoded
    BY DEF Encoded
<1>2. quads' \subseteq Encoded
    BY <1>1 DEF ForeignWrite, Inv, TypeOK
<1>3. names' \subseteq GraphsIn(Encoded)
  <2>1. {Encode(f)} \in SUBSET Encoded
      BY <1>1
  <2> QED
      BY <2>1, Monotone DEF ForeignWrite, Inv, TypeOK
<1>4. TypeOK'
    BY <1>2, <1>3 DEF ForeignWrite, Inv, TypeOK
<1>5. WriterSeesLatest'
    BY StoreAssumption DEF ForeignWrite, Inv, WriterSeesLatest
<1> QED
    BY <1>4, <1>5 DEF Inv

LEMMA RestartKeepsInv ==
    ASSUME Inv, Restart
    PROVE  Inv'
<1>1. kind' \in Kinds /\ kind' # "InMemory" /\ UNCHANGED <<quads, names, lock>>
    BY DEF Restart, Kinds
<1>2. tx' \in [Txs -> Txn]
    BY NoTxIsTxn DEF Restart
<1>3. start' \in [Txs -> SUBSET Contents(Encoded)] /\ log' \in [Txs -> Seq(Calls(Quads))]
    BY DEF Restart
<1>4. TypeOK'
    BY <1>1, <1>2, <1>3 DEF Restart, Inv, TypeOK, Txn
<1> QED
    BY <1>1, <1>4 DEF Inv, WriterSeesLatest

\* named_graphs only reads.
LEMMA ListingKeepsInv ==
    ASSUME Inv, Listing
    PROVE  Inv'
<1>1. UNCHANGED <<kind, quads, names, lock, tx, start, log, outcome>>
    BY DEF Listing, StartListing, ListGraph, FailListing, EndListing
<1> QED
    BY <1>1 DEF Inv, TypeOK, WriterSeesLatest

LEMMA InvIsInvariant == Spec => []Inv
<1>1. Init => Inv
    BY InitType, StoreAssumption DEF Inv, Init, WriterSeesLatest, NoTx
<1>2. Inv /\ [Next]_vars => Inv'
  <2> SUFFICES ASSUME Inv, [Next]_vars PROVE Inv'
      OBVIOUS
  <2>1. ASSUME NEW t \in Txs, Transaction(t) PROVE Inv'
    <3>1. CASE BeginRead(t) \/ BeginWrite(t)
        BY <3>1, BeginKeepsInv
    <3>2. CASE \E q \in Quads : Call(t, q)
      <4>1. PICK q \in Quads : Call(t, q)
          BY <3>2
      <4> QED
          BY <4>1, CallType DEF Inv, WriterSeesLatest
    <3>3. CASE Commit(t) \/ Rollback(t)
        BY <3>3, EndKeepsInv
    <3> QED
        BY <2>1, <3>1, <3>2, <3>3 DEF Transaction, Call
  <2>2. CASE Restart
      BY <2>2, RestartKeepsInv
  <2>3. CASE Listing
      BY <2>3, ListingKeepsInv
  <2>4. ASSUME NEW f \in Foreign, ForeignWrite(f) PROVE Inv'
      BY <2>4, ForeignKeepsInv
  <2>5. CASE UNCHANGED vars
      BY <2>5 DEF vars, Inv, TypeOK, WriterSeesLatest
  <2> QED
      BY <2>1, <2>2, <2>3, <2>4, <2>5 DEF Next
<1> QED
    BY <1>1, <1>2, PTL DEF Spec

\* What is committed is always the encoding of a quad that insert accepts or of
\* one that was written directly, and the state of OxigraphStore keeps its shape.
THEOREM TypeCorrect == Spec => []TypeOK
<1>1. Inv => TypeOK
    BY DEF Inv
<1> QED
    BY <1>1, InvIsInvariant, PTL

\* In memory there is one write transaction at a time, it works on what is
\* committed, and the lock that begin_write takes (lib.rs) is free as soon as
\* it has been committed, rolled back or dropped.
THEOREM WritersTakeTurns == Spec => []WriterSeesLatest
<1>1. Inv => WriterSeesLatest
    BY DEF Inv
<1> QED
    BY <1>1, InvIsInvariant, PTL

-----------------------------------------------------------------------------
(* Terms *)

\* A quad that is read back from what is stored is looked up in the same place.
LEMMA ReadBackKey ==
    ASSUME NEW e \in Encoded, quad_from_ox(Decode(e)) # Refused
    PROVE  /\ quad_to_ox(quad_from_ox(Decode(e))) # Refused
           /\ Key(quad_from_ox(Decode(e))) = e
<1>1. CASE \E q \in Storable : e = Key(q)
  <2>1. PICK q \in Storable : e = Key(q)
      BY <1>1
  <2>2. q \in CoreQuads /\ quad_to_ox(q) # Refused
      BY StoreAssumption DEF Storable
  <2>3. quad_from_ox(Decode(e)) = q
      BY <2>1, <2>2, AcceptedReadsBack DEF Key
  <2> QED
      BY <2>1, <2>2, <2>3
<1>2. CASE \E f \in Foreign : e = Encode(f)
  <2>1. PICK f \in Foreign : e = Encode(f)
      BY <1>2
  <2>2. f \in OxQuads
      BY StoreAssumption
  <2> QED
      BY <2>1, <2>2, ReadBackIsFound DEF Key
<1> QED
    BY <1>1, <1>2 DEF Encoded

\* Looking a quad up and reading all quads back agree.
LEMMA HoldsIsContents ==
    ASSUME NEW S \in SUBSET Encoded, NEW q \in Quads \cup Contents(S)
    PROVE  Holds(S, q) <=> q \in Contents(S)
<1>1. ASSUME Holds(S, q) PROVE q \in Contents(S)
  <2>1. CASE q \in Quads
    <3>1. q \in CoreQuads /\ quad_to_ox(q) # Refused /\ Key(q) \in S
        BY <1>1, <2>1, StoreAssumption DEF Holds
    <3>2. quad_from_ox(Decode(Key(q))) = q
        BY <3>1, AcceptedReadsBack DEF Key
    <3>3. q # Refused
        BY <3>1 DEF CoreQuads, Refused
    <3> QED
        BY <3>1, <3>2, <3>3 DEF Contents, Yielded
  <2> QED
      BY <2>1
<1>2. ASSUME q \in Contents(S) PROVE Holds(S, q)
  <2>1. PICK e \in S : q = quad_from_ox(Decode(e)) /\ q # Refused
      BY <1>2 DEF Contents, Yielded
  <2> QED
      BY <2>1, ReadBackKey DEF Holds
<1> QED
    BY <1>1, <1>2

LEMMA ViewIsEncoded ==
    ASSUME TypeOK, NEW t \in Txs
    PROVE  View(t) \in SUBSET Encoded
BY DEF TypeOK, View, Over

\* contains and remove find exactly the quads that quads_for_pattern yields
\* (lib.rs), whatever the lexical forms that Oxigraph's parsers accept.
THEOREM ScanAndContainsAgree == Spec => []ScanFindsWhatContainsFinds
<1>1. TypeOK => ScanFindsWhatContainsFinds
    BY HoldsIsContents, ViewIsEncoded DEF ScanFindsWhatContainsFinds
<1> QED
    BY <1>1, TypeCorrect, PTL

\* Different quads are stored in different places.
LEMMA KeyReadsBack ==
    ASSUME NEW q \in Storable
    PROVE  quad_from_ox(Decode(Key(q))) = q /\ q # Refused /\ Key(q) \in Encoded
<1>1. q \in CoreQuads /\ quad_to_ox(q) # Refused
    BY StoreAssumption DEF Storable
<1>2. q # Refused
    BY <1>1 DEF CoreQuads, Refused
<1> QED
    BY <1>1, <1>2, AcceptedReadsBack DEF Key, Encoded

\* Writing and deleting what stands for a quad adds and removes just that quad.
LEMMA PutContents ==
    ASSUME NEW S \in SUBSET Encoded, NEW q \in Storable
    PROVE  Contents(S \cup {Key(q)}) = Contents(S) \cup {q}
BY KeyReadsBack DEF Contents, Yielded

LEMMA DelContents ==
    ASSUME NEW S \in SUBSET Encoded, NEW q \in Storable
    PROVE  Contents(S \ {Key(q)}) = Contents(S) \ {q}
<1>1. ASSUME NEW e \in S, quad_from_ox(Decode(e)) = q PROVE e = Key(q)
    BY <1>1, KeyReadsBack, ReadBackKey
<1>2. \A x : x \in Contents(S \ {Key(q)}) <=>
              x # Refused /\ \E e \in S : e # Key(q) /\ x = quad_from_ox(Decode(e))
    BY DEF Contents, Yielded
<1>3. \A x : x \in Contents(S) <=> x # Refused /\ \E e \in S : x = quad_from_ox(Decode(e))
    BY DEF Contents, Yielded
<1>4. \A x : x \in Contents(S \ {Key(q)}) <=> x \in Contents(S) /\ x # q
    BY <1>1, <1>2, <1>3, KeyReadsBack
<1> QED
    BY <1>4

-----------------------------------------------------------------------------
(* What the calls of a transaction return *)

\* A call makes of what the transaction sees what the trait says, and returns
\* what the trait says.
Made(t, c) ==
    /\ tx[t].mode # "Closed"
    /\ Len(log[t]) < MaxOps
    /\ log' = IF Isolated(tx[t].mode) THEN [log EXCEPT ![t] = Append(@, c)] ELSE log
    /\ outcome' = IF tx[t].mode = "Write" THEN "open" ELSE outcome
    /\ UNCHANGED <<kind, quads, names, lock, start, listing>>
    /\ \A u \in Txs : tx'[u].mode = tx[u].mode /\ tx'[u].base = tx[u].base
    /\ \A u \in Txs \ {t} : tx'[u] = tx[u]
    /\ Promised(Contents(View(t)), c)
    /\ Contents(View(t))' = After(Contents(View(t)), c)

\* What the call does to the batch of the transaction.
Batched(t, c) ==
    CASE ~Changes(c, c.quad) -> tx' = tx
      [] Changes(c, c.quad) ->
           /\ c.quad \in Storable
           /\ tx'[t].puts = IF c.op = "insert" THEN tx[t].puts \cup {Key(c.quad)}
                            ELSE tx[t].puts \ {Key(c.quad)}
           /\ tx'[t].dels = IF c.op = "insert" THEN tx[t].dels \ {Key(c.quad)}
                            ELSE tx[t].dels \cup {Key(c.quad)}

LEMMA InsertIsMade ==
    ASSUME TypeOK, NEW t \in Txs, NEW q \in Quads, Insert(t, q)
    PROVE  \E c \in Calls(Quads) : Made(t, c) /\ Batched(t, c)
<1> DEFINE b == ~Holds(View(t), q)
           c == [op |-> "insert", quad |-> q, result |-> b]
<1>1. /\ tx[t].mode = "Write" /\ q \in Storable /\ Returns(t, "insert", q, b)
      /\ b \in BOOLEAN
    BY DEF Insert, Holds
<1>2. c \in Calls(Quads)
    BY <1>1 DEF Calls, Operations
<1>3. Holds(View(t), q) <=> q \in Contents(View(t))
    BY HoldsIsContents, ViewIsEncoded
<1>4. Promised(Contents(View(t)), c)
    BY <1>3 DEF Promised
<1>5. After(Contents(View(t)), c) = Contents(View(t)) \cup {q}
    BY DEF After
<1>6. Changes(c, c.quad) <=> ~Holds(View(t), q)
    BY DEF Changes
<1>7. tx \in [Txs -> Txn] /\ quads' = quads
    BY <1>1 DEF TypeOK, Txn, Returns
<1>8. CASE Holds(View(t), q)
  <2>1. tx' = tx
      BY <1>8 DEF Insert
  <2>2. View(t)' = View(t)
      BY <1>7, <2>1 DEF View, Over
  <2>3. Contents(View(t))' = After(Contents(View(t)), c)
      BY <1>3, <1>5, <1>8, <2>2 DEF Contents, Yielded
  <2>4. Made(t, c)
      BY <1>1, <1>4, <2>1, <2>3 DEF Made, Returns
  <2>5. Batched(t, c)
      BY <1>6, <1>8, <2>1 DEF Batched
  <2> QED
      BY <1>2, <2>4, <2>5
<1>9. CASE ~Holds(View(t), q)
  <2>1. tx' = [tx EXCEPT ![t].puts = @ \cup {Key(q)}, ![t].dels = @ \ {Key(q)}]
      BY <1>9 DEF Insert
  <2>2. /\ \A u \in Txs : tx'[u].mode = tx[u].mode /\ tx'[u].base = tx[u].base
        /\ \A u \in Txs \ {t} : tx'[u] = tx[u]
        /\ tx'[t].puts = tx[t].puts \cup {Key(q)} /\ tx'[t].dels = tx[t].dels \ {Key(q)}
      BY <1>7, <2>1 DEF Txn
  <2>3. View(t)' = View(t) \cup {Key(q)}
      BY <1>1, <1>7, <2>2 DEF View, Over
  <2>4. Contents(View(t))' = Contents(View(t) \cup {Key(q)})
      BY <2>3 DEF Contents, Yielded
  <2>5. Contents(View(t))' = After(Contents(View(t)), c)
      BY <1>1, <1>5, <2>4, PutContents, ViewIsEncoded
  <2>6. Made(t, c)
      BY <1>1, <1>4, <2>2, <2>5 DEF Made, Returns
  <2>7. Batched(t, c)
      BY <1>1, <1>6, <1>9, <2>2 DEF Batched
  <2> QED
      BY <1>2, <2>6, <2>7
<1> QED
    BY <1>8, <1>9

LEMMA RemoveIsMade ==
    ASSUME TypeOK, NEW t \in Txs, NEW q \in Quads, Remove(t, q)
    PROVE  \E c \in Calls(Quads) : Made(t, c) /\ Batched(t, c)
<1> DEFINE b == Holds(View(t), q)
           c == [op |-> "remove", quad |-> q, result |-> b]
<1>1. tx[t].mode = "Write" /\ Returns(t, "remove", q, b) /\ b \in BOOLEAN
    BY DEF Remove, Holds
<1>2. c \in Calls(Quads)
    BY <1>1 DEF Calls, Operations
<1>3. Holds(View(t), q) <=> q \in Contents(View(t))
    BY HoldsIsContents, ViewIsEncoded
<1>4. Promised(Contents(View(t)), c)
  <2>1. b = (q \in Contents(View(t)))
      BY <1>3 DEF Holds
  <2>2. c.result = b /\ c.op = "remove" /\ c.quad = q
      OBVIOUS
  <2> QED
      BY <2>1, <2>2 DEF Promised
<1>5. After(Contents(View(t)), c) = Contents(View(t)) \ {q}
    BY DEF After
<1>6. Changes(c, c.quad) <=> Holds(View(t), q)
    BY DEF Changes
<1>7. tx \in [Txs -> Txn] /\ quads' = quads
    BY <1>1 DEF TypeOK, Txn, Returns
<1>8. CASE ~Holds(View(t), q)
  <2>1. tx' = tx
      BY <1>8 DEF Remove
  <2>2. View(t)' = View(t)
      BY <1>7, <2>1 DEF View, Over
  <2>3. Contents(View(t))' = After(Contents(View(t)), c)
      BY <1>3, <1>5, <1>8, <2>2 DEF Contents, Yielded
  <2>4. Made(t, c)
      BY <1>1, <1>4, <2>1, <2>3 DEF Made, Returns
  <2>5. Batched(t, c)
      BY <1>6, <1>8, <2>1 DEF Batched
  <2> QED
      BY <1>2, <2>4, <2>5
<1>9. CASE Holds(View(t), q)
  <2>0. q \in Storable
      BY <1>9 DEF Holds, Storable
  <2>1. tx' = [tx EXCEPT ![t].dels = @ \cup {Key(q)}, ![t].puts = @ \ {Key(q)}]
      BY <1>9 DEF Remove
  <2>2. /\ \A u \in Txs : tx'[u].mode = tx[u].mode /\ tx'[u].base = tx[u].base
        /\ \A u \in Txs \ {t} : tx'[u] = tx[u]
        /\ tx'[t].puts = tx[t].puts \ {Key(q)} /\ tx'[t].dels = tx[t].dels \cup {Key(q)}
      BY <1>7, <2>1 DEF Txn
  <2>3. View(t)' = View(t) \ {Key(q)}
      BY <1>1, <1>7, <2>2 DEF View, Over
  <2>4. Contents(View(t))' = Contents(View(t) \ {Key(q)})
      BY <2>3 DEF Contents, Yielded
  <2>5. Contents(View(t))' = After(Contents(View(t)), c)
      BY <1>5, <2>0, <2>4, DelContents, ViewIsEncoded
  <2>6. Made(t, c)
      BY <1>1, <1>4, <2>2, <2>5 DEF Made, Returns
  <2>7. Batched(t, c)
      BY <2>0, <1>6, <1>9, <2>2 DEF Batched
  <2> QED
      BY <1>2, <2>6, <2>7
<1> QED
    BY <1>8, <1>9

\* contains, and a scan for a quad with its terms bound or not.
LEMMA LookIsMade ==
    ASSUME TypeOK, NEW t \in Txs, NEW q \in Quads,
           Contains(t, q) \/ \E bound \in BOOLEAN : Scan(t, q, bound)
    PROVE  \E c \in Calls(Quads) : Made(t, c) /\ Batched(t, c)
<1>1. Holds(View(t), q) <=> q \in Contents(View(t))
    BY HoldsIsContents, ViewIsEncoded
<1>2. PICK b \in BOOLEAN : /\ Returns(t, "contains", q, b) /\ tx' = tx /\ tx[t].mode # "Closed"
                           /\ b = (q \in Contents(View(t)))
  <2>1. CASE Contains(t, q)
    <3>1. Holds(View(t), q) \in BOOLEAN /\ Holds(View(t), q) = (q \in Contents(View(t)))
        BY <1>1 DEF Holds
    <3> QED
        BY <2>1, <3>1 DEF Contains
  <2>2. ASSUME NEW bound \in BOOLEAN, Scan(t, q, bound)
        PROVE  \E b \in BOOLEAN : /\ Returns(t, "contains", q, b) /\ tx' = tx
                                  /\ tx[t].mode # "Closed" /\ b = (q \in Contents(View(t)))
    <3> DEFINE matches == IF bound THEN {e \in View(t) : quad_to_ox(q) # Refused /\ e = Key(q)}
                          ELSE View(t)
               b == q \in Yielded(matches)
    <3>1. Returns(t, "contains", q, b) /\ tx' = tx /\ tx[t].mode # "Closed"
        BY <2>2 DEF Scan
    <3>2. matches \in SUBSET Encoded
        BY ViewIsEncoded
    <3>3. Holds(matches, q) <=> Holds(View(t), q)
        BY DEF Holds
    <3>4. Holds(matches, q) <=> q \in Contents(matches)
        BY <3>2, HoldsIsContents
    <3>5. b \in BOOLEAN /\ b = (q \in Contents(View(t)))
      <4>1. q # Refused
          BY StoreAssumption DEF CoreQuads, Refused
      <4>2. b <=> q \in Contents(matches)
          BY <4>1 DEF Contents
      <4> QED
          BY <1>1, <3>3, <3>4, <4>2
    <3> HIDE DEF b
    <3> QED
        BY <3>1, <3>5
  <2> QED
      BY <2>1, <2>2
<1> DEFINE c == [op |-> "contains", quad |-> q, result |-> b]
<1>3. c \in Calls(Quads)
    BY DEF Calls, Operations
<1>4. Promised(Contents(View(t)), c) /\ After(Contents(View(t)), c) = Contents(View(t))
    BY <1>2 DEF Promised, After
<1>5. View(t)' = View(t)
    BY <1>2 DEF View, Over, Returns
<1>6. Contents(View(t))' = Contents(View(t))
    BY <1>5 DEF Contents, Yielded
<1>7. Made(t, c)
    BY <1>2, <1>4, <1>6 DEF Made, Returns
<1>8. Batched(t, c)
    BY <1>2 DEF Batched, Changes
<1> QED
    BY <1>3, <1>7, <1>8

LEMMA CallIsMade ==
    ASSUME TypeOK, NEW t \in Txs, NEW q \in Quads, Call(t, q)
    PROVE  \E c \in Calls(Quads) : Made(t, c) /\ Batched(t, c)
BY InsertIsMade, RemoveIsMade, LookIsMade DEF Call

-----------------------------------------------------------------------------
(* Snapshots *)

\* How transactions read depends on how the store was opened.
ModesFit ==
    /\ kind = "OnDisk" => \A t \in Txs : tx[t].mode # "Latest"
    /\ kind = "OnDiskReadOnly" => \A t \in Txs : tx[t].mode \in {"Closed", "Latest"}

Promising(t) == tx[t].mode # "Closed" /\ Isolated(tx[t].mode)

\* The calls of an isolated transaction made what it sees of what it began with.
ViewIsReplay ==
    \A t \in Txs :
        /\ Promising(t) => /\ Legal(start[t], log[t])
                           /\ Replay(start[t], log[t]) = Contents(View(t))
        /\ ~Promising(t) => log[t] = <<>>
        /\ tx[t].mode = "Write" => start[t] = Contents(tx[t].base)

HistoryInv == ModesFit /\ ViewIsReplay

LEMMA OpenedAs ==
    ASSUME TypeOK
    PROVE  kind \in {"InMemory", "OnDisk", "OnDiskReadOnly"}
BY DEF TypeOK, Kinds

\* Only when the store is in memory do the calls of a read see what others
\* commit meanwhile.
LEMMA IsolatedReads ==
    ASSUME TypeOK, ModesFit, NEW t \in Txs, tx[t].mode = "Latest", Promising(t)
    PROVE  kind = "OnDiskReadOnly"
BY OpenedAs DEF ModesFit, Promising, Isolated, Capabilities

LEMMA StartKeepsHistory ==
    ASSUME Inv, HistoryInv, NEW t \in Txs, BeginRead(t) \/ BeginWrite(t)
    PROVE  HistoryInv'
<1>1. PICK mode \in Modes \ {"Closed"} :
          /\ Start(t, mode)
          /\ kind = "OnDisk" => mode # "Latest"
          /\ kind = "OnDiskReadOnly" => mode = "Latest"
    BY DEF BeginRead, BeginWrite, Modes
<1>2. UNCHANGED <<kind, quads>>
    BY DEF BeginRead, BeginWrite
<1>3. tx \in [Txs -> Txn] /\ start \in [Txs -> SUBSET Contents(Encoded)]
      /\ log \in [Txs -> Seq(Calls(Quads))]
    BY DEF Inv, TypeOK, Txn
<1>4. tx'[t] = [mode |-> mode, base |-> IF mode = "Latest" THEN {} ELSE quads,
                puts |-> {}, dels |-> {}]
    BY <1>1, <1>3 DEF Start, NoTx
<1>5. /\ \A u \in Txs \ {t} : tx'[u] = tx[u] /\ start'[u] = start[u] /\ log'[u] = log[u]
      /\ log'[t] = <<>>
      /\ start'[t] = IF Isolated(mode) THEN Contents(quads) ELSE {}
    BY <1>1, <1>3 DEF Start
<1>6. ModesFit'
    BY <1>1, <1>2, <1>4, <1>5 DEF HistoryInv, ModesFit
<1>7. View(t)' = quads
    BY <1>2, <1>4 DEF View, Over
<1>8. \A u \in Txs \ {t} : View(u)' = View(u) /\ (Promising(u)' <=> Promising(u))
    BY <1>2, <1>5 DEF View, Over, Promising, Isolated
<1>9. /\ Promising(t)' <=> Isolated(mode)
      /\ tx'[t].mode = "Write" => Isolated(mode) /\ tx'[t].base = quads
    BY <1>1, <1>2, <1>4 DEF Promising, Isolated
<1>10. ViewIsReplay'
  <2> SUFFICES ASSUME NEW u \in Txs
               PROVE  /\ Promising(u)' => /\ Legal(start'[u], log'[u])
                                          /\ Replay(start'[u], log'[u]) = Contents(View(u)')
                      /\ ~Promising(u)' => log'[u] = <<>>
                      /\ tx'[u].mode = "Write" => start'[u] = Contents(tx'[u].base)
      BY DEF ViewIsReplay, Contents
  <2>1. CASE u = t
      BY <2>1, <1>5, <1>7, <1>9, ReplayNothing
  <2>2. CASE u # t
      BY <2>2, <1>5, <1>8 DEF HistoryInv, ViewIsReplay
  <2> QED
      BY <2>1, <2>2
<1> QED
    BY <1>6, <1>10 DEF HistoryInv

LEMMA CallKeepsHistory ==
    ASSUME Inv, HistoryInv, NEW t \in Txs, NEW c \in Calls(Quads), Made(t, c)
    PROVE  HistoryInv'
<1>1. /\ UNCHANGED <<kind, quads, start>>
      /\ \A u \in Txs : tx'[u].mode = tx[u].mode /\ tx'[u].base = tx[u].base
      /\ \A u \in Txs \ {t} : tx'[u] = tx[u]
    BY DEF Made
<1>2. ModesFit'
    BY <1>1 DEF HistoryInv, ModesFit
<1>3. \A u \in Txs : Promising(u)' <=> Promising(u)
    BY <1>1 DEF Promising, Isolated
<1>4. \A u \in Txs \ {t} : View(u)' = View(u)
    BY <1>1 DEF View, Over
<1>5. log[t] \in Seq(Calls(Quads)) /\ c.op \in Operations /\ log \in [Txs -> Seq(Calls(Quads))]
    BY DEF Inv, TypeOK, Calls
<1>6. /\ log'[t] = IF Promising(t) THEN Append(log[t], c) ELSE log[t]
      /\ \A u \in Txs \ {t} : log'[u] = log[u]
    BY <1>5 DEF Made, Promising
<1>7. ViewIsReplay'
  <2> SUFFICES ASSUME NEW u \in Txs
               PROVE  /\ Promising(u)' => /\ Legal(start'[u], log'[u])
                                          /\ Replay(start'[u], log'[u]) = Contents(View(u)')
                      /\ ~Promising(u)' => log'[u] = <<>>
                      /\ tx'[u].mode = "Write" => start'[u] = Contents(tx'[u].base)
      BY DEF ViewIsReplay, Contents
  <2>1. CASE u = t /\ Promising(t)
    <3>1. /\ Legal(start[t], log[t]) /\ Replay(start[t], log[t]) = Contents(View(t))
          /\ Promised(Contents(View(t)), c) /\ Contents(View(t))' = After(Contents(View(t)), c)
          /\ tx[t].mode = "Write" => start[t] = Contents(tx[t].base)
        BY <2>1 DEF HistoryInv, ViewIsReplay, Made
    <3>2. Contents(View(t)') = After(Contents(View(t)), c)
        BY <3>1 DEF Contents, Yielded
    <3>3. Legal(start[t], Append(log[t], c))
        BY <1>5, <3>1, LegalOneMore
    <3>4. Replay(start[t], Append(log[t], c)) = After(Contents(View(t)), c)
        BY <1>5, <3>1, ReplayOneMore
    <3> QED
        BY <1>1, <1>3, <1>6, <2>1, <3>1, <3>2, <3>3, <3>4
  <2>2. CASE u # t
      BY <2>2, <1>1, <1>3, <1>4, <1>6 DEF HistoryInv, ViewIsReplay
  <2>3. CASE u = t /\ ~Promising(t)
      BY <2>3, <1>1, <1>3, <1>6 DEF HistoryInv, ViewIsReplay
  <2> QED
      BY <2>1, <2>2, <2>3
<1> QED
    BY <1>2, <1>7 DEF HistoryInv

\* What is committed while an isolated transaction is open is none of its business.
LEMMA EndKeepsHistory ==
    ASSUME Inv, HistoryInv, NEW t \in Txs, Commit(t) \/ Rollback(t)
    PROVE  HistoryInv'
<1>1. PICK how \in {"committed", "aborted"} : Ends(t, how)
    BY DEF Commit, Rollback
<1>2. /\ tx'[t].mode = "Closed"
      /\ \A u \in Txs \ {t} : tx'[u] = tx[u]
    BY <1>1, EndsType DEF Inv
<1>3. kind' = kind /\ (quads' = quads \/ tx[t].mode = "Write")
    BY DEF Commit, Rollback
<1>4. log'[t] = <<>> /\ \A u \in Txs \ {t} : log'[u] = log[u] /\ start'[u] = start[u]
    BY <1>1 DEF Ends, Finish, Inv, TypeOK
<1>5. ModesFit'
    BY <1>2, <1>3 DEF HistoryInv, ModesFit
<1>6. \A u \in Txs \ {t} : Promising(u)' <=> Promising(u)
    BY <1>2, <1>3 DEF Promising, Isolated
<1>7. ASSUME NEW u \in Txs \ {t}, Promising(u) PROVE View(u)' = View(u)
  <2>1. tx[u].mode # "Latest" \/ quads' = quads
      BY <1>3, <1>7, IsolatedReads DEF Inv, HistoryInv, ModesFit
  <2> QED
      BY <1>2, <2>1 DEF View, Over
<1>8. ViewIsReplay'
  <2> SUFFICES ASSUME NEW u \in Txs
               PROVE  /\ Promising(u)' => /\ Legal(start'[u], log'[u])
                                          /\ Replay(start'[u], log'[u]) = Contents(View(u)')
                      /\ ~Promising(u)' => log'[u] = <<>>
                      /\ tx'[u].mode = "Write" => start'[u] = Contents(tx'[u].base)
      BY DEF ViewIsReplay, Contents
  <2>1. CASE u = t
      BY <2>1, <1>2, <1>4 DEF Promising
  <2>2. CASE u # t
      BY <2>2, <1>2, <1>4, <1>6, <1>7 DEF HistoryInv, ViewIsReplay
  <2> QED
      BY <2>1, <2>2
<1> QED
    BY <1>5, <1>8 DEF HistoryInv

LEMMA ForeignKeepsHistory ==
    ASSUME Inv, HistoryInv, NEW f \in Foreign, ForeignWrite(f)
    PROVE  HistoryInv'
<1>1. UNCHANGED <<kind, tx, start, log>> /\ kind # "OnDiskReadOnly"
    BY DEF ForeignWrite
<1>2. ModesFit'
    BY <1>1 DEF HistoryInv, ModesFit
<1>3. \A u \in Txs : Promising(u)' <=> Promising(u)
    BY <1>1 DEF Promising, Isolated
<1>4. ASSUME NEW u \in Txs, Promising(u) PROVE View(u)' = View(u)
  <2>1. tx[u].mode # "Latest"
      BY <1>1, <1>4, IsolatedReads DEF Inv, HistoryInv
  <2> QED
      BY <1>1, <2>1 DEF View, Over
<1>5. ViewIsReplay'
  <2> SUFFICES ASSUME NEW u \in Txs
               PROVE  /\ Promising(u)' => /\ Legal(start'[u], log'[u])
                                          /\ Replay(start'[u], log'[u]) = Contents(View(u)')
                      /\ ~Promising(u)' => log'[u] = <<>>
                      /\ tx'[u].mode = "Write" => start'[u] = Contents(tx'[u].base)
      BY DEF ViewIsReplay, Contents
  <2> QED
      BY <1>1, <1>3, <1>4 DEF HistoryInv, ViewIsReplay
<1> QED
    BY <1>2, <1>5 DEF HistoryInv

LEMMA RestartKeepsHistory ==
    ASSUME Restart
    PROVE  HistoryInv'
<1>1. \A u \in Txs : tx'[u].mode = "Closed" /\ log'[u] = <<>>
    BY DEF Restart, NoTx
<1> QED
    BY <1>1 DEF HistoryInv, ModesFit, ViewIsReplay, Promising

LEMMA HistoryIsInvariant == Spec => []HistoryInv
<1>1. Init => HistoryInv
    BY DEF Init, NoTx, HistoryInv, ModesFit, ViewIsReplay, Promising
<1>2. Inv /\ HistoryInv /\ [Next]_vars => HistoryInv'
  <2> SUFFICES ASSUME Inv, HistoryInv, [Next]_vars PROVE HistoryInv'
      OBVIOUS
  <2>1. ASSUME NEW t \in Txs, Transaction(t) PROVE HistoryInv'
    <3>1. CASE BeginRead(t) \/ BeginWrite(t)
        BY <3>1, StartKeepsHistory
    <3>2. CASE \E q \in Quads : Call(t, q)
      <4>1. PICK c \in Calls(Quads) : Made(t, c)
          BY <3>2, CallIsMade DEF Inv
      <4> QED
          BY <4>1, CallKeepsHistory
    <3>3. CASE Commit(t) \/ Rollback(t)
        BY <3>3, EndKeepsHistory
    <3> QED
        BY <2>1, <3>1, <3>2, <3>3 DEF Transaction, Call
  <2>2. CASE Restart
      BY <2>2, RestartKeepsHistory
  <2>3. CASE UNCHANGED <<kind, quads, tx, start, log>>
      BY <2>3 DEF HistoryInv, ModesFit, ViewIsReplay, Promising, Isolated, View, Over, Contents
  <2>4. CASE Listing
    <3>1. UNCHANGED <<kind, quads, tx, start, log>>
        BY <2>4 DEF Listing, StartListing, ListGraph, FailListing, EndListing
    <3> QED
        BY <3>1, <2>3
  <2>5. ASSUME NEW f \in Foreign, ForeignWrite(f) PROVE HistoryInv'
      BY <2>5, ForeignKeepsHistory
  <2>6. CASE UNCHANGED vars
      BY <2>3, <2>6 DEF vars
  <2> QED
      BY <2>1, <2>2, <2>4, <2>5, <2>6 DEF Next
<1> QED
    BY <1>1, <1>2, InvIsInvariant, PTL DEF Spec

\* Every transaction on a store on disk, and every write transaction, keeps to
\* the state it began with (lib.rs, begin_read and begin_write) whatever is
\* committed meanwhile, by other transactions or directly, and reads its own
\* writes.
THEOREM ReadsAreSnapshots == Spec => []SnapshotReads
<1>1. HistoryInv => SnapshotReads
    BY ReplayNothing DEF HistoryInv, ViewIsReplay, SnapshotReads
<1> QED
    BY <1>1, HistoryIsInvariant, PTL

-----------------------------------------------------------------------------
(* In memory, write transactions are serializable *)

WriteLog(t) == IF tx[t].mode = "Write" THEN log[t] ELSE <<>>
WriteLogs == [t \in Txs |-> WriteLog(t)]

LEMMA SameTransactions ==
    /\ \A S, l : Serial!Legal(S, l) <=> Legal(S, l)
    /\ \A S, l : Serial!Replay(S, l) = Replay(S, l)
    /\ \A Q : Serial!Calls(Q) = Calls(Q)
BY DEF Serial!Legal, Legal, Serial!Replay, Replay, Serial!Calls, Calls, Serial!Operations,
       Operations, Serial!Promised, Promised, Serial!ReplayTo, ReplayTo, Serial!Stays, Stays

LEMMA BeginIsSerial ==
    ASSUME Inv, HistoryInv, NEW t \in Txs, BeginRead(t) \/ BeginWrite(t)
    PROVE  Serial!Begin(t) \/ UNCHANGED Serial!svars
<1>1. PICK mode \in Modes : Start(t, mode) /\ tx[t].mode = "Closed"
    BY DEF BeginRead, BeginWrite, Start, Modes
<1>2. log'[t] = <<>> /\ \A u \in Txs \ {t} : log'[u] = log[u] /\ tx'[u] = tx[u]
    BY <1>1 DEF Start, Inv, TypeOK
<1>3. WriteLog(t) = <<>> /\ \A u \in Txs : WriteLog(u)' = WriteLog(u)
    BY <1>1, <1>2 DEF WriteLog
<1>4. Contents(quads)' = Contents(quads)
    BY DEF BeginRead, BeginWrite, Contents
<1>5. outcome' = "open" \/ outcome' = outcome
    BY DEF BeginRead, BeginWrite
<1> QED
    BY <1>3, <1>4, <1>5 DEF Serial!Begin, Serial!svars, WriteLog

LEMMA CallIsSerial ==
    ASSUME Inv, NEW t \in Txs, NEW c \in Calls(Quads), Made(t, c)
    PROVE  Serial!Make(t, c) \/ UNCHANGED Serial!svars
<1>1. /\ \A u \in Txs : tx'[u].mode = tx[u].mode
      /\ \A u \in Txs \ {t} : log'[u] = log[u]
    BY DEF Made, Inv, TypeOK
<1>2. Contents(quads)' = Contents(quads)
    BY DEF Made, Contents
<1>3. CASE tx[t].mode = "Write"
  <2>1. log'[t] = Append(log[t], c) /\ outcome' = "open"
      BY <1>3 DEF Made, Isolated, Inv, TypeOK
  <2>2. WriteLogs' = [WriteLogs EXCEPT ![t] = Append(@, c)]
      BY <1>1, <1>3, <2>1 DEF WriteLogs, WriteLog
  <2> QED
      BY <1>2, <2>1, <2>2 DEF Serial!Make, WriteLogs, WriteLog
<1>4. CASE tx[t].mode # "Write"
  <2>1. outcome' = outcome /\ \A u \in Txs : WriteLog(u)' = WriteLog(u)
      BY <1>1, <1>4 DEF Made, WriteLog
  <2> QED
      BY <1>2, <2>1 DEF Serial!svars, WriteLog
<1> QED
    BY <1>3, <1>4

\* The batch of a write transaction is applied to what its calls were made on.
LEMMA EndIsSerial ==
    ASSUME Inv, HistoryInv, kind = "InMemory", NEW t \in Txs, Commit(t) \/ Rollback(t)
    PROVE  Serial!Commit(t) \/ Serial!Abort(t) \/ UNCHANGED Serial!svars
<1>1. PICK how \in {"committed", "aborted"} : Ends(t, how)
    BY DEF Commit, Rollback
<1>2. /\ tx'[t].mode = "Closed" /\ log'[t] = <<>>
      /\ \A u \in Txs \ {t} : tx'[u] = tx[u] /\ log'[u] = log[u]
    BY <1>1, EndsType DEF Inv, TypeOK, Ends, Finish
<1>3. WriteLogs' = [WriteLogs EXCEPT ![t] = <<>>]
    BY <1>2 DEF WriteLogs, WriteLog
<1>4. CASE Commit(t)
  <2>1. /\ tx[t].mode = "Write" /\ quads' = Over(quads, t)
        /\ outcome' = "committed"
      BY <1>4 DEF Commit, Ends
  <2>2. tx[t].base = quads
      BY <2>1 DEF Inv, WriterSeesLatest
  <2>3. View(t) = quads' /\ Promising(t)
      BY <2>1, <2>2 DEF View, Promising, Isolated
  <2>4. /\ Legal(Contents(quads), log[t])
        /\ Replay(Contents(quads), log[t]) = Contents(quads')
      BY <2>1, <2>2, <2>3 DEF HistoryInv, ViewIsReplay
  <2>5. WriteLogs[t] = log[t]
      BY <2>1 DEF WriteLogs, WriteLog
  <2>6. Contents(quads)' = Contents(quads')
      BY DEF Contents, Yielded
  <2> QED
      BY <1>3, <2>1, <2>4, <2>5, <2>6, SameTransactions DEF Serial!Commit, WriteLogs, WriteLog
<1>5. CASE Rollback(t)
  <2>1. Contents(quads)' = Contents(quads)
      BY <1>5 DEF Rollback, Contents
  <2>2. outcome' = IF tx[t].mode = "Write" THEN "aborted" ELSE outcome
      BY <1>5 DEF Rollback, Ends
  <2>3. CASE tx[t].mode = "Write"
      BY <1>3, <2>1, <2>2, <2>3 DEF Serial!Abort, WriteLogs, WriteLog
  <2>4. CASE tx[t].mode # "Write"
    <3>1. WriteLogs' = WriteLogs
        BY <1>3, <2>4 DEF WriteLogs, WriteLog
    <3> QED
        BY <2>1, <2>2, <2>4, <3>1 DEF Serial!svars, WriteLogs, WriteLog
  <2> QED
      BY <2>3, <2>4
<1> QED
    BY <1>4, <1>5

\* A direct write waits until no write transaction is open.
LEMMA ForeignIsSerial ==
    ASSUME Inv, kind = "InMemory", NEW f \in Foreign, ForeignWrite(f)
    PROVE  Serial!Outside
<1>1. lock = Nobody /\ UNCHANGED <<tx, log>> /\ outcome' = "outside"
    BY DEF ForeignWrite
<1>2. \A u \in Txs : tx[u].mode # "Write"
    BY <1>1, StoreAssumption DEF Inv, WriterSeesLatest
<1>3. \A u \in Txs : WriteLog(u) = <<>> /\ WriteLog(u)' = <<>>
    BY <1>1, <1>2 DEF WriteLog
<1> QED
    BY <1>1, <1>3 DEF Serial!Outside, WriteLog

\* A store in memory (OxigraphStore::new) runs its write transactions as if one
\* after the other: what a commit makes visible is what its calls make of the
\* state committed at that moment, quads written directly to Oxigraph included.
THEOREM InMemoryIsSerial ==
    ASSUME ~Persistent
    PROVE  Spec => SerialWrites
<1>1. Init => Serial!Init
    BY DEF Init, Serial!Init, NoTx, Contents, Yielded
<1>2. Inv /\ HistoryInv /\ [Next]_vars => [Serial!Next]_(Serial!svars)
  <2> SUFFICES ASSUME Inv, HistoryInv, [Next]_vars PROVE [Serial!Next]_(Serial!svars)
      OBVIOUS
  <2>1. kind = "InMemory" /\ ~Restart
      BY DEF Inv, TypeOK, Kinds, Restart
  <2>2. CASE UNCHANGED <<quads, tx, log, outcome>>
      BY <2>2 DEF Serial!svars, Contents
  <2>3. CASE UNCHANGED vars
      BY <2>2, <2>3 DEF vars
  <2>4. CASE Listing
    <3>1. UNCHANGED <<quads, tx, log, outcome>>
        BY <2>4 DEF Listing, StartListing, ListGraph, FailListing, EndListing
    <3> QED
        BY <3>1, <2>2
  <2>5. ASSUME NEW f \in Foreign, ForeignWrite(f) PROVE Serial!Next
      BY <2>1, <2>5, ForeignIsSerial DEF Serial!Next
  <2>6. ASSUME NEW t \in Txs, Transaction(t) PROVE [Serial!Next]_(Serial!svars)
    <3>1. CASE BeginRead(t) \/ BeginWrite(t)
        BY <3>1, BeginIsSerial DEF Serial!Next
    <3>2. CASE \E q \in Quads : Call(t, q)
      <4>1. PICK c \in Calls(Quads) : Made(t, c)
          BY <3>2, CallIsMade DEF Inv
      <4> QED
          BY <4>1, CallIsSerial, SameTransactions DEF Serial!Next
    <3>3. CASE Commit(t) \/ Rollback(t)
        BY <2>1, <3>3, EndIsSerial DEF Serial!Next
    <3> QED
        BY <2>6, <3>1, <3>2, <3>3 DEF Transaction, Call
  <2> QED
      BY <2>1, <2>3, <2>4, <2>5, <2>6 DEF Next
<1> QED
    BY <1>1, <1>2, InvIsInvariant, HistoryIsInvariant, PTL DEF Spec, SerialWrites, Serial!Spec

-----------------------------------------------------------------------------
(* named_graphs *)

ListingInv ==
    /\ GraphsIn(quads) \subseteq names
    /\ listing \in [on : BOOLEAN, todo : SUBSET GraphsIn(Encoded),
                    found : SUBSET GraphsIn(Encoded), held : SUBSET GraphsIn(Encoded),
                    seen : SUBSET GraphsIn(Encoded)]
    /\ ~listing.on => listing.todo = {}
    /\ listing.on => /\ listing.held \subseteq GraphsIn(quads)
                     /\ GraphsIn(quads) \subseteq listing.seen
                     /\ listing.held \subseteq listing.found \cup listing.todo
                     /\ listing.found \subseteq listing.seen

\* A graph that gets a quad is remembered.
LEMMA WriteKeepsListing ==
    ASSUME TypeOK', ListingInv, NEW put \in SUBSET Encoded, quads' \subseteq quads \cup put,
           names' = names \cup GraphsIn(put), Watch(quads')
    PROVE  ListingInv'
<1> DEFINE G == GraphsIn(Encoded)
<1>1. GraphsIn(quads') \in SUBSET G
    BY Monotone DEF TypeOK
<1>2. GraphsIn(quads') \subseteq names'
    BY DEF ListingInv, GraphsIn
<1>3. GraphsIn(quads)' = GraphsIn(quads')
    BY DEF GraphsIn
<1>4. listing' = [listing EXCEPT !.held = @ \cap GraphsIn(quads'),
                                 !.seen = IF listing.on THEN @ \cup GraphsIn(quads') ELSE @]
    BY DEF Watch
<1>5. listing \in [on : BOOLEAN, todo : SUBSET G, found : SUBSET G, held : SUBSET G,
                   seen : SUBSET G]
    BY DEF ListingInv
<1> HIDE DEF G
<1>6. listing' \in [on : BOOLEAN, todo : SUBSET G, found : SUBSET G, held : SUBSET G,
                    seen : SUBSET G]
    BY <1>1, <1>4, <1>5
<1>7. /\ listing'.on = listing.on /\ listing'.todo = listing.todo
      /\ listing'.found = listing.found
      /\ listing'.held = listing.held \cap GraphsIn(quads')
      /\ listing.on => listing'.seen = listing.seen \cup GraphsIn(quads')
    BY <1>4, <1>5
<1> QED
    BY <1>2, <1>3, <1>6, <1>7 DEF ListingInv, G

LEMMA ListingKeepsListing ==
    ASSUME TypeOK, ListingInv, Listing
    PROVE  ListingInv'
<1> DEFINE G == GraphsIn(Encoded)
           L == [on : BOOLEAN, todo : SUBSET G, found : SUBSET G, held : SUBSET G,
                 seen : SUBSET G]
<1>1. UNCHANGED <<quads, names>>
    BY DEF Listing, StartListing, ListGraph, FailListing, EndListing
<1>2. /\ GraphsIn(quads)' = GraphsIn(quads) /\ GraphsIn(quads) \in SUBSET names
      /\ names \in SUBSET G /\ listing \in L
    BY <1>1 DEF ListingInv, GraphsIn, TypeOK
<1>3. CASE StartListing
  <2>1. listing' \in L
      BY <1>2, <1>3 DEF StartListing
  <2> QED
      BY <1>1, <1>2, <1>3, <2>1 DEF StartListing, ListingInv
<1>4. CASE FailListing \/ EndListing
  <2>1. listing' = NotListing
      BY <1>4 DEF FailListing, EndListing
  <2> QED
      BY <1>1, <1>2, <2>1 DEF NotListing, ListingInv
<1>5. ASSUME NEW g \in names, ListGraph(g) PROVE ListingInv'
  <2>1. g \in listing.todo /\ g \in G /\ listing.on
      BY <1>5, <1>2 DEF ListGraph, ListingInv
  <2> HIDE DEF G
  <2>2. /\ listing' \in L /\ listing'.on = listing.on /\ listing'.held = listing.held
        /\ listing'.seen = listing.seen /\ listing'.todo = listing.todo \ {g}
        /\ listing'.found = IF g \in GraphsIn(quads) THEN listing.found \cup {g}
                            ELSE listing.found
      BY <1>2, <1>5, <2>1 DEF ListGraph
  <2> QED
      BY <1>1, <1>2, <2>1, <2>2 DEF ListingInv, G
<1> QED
    BY <1>3, <1>4, <1>5 DEF Listing

LEMMA ListingIsInvariant == Spec => []ListingInv
<1>1. Init => ListingInv
    BY DEF Init, ListingInv, NotListing, GraphsIn
<1>2. Inv /\ Inv' /\ ListingInv /\ [Next]_vars => ListingInv'
  <2> SUFFICES ASSUME Inv, Inv', ListingInv, [Next]_vars PROVE ListingInv'
      OBVIOUS
  <2>1. CASE UNCHANGED <<quads, names, listing>>
      BY <2>1 DEF ListingInv, GraphsIn
  <2>2. CASE Listing
      BY <2>2, ListingKeepsListing DEF Inv
  <2>3. ASSUME NEW t \in Txs, Commit(t) PROVE ListingInv'
    <3>1. /\ tx[t].puts \in SUBSET Encoded /\ quads' \subseteq quads \cup tx[t].puts
          /\ names' = names \cup GraphsIn(tx[t].puts) /\ Watch(quads')
        BY <2>3 DEF Commit, Over, Inv, TypeOK
    <3> QED
        BY <3>1, WriteKeepsListing DEF Inv
  <2>4. ASSUME NEW f \in Foreign, ForeignWrite(f) PROVE ListingInv'
    <3>1. /\ {Encode(f)} \in SUBSET Encoded /\ quads' \subseteq quads \cup {Encode(f)}
          /\ names' = names \cup GraphsIn({Encode(f)}) /\ Watch(quads')
        BY <2>4 DEF ForeignWrite, Encoded
    <3> QED
        BY <3>1, WriteKeepsListing DEF Inv
  <2>5. CASE Restart
    <3>1. UNCHANGED <<quads, names>> /\ listing' = NotListing
        BY <2>5 DEF Restart
    <3> QED
        BY <3>1 DEF ListingInv, NotListing, GraphsIn
  <2>6. ASSUME NEW t \in Txs, Transaction(t), ~Commit(t) PROVE ListingInv'
    <3>1. UNCHANGED <<quads, names, listing>>
        BY <2>6 DEF Transaction, BeginRead, BeginWrite, Insert, Remove, Contains, Scan, Returns,
                    Rollback
    <3> QED
        BY <2>1, <3>1
  <2> QED
      BY <2>1, <2>2, <2>3, <2>4, <2>5, <2>6 DEF Next, vars
<1> QED
    BY <1>1, <1>2, InvIsInvariant, PTL DEF Spec

\* named_graphs (lib.rs) asks for each remembered name whether the graph still
\* holds a quad, while commits go on.  It lists every graph that held one all
\* through the call and only graphs that held one at some time during it.
THEOREM ListingIsInBetween == Spec => []NamedGraphsInBetween
<1>1. ListingInv => NamedGraphsInBetween
    BY DEF ListingInv, NamedGraphsInBetween
<1> QED
    BY <1>1, ListingIsInvariant, PTL

-----------------------------------------------------------------------------
(* What a commit decides *)

LEMMA UntouchedOneMore ==
    ASSUME NEW calls \in Seq(Calls(Quads)), NEW c \in Calls(Quads), NEW q
    PROVE  Untouched(Append(calls, c), q) <=> Untouched(calls, q) /\ ~Changes(c, q)
<1> DEFINE more == Append(calls, c)
<1>1. /\ DOMAIN calls = 1 .. Len(calls) /\ DOMAIN more = 1 .. Len(calls) + 1
      /\ Len(calls) \in Nat /\ more[Len(calls) + 1] = c
      /\ \A i \in 1 .. Len(calls) : more[i] = calls[i]
    OBVIOUS
<1>2. \A i : i \in DOMAIN more <=> i \in DOMAIN calls \/ i = Len(calls) + 1
    BY <1>1
<1> HIDE DEF more
<1> QED
    BY <1>1, <1>2 DEF Untouched, more

LEMMA LastChangeOneMore ==
    ASSUME NEW calls \in Seq(Calls(Quads)), NEW c \in Calls(Quads), NEW q, NEW op
    PROVE  LastChangeIs(op, Append(calls, c), q) <=>
              IF Changes(c, q) THEN c.op = op ELSE LastChangeIs(op, calls, q)
<1> DEFINE more == Append(calls, c)
           n == Len(calls)
<1>1. /\ DOMAIN calls = 1 .. n /\ DOMAIN more = 1 .. n + 1 /\ n \in Nat /\ more[n + 1] = c
      /\ \A i \in 1 .. n : more[i] = calls[i]
    OBVIOUS
<1>2. \A i : i \in DOMAIN more <=> i \in DOMAIN calls \/ i = n + 1
    BY <1>1
<1>3. n + 1 \in DOMAIN more /\ (\A i \in DOMAIN more : i =< n + 1)
      /\ \A i \in DOMAIN calls : ~(n + 1 =< i) /\ more[i] = calls[i]
    BY <1>1
<1> HIDE DEF more, n
<1>4. CASE Changes(c, q)
    BY <1>1, <1>2, <1>3, <1>4 DEF LastChangeIs, more
<1>5. CASE ~Changes(c, q)
    BY <1>1, <1>2, <1>3, <1>5 DEF LastChangeIs, more
<1> QED
    BY <1>4, <1>5

\* The batch holds the last change that the calls made to each quad.
BatchOf(t, q) ==
    /\ q \in Storable =>
          /\ Key(q) \in tx[t].puts <=> LastChangeIs("insert", log[t], q)
          /\ Key(q) \in tx[t].dels <=> LastChangeIs("remove", log[t], q)
          /\ Key(q) \in tx[t].puts \cup tx[t].dels \/ Untouched(log[t], q)
    /\ q \notin Storable => Untouched(log[t], q)

BatchIsLastChange == \A t \in Txs : tx[t].mode = "Write" => \A q \in Quads : BatchOf(t, q)

LEMMA CallKeepsBatch ==
    ASSUME Inv, BatchIsLastChange, NEW t \in Txs, NEW c \in Calls(Quads), Made(t, c),
           Batched(t, c)
    PROVE  BatchIsLastChange'
<1>1. /\ \A u \in Txs : tx'[u].mode = tx[u].mode
      /\ \A u \in Txs \ {t} : tx'[u] = tx[u] /\ log'[u] = log[u]
    BY DEF Made, Inv, TypeOK
<1>2. ASSUME NEW q \in Quads, tx[t].mode = "Write" PROVE BatchOf(t, q)'
  <2>1. log[t] \in Seq(Calls(Quads)) /\ log'[t] = Append(log[t], c)
      BY <1>2 DEF Made, Isolated, Inv, TypeOK
  <2>2. /\ Untouched(log'[t], q) <=> Untouched(log[t], q) /\ ~Changes(c, q)
        /\ \A op : LastChangeIs(op, log'[t], q) <=>
                      IF Changes(c, q) THEN c.op = op ELSE LastChangeIs(op, log[t], q)
      BY <2>1, UntouchedOneMore, LastChangeOneMore
  <2>3. BatchOf(t, q)
      BY <1>2 DEF BatchIsLastChange
  <2>4. CASE ~Changes(c, c.quad)
    <3>1. tx' = tx /\ ~Changes(c, q)
        BY <2>4 DEF Batched, Changes
    <3> QED
        BY <2>2, <2>3, <3>1 DEF BatchOf
  <2>5. CASE Changes(c, c.quad)
    <3>1. /\ c.quad \in Storable
          /\ tx'[t].puts = IF c.op = "insert" THEN tx[t].puts \cup {Key(c.quad)}
                           ELSE tx[t].puts \ {Key(c.quad)}
          /\ tx'[t].dels = IF c.op = "insert" THEN tx[t].dels \ {Key(c.quad)}
                           ELSE tx[t].dels \cup {Key(c.quad)}
        BY <2>5 DEF Batched
    <3>2. CASE q = c.quad
      <4>1. c.op \in {"insert", "remove"} /\ Changes(c, q) /\ q \in Storable
          BY <2>5, <3>1, <3>2 DEF Changes, Calls, Operations
      <4> QED
          BY <2>2, <3>1, <3>2, <4>1 DEF BatchOf
    <3>3. CASE q # c.quad
      <4>1. ~Changes(c, q)
          BY <3>3 DEF Changes
      <4>2. q \in Storable => Key(q) # Key(c.quad)
          BY <3>1, <3>3, KeyReadsBack
      <4> QED
          BY <2>2, <2>3, <3>1, <4>1, <4>2 DEF BatchOf
    <3> QED
        BY <3>2, <3>3
  <2> QED
      BY <2>4, <2>5
<1>3. ASSUME NEW u \in Txs \ {t}, NEW q \in Quads, tx[u].mode = "Write" PROVE BatchOf(u, q)'
    BY <1>1, <1>3 DEF BatchIsLastChange, BatchOf
<1> QED
    BY <1>1, <1>2, <1>3 DEF BatchIsLastChange

LEMMA BatchIsInvariant == Spec => []BatchIsLastChange
<1>1. Init => BatchIsLastChange
    BY DEF Init, NoTx, BatchIsLastChange
<1>2. Inv /\ BatchIsLastChange /\ [Next]_vars => BatchIsLastChange'
  <2> SUFFICES ASSUME Inv, BatchIsLastChange, [Next]_vars PROVE BatchIsLastChange'
      OBVIOUS
  <2>1. CASE UNCHANGED <<tx, log>>
      BY <2>1 DEF BatchIsLastChange, BatchOf
  <2>2. ASSUME NEW t \in Txs, BeginRead(t) \/ BeginWrite(t) PROVE BatchIsLastChange'
    <3>0. PICK mode : Start(t, mode)
        BY <2>2 DEF BeginRead, BeginWrite
    <3>1. /\ tx'[t].puts = {} /\ tx'[t].dels = {} /\ log'[t] = <<>>
          /\ \A u \in Txs \ {t} : tx'[u] = tx[u] /\ log'[u] = log[u]
        BY <3>0 DEF Start, NoTx, Inv, TypeOK
    <3>2. \A q : Untouched(<<>>, q) /\ \A op : ~LastChangeIs(op, <<>>, q)
        BY DEF Untouched, LastChangeIs
    <3> QED
        BY <3>1, <3>2 DEF BatchIsLastChange, BatchOf
  <2>3. ASSUME NEW t \in Txs, NEW q \in Quads, Call(t, q) PROVE BatchIsLastChange'
    <3>1. PICK c \in Calls(Quads) : Made(t, c) /\ Batched(t, c)
        BY <2>3, CallIsMade DEF Inv
    <3> QED
        BY <3>1, CallKeepsBatch
  <2>4. ASSUME NEW t \in Txs, Commit(t) \/ Rollback(t) PROVE BatchIsLastChange'
    <3>1. PICK how \in {"committed", "aborted"} : Ends(t, how)
        BY <2>4 DEF Commit, Rollback
    <3>2. /\ tx'[t].mode = "Closed"
          /\ \A u \in Txs \ {t} : tx'[u] = tx[u] /\ log'[u] = log[u]
        BY <3>1, EndsType DEF Inv, TypeOK, Ends, Finish
    <3> QED
        BY <3>2 DEF BatchIsLastChange, BatchOf
  <2>5. CASE Restart
    <3>1. \A u \in Txs : tx'[u].mode = "Closed"
        BY <2>5 DEF Restart, NoTx
    <3> QED
        BY <3>1 DEF BatchIsLastChange
  <2>6. CASE Listing \/ (\E f \in Foreign : ForeignWrite(f)) \/ UNCHANGED vars
    <3>1. UNCHANGED <<tx, log>>
        BY <2>6 DEF Listing, StartListing, ListGraph, FailListing, EndListing, ForeignWrite, vars
    <3> QED
        BY <2>1, <3>1
  <2> QED
      BY <2>2, <2>3, <2>4, <2>5, <2>6 DEF Next, Transaction, Call
<1> QED
    BY <1>1, <1>2, InvIsInvariant, PTL DEF Spec

LEMMA CommitAppliesBatch ==
    ASSUME Inv, Inv', BatchIsLastChange, NEW t \in Txs, Commit(t), NEW q \in Quads
    PROVE  q \in Contents(quads') <=> IF Untouched(log[t], q) THEN q \in Contents(quads)
                                      ELSE LastChangeIs("insert", log[t], q)
<1>1. BatchOf(t, q)
    BY DEF Commit, BatchIsLastChange
<1>2. quads \in SUBSET Encoded /\ quads' \in SUBSET Encoded
    BY DEF Inv, TypeOK
<1>3. /\ q \in Contents(quads) <=> q \in Storable /\ Key(q) \in quads
      /\ q \in Contents(quads') <=> q \in Storable /\ Key(q) \in quads'
    BY <1>2, HoldsIsContents DEF Holds, Storable
<1>4. quads' = (quads \ tx[t].dels) \cup tx[t].puts
    BY DEF Commit, Over
<1>5. Untouched(log[t], q) => \A op : ~LastChangeIs(op, log[t], q)
    BY DEF Untouched, LastChangeIs
<1> QED
    BY <1>1, <1>3, <1>4, <1>5 DEF BatchOf

\* On disk nothing keeps write transactions apart (lib.rs, the commit of
\* begin_write's transaction): a commit still decides only on the quads that its
\* calls changed, each by the last call that changed it, and leaves the others
\* as whoever committed last has left them.
THEOREM LastCommitDecides == Spec => LastCommitWins
<1>1. Inv /\ Inv' /\ BatchIsLastChange /\ [Next]_vars =>
         [\A t \in Txs : Commit(t) =>
             \A q \in Quads :
                q \in Contents(quads') <=> IF Untouched(log[t], q) THEN q \in Contents(quads)
                                           ELSE LastChangeIs("insert", log[t], q)]_vars
    BY CommitAppliesBatch
<1> QED
    BY <1>1, InvIsInvariant, BatchIsInvariant, PTL DEF Spec, LastCommitWins
=============================================================================
