------------------------------ MODULE OxStore ------------------------------
(***************************************************************************)
(* OxigraphStore behind the Storage trait (semanticore-store-oxigraph).    *)
(*                                                                         *)
(* Oxigraph itself is external and modelled as the adapter uses it: a      *)
(* transaction is a snapshot plus a private batch of writes; in memory it  *)
(* holds a global writer lock from start_transaction to its end, on disk   *)
(* it takes no lock and a commit applies its batch unconditionally.        *)
(***************************************************************************)
EXTENDS Transactions, TermConvert

CONSTANTS
    Persistent, \* the store is in a directory
    Quads,     \* the quads that callers name, as the core model has them
    Foreign,   \* what others write to the Oxigraph store directly
    Txs,       \* slots for open transactions
    MaxOps,    \* bound: calls on one transaction
    Lists      \* bound: whether named_graphs is called too

Nobody == "nobody"

ASSUME StoreAssumption ==
    /\ Persistent \in BOOLEAN
    /\ Quads \subseteq CoreQuads
    /\ Foreign \subseteq OxQuads
    /\ Nobody \notin Txs
    /\ MaxOps \in Nat
    /\ Lists \in BOOLEAN

VARIABLES
    kind,     \* how the store was opened
    quads,    \* what is committed, as Oxigraph encodes it
    names,    \* the graph names Oxigraph remembers
    lock,     \* the transaction that holds the in-memory writer lock
    tx,       \* the open transactions
    start,    \* history: what could be read when each transaction began
    log,      \* history: the calls each open transaction has made
    outcome,  \* history: how the last call of a write transaction ended it
    listing   \* the call of named_graphs in progress

vars == <<kind, quads, names, lock, tx, start, log, outcome, listing>>

Kinds == IF Persistent THEN {"OnDisk", "OnDiskReadOnly"} ELSE {"InMemory"}

\* What the store says of itself.
Capabilities(k) == [persistent |-> k # "InMemory",
                    concurrent_writes |-> k # "OnDiskReadOnly",
                    isolation |-> IF k = "InMemory" THEN "ReadCommitted"
                                  ELSE "SnapshotIsolation"]

Modes == {"Closed", "Write", "Snapshot", "Latest"}
NoTx == [mode |-> "Closed", base |-> {}, puts |-> {}, dels |-> {}]

\* `held' and `seen' are history: the graphs that held a quad all through the
\* call, and at some time during it.
NotListing == [on |-> FALSE, todo |-> {}, found |-> {}, held |-> {}, seen |-> {}]

GraphsIn(S) == {e.graph : e \in S} \ {DefaultGraph}

\* The quads that can be written, and how they are stored.
Storable == {q \in Quads : quad_to_ox(q) # Refused}
Key(q) == Encode(quad_to_ox(q))
Encoded == {Key(q) : q \in Storable} \cup {Encode(f) : f \in Foreign}

\* Whether a set of stored quads contains the quad.
Holds(S, q) == quad_to_ox(q) # Refused /\ Key(q) \in S

\* The items that an iterator over stored quads yields: Refused is the Err for a
\* quad that cannot be read back.  The Ok items are the quads that S holds.
Yielded(S) == {quad_from_ox(Decode(e)) : e \in S}
Contents(S) == Yielded(S) \ {Refused}

-----------------------------------------------------------------------------
(* Transactions *)

Over(S, t) == (S \ tx[t].dels) \cup tx[t].puts

\* What a read call on the transaction sees.
View(t) == IF tx[t].mode = "Latest" THEN quads ELSE Over(tx[t].base, t)

\* Whether the calls of the transaction see one state and its own writes.
Isolated(mode) ==
    mode = "Write" \/ Capabilities(kind).isolation = "SnapshotIsolation"

Start(t, mode) ==
    /\ tx[t].mode = "Closed"
    /\ tx' = [tx EXCEPT ![t] = [NoTx EXCEPT !.mode = mode,
                                           !.base = IF mode = "Latest" THEN {} ELSE quads]]
    /\ start' = [start EXCEPT ![t] = IF Isolated(mode) THEN Contents(quads) ELSE {}]
    /\ log' = [log EXCEPT ![t] = <<>>]

\* Faulty variant: reads are not pinned to a snapshot.
BeginReadLatest(t) ==
    /\ Start(t, "Latest")
    /\ UNCHANGED <<kind, quads, names, lock, outcome, listing>>

BeginRead(t) ==
    /\ Start(t, IF kind = "OnDisk" THEN "Snapshot" ELSE "Latest")
    /\ UNCHANGED <<kind, quads, names, lock, outcome, listing>>

\* Faulty variant: the writer lock is not waited for.
BeginWriteUnlocked(t) ==
    /\ Start(t, "Write")
    /\ outcome' = "open"
    /\ UNCHANGED <<kind, quads, names, lock, listing>>

\* In memory begin_write blocks while another write transaction is open.
BeginWrite(t) ==
    /\ kind # "OnDiskReadOnly"
    /\ kind = "InMemory" => lock = Nobody
    /\ Start(t, "Write")
    /\ lock' = IF kind = "InMemory" THEN t ELSE lock
    /\ outcome' = "open"
    /\ UNCHANGED <<kind, quads, names, listing>>

\* The call returns `result', which the caller sees.  A transaction that is not
\* isolated has no log: nothing is promised of its calls taken together.
Returns(t, op, q, result) ==
    LET call == [op |-> op, quad |-> q, result |-> result] IN
    /\ Len(log[t]) < MaxOps
    /\ log' = IF Isolated(tx[t].mode) THEN [log EXCEPT ![t] = Append(@, call)] ELSE log
    /\ outcome' = IF tx[t].mode = "Write" THEN "open" ELSE outcome
    /\ UNCHANGED <<kind, quads, names, lock, start, listing>>

\* On a read-only transaction, and for a quad that is refused, insert returns an
\* error and nothing else happens.
Insert(t, q) ==
    /\ tx[t].mode = "Write"
    /\ q \in Storable
    /\ Returns(t, "insert", q, ~Holds(View(t), q))
    /\ tx' = IF Holds(View(t), q) THEN tx
             ELSE [tx EXCEPT ![t].puts = @ \cup {Key(q)}, ![t].dels = @ \ {Key(q)}]

\* A quad that is refused is taken to be absent.
Remove(t, q) ==
    /\ tx[t].mode = "Write"
    /\ Returns(t, "remove", q, Holds(View(t), q))
    /\ tx' = IF Holds(View(t), q)
             THEN [tx EXCEPT ![t].dels = @ \cup {Key(q)}, ![t].puts = @ \ {Key(q)}]
             ELSE tx

Contains(t, q) ==
    /\ tx[t].mode # "Closed"
    /\ Returns(t, "contains", q, Holds(View(t), q))
    /\ UNCHANGED tx

\* quads_for_pattern, with no term bound or with the terms of q: whether Ok(q) is
\* among the items that it yields.
Scan(t, q, bound) ==
    /\ tx[t].mode # "Closed"
    /\ LET matches == IF bound THEN {e \in View(t) : quad_to_ox(q) # Refused /\ e = Key(q)}
                      ELSE View(t)
       IN  Returns(t, "contains", q, q \in Yielded(matches))
    /\ UNCHANGED tx

Finish(t) ==
    /\ tx' = [tx EXCEPT ![t] = NoTx]
    /\ start' = [start EXCEPT ![t] = {}]
    /\ log' = [log EXCEPT ![t] = <<>>]

Ends(t, how) ==
    /\ Finish(t)
    /\ lock' = IF lock = t THEN Nobody ELSE lock
    /\ outcome' = IF tx[t].mode = "Write" THEN how ELSE outcome

\* What a commit means for the call of named_graphs in progress.
Watch(S) ==
    listing' = [listing EXCEPT !.held = @ \cap GraphsIn(S),
                               !.seen = IF listing.on THEN @ \cup GraphsIn(S) ELSE @]

\* Faulty variant: the commit writes back all that the transaction sees.
CommitView(t) ==
    /\ tx[t].mode = "Write"
    /\ quads' = View(t)
    /\ names' = names \cup GraphsIn(tx[t].puts)
    /\ Ends(t, "committed")
    /\ Watch(quads')
    /\ UNCHANGED kind

Commit(t) ==
    /\ tx[t].mode = "Write"
    /\ quads' = Over(quads, t)
    /\ names' = names \cup GraphsIn(tx[t].puts)
    /\ Ends(t, "committed")
    /\ Watch(quads')
    /\ UNCHANGED kind

\* Faulty variant: the writer lock is not given back.
RollbackKeepsLock(t) ==
    /\ tx[t].mode # "Closed"
    /\ Finish(t)
    /\ outcome' = IF tx[t].mode = "Write" THEN "aborted" ELSE outcome
    /\ UNCHANGED <<kind, quads, names, lock, listing>>

\* rollback, a dropped transaction, a commit that fails with an I/O error, and
\* the commit of a read-only transaction: nothing is written.
Rollback(t) ==
    /\ tx[t].mode # "Closed"
    /\ Ends(t, "aborted")
    /\ UNCHANGED <<kind, quads, names, listing>>

\* The process ends; a store on disk is opened again, or opened read-only.
Restart ==
    /\ Persistent
    /\ kind' \in Kinds
    /\ tx' = [t \in Txs |-> NoTx]
    /\ start' = [t \in Txs |-> {}]
    /\ log' = [t \in Txs |-> <<>>]
    /\ outcome' = "open"
    /\ listing' = NotListing
    /\ UNCHANGED <<quads, names, lock>>

\* A program writes to the store that `oxigraph' returns, in a transaction of
\* Oxigraph's own.
ForeignWrite(f) ==
    /\ kind # "OnDiskReadOnly"
    /\ kind = "InMemory" => lock = Nobody
    /\ quads' = quads \cup {Encode(f)}
    /\ names' = names \cup GraphsIn({Encode(f)})
    /\ outcome' = "outside"
    /\ Watch(quads')
    /\ UNCHANGED <<kind, lock, tx, start, log>>

-----------------------------------------------------------------------------
(* named_graphs: one scan for the names, then one per name *)

StartListing ==
    /\ Lists
    /\ ~listing.on
    /\ listing' = [on |-> TRUE, todo |-> names, found |-> {},
                   held |-> GraphsIn(quads), seen |-> GraphsIn(quads)]
    /\ UNCHANGED <<kind, quads, names, lock, tx, start, log, outcome>>

\* Faulty variant: a remembered name is taken for a graph that holds quads.
ListGraphUnchecked(g) ==
    /\ g \in listing.todo
    /\ listing' = [listing EXCEPT !.todo = @ \ {g}, !.found = @ \cup {g}]
    /\ UNCHANGED <<kind, quads, names, lock, tx, start, log, outcome>>

ListGraph(g) ==
    /\ g \in listing.todo
    /\ g.term = "named"
    /\ listing' = [listing EXCEPT !.todo = @ \ {g},
                                  !.found = IF g \in GraphsIn(quads) THEN @ \cup {g} ELSE @]
    /\ UNCHANGED <<kind, quads, names, lock, tx, start, log, outcome>>

\* The core model cannot name the graph: the call returns an error.
FailListing ==
    /\ \E g \in listing.todo : g.term = "blank"
    /\ listing' = NotListing
    /\ UNCHANGED <<kind, quads, names, lock, tx, start, log, outcome>>

EndListing ==
    /\ listing.on
    /\ listing.todo = {}
    /\ listing' = NotListing
    /\ UNCHANGED <<kind, quads, names, lock, tx, start, log, outcome>>

-----------------------------------------------------------------------------
Init ==
    /\ kind = IF Persistent THEN "OnDisk" ELSE "InMemory"
    /\ quads = {}
    /\ names = {}
    /\ lock = Nobody
    /\ tx = [t \in Txs |-> NoTx]
    /\ start = [t \in Txs |-> {}]
    /\ log = [t \in Txs |-> <<>>]
    /\ outcome = "open"
    /\ listing = NotListing

Transaction(t) ==
    \/ BeginRead(t) \/ BeginWrite(t)
    \/ \E q \in Quads : \/ Insert(t, q) \/ Remove(t, q) \/ Contains(t, q)
                       \/ \E bound \in BOOLEAN : Scan(t, q, bound)
    \/ Commit(t) \/ Rollback(t)

Listing == StartListing \/ (\E g \in names : ListGraph(g)) \/ FailListing \/ EndListing

Next ==
    \/ \E t \in Txs : Transaction(t)
    \/ \E f \in Foreign : ForeignWrite(f)
    \/ Restart
    \/ Listing

Spec == Init /\ [][Next]_vars

-----------------------------------------------------------------------------
(* Properties *)

\* The state keeps its shape: what is stored is the encoding of a quad that
\* insert accepts or of one that was written directly.
TypeOK ==
    /\ kind \in Kinds
    /\ quads \subseteq Encoded
    /\ names \subseteq GraphsIn(Encoded)
    /\ lock \in Txs \cup {Nobody}
    /\ tx \in [Txs -> [mode : Modes, base : SUBSET Encoded, puts : SUBSET Encoded,
                       dels : SUBSET Encoded]]
    /\ start \in [Txs -> SUBSET Contents(Encoded)]
    /\ log \in [Txs -> Seq(Calls(Quads))]
    /\ outcome \in {"open", "committed", "aborted", "outside"}

\* "Terms are stored verbatim or not at all": contains and remove find exactly
\* the quads that a scan of the same transaction yields, whoever wrote them and
\* however Oxigraph stores them.
ScanFindsWhatContainsFinds ==
    \A t \in Txs : \A q \in Quads \cup Contents(View(t)) :
        Holds(View(t), q) <=> q \in Contents(View(t))

\* "A read transaction that started before a commit keeps seeing the state it
\* started with": what the calls of a transaction returned is what they return
\* one by one from that state on, its own writes included.
SnapshotReads == \A t \in Txs : Legal(start[t], log[t])

\* In memory the open write transaction works on the latest committed state
\* and is the only one, and its lock does not outlive it.
WriterSeesLatest ==
    kind = "InMemory" =>
        \A t \in Txs : /\ tx[t].mode = "Write" <=> lock = t
                       /\ lock = t => tx[t].base = quads

\* The call changed the quad; no call of the log did; the last that did was `op'.
Changes(c, q) == c.quad = q /\ c.result /\ c.op # "contains"
Untouched(calls, q) == \A i \in DOMAIN calls : ~Changes(calls[i], q)
LastChangeIs(op, calls, q) ==
    \E i \in DOMAIN calls :
        /\ Changes(calls[i], q) /\ calls[i].op = op
        /\ \A j \in DOMAIN calls : Changes(calls[j], q) => j =< i

\* "The last commit wins per quad": a commit decides on the quads that the
\* transaction really changed, by its last change, and on no others.
LastCommitWins ==
    [][\A t \in Txs : Commit(t) =>
          \A q \in Quads :
             q \in Contents(quads') <=> IF Untouched(log[t], q) THEN q \in Contents(quads)
                                        ELSE LastChangeIs("insert", log[t], q)]_vars

\* named_graphs looks at each graph at a different moment.  Even so it lists
\* every graph that held a quad all through the call, and none that held none
\* at any time during it.
NamedGraphsInBetween ==
    listing.on /\ listing.todo = {} =>
        listing.held \subseteq listing.found /\ listing.found \subseteq listing.seen

\* In memory, write transactions are serializable.
Serial == INSTANCE SerialStore WITH
    quads <- Contents(quads),
    log <- [t \in Txs |-> IF tx[t].mode = "Write" THEN log[t] ELSE <<>>]
SerialWrites == Serial!Spec
=============================================================================
