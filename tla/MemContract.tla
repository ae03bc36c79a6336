---------------------------- MODULE MemContract ----------------------------
(***************************************************************************)
(* The checks of the storage contract, run against MemStore; or threads    *)
(* that call MemStore freely.                                              *)
(***************************************************************************)
EXTENDS MemStore
C == INSTANCE Contract

CONSTANTS
    Base,        \* the lists of quads that the checks are run with
    Positions,   \* the sets of positions that their patterns bind
    Nowhere,     \* a quad of a graph that no check writes to
    FreeQuads,   \* bound: the quads of calls made freely
    FreeOps,     \* bound: calls on one transaction, when called freely
    FreeVersion  \* bound: successful commits, when called freely

ASSUME ContractAssumption ==
    /\ {1, 2} \subseteq Txs
    /\ Base \subseteq Seq(Quads)

VARIABLES
    script,      \* the check that runs: its threads, the main one last
    pc,          \* how many of its calls each of them has made
    wrong        \* the calls whose result the check refuses

cvars == <<version, quads, tx, log, outcome, start, script, pc, wrong>>

Free == <<>>

\* What MemStore's capabilities say: its readers see a snapshot.
SnapshotIsolation == TRUE

\* One triple in the default graph and in two others, but not in Nowhere's.
OneTriple(q) ==
    /\ \A i \in 1 .. 3 : \A f \in {"subject", "predicate", "object"} : q[i][f] = q[1][f]
    /\ q[1].graph = C!Default
    /\ Cardinality({q[1].graph, q[2].graph, q[3].graph, Nowhere.graph}) = 4

\* The positions, in order, that a mask lets through.
Marked(b) ==
    UNION {{at \in [1 .. n -> DOMAIN b] : \A i, j \in 1 .. n : i < j => at[i] < at[j]} :
             n \in 0 .. Len(b)}

\* The checks that are run with a pattern, with one list of quads, with two
\* of them, and with examples.
PatternChecks(b, bound) ==
    {<<C!pattern(b, C!Like(q, bound))>> : q \in Quads \cup {Nowhere}}
    \cup {<<C!pattern_from_member(b, q, bound)>> : q \in C!Range(b)}

ChecksOf(b) ==
    {<<C!round_trip(b)>>, <<C!idempotent_insert(b)>>, <<C!named_graphs(b)>>}
    \cup {<<C!delete_after_insert(b, q)>> : q \in Quads}
    \cup {<<C!read_only_rejects_writes(b, q)>> : q \in Quads}
    \cup {<<C!named_graphs_track_removals(b, at)>> : at \in Marked(b)}
    \cup UNION {PatternChecks(b, bound) : bound \in Positions}

ChecksOfTwo(b, w) ==
    {<<C!rollback_and_isolation(b, w)>>, <<C!drop_discards_writes(b, w)>>,
     <<C!snapshot_reads(SnapshotIsolation, b, w)>>}

Examples ==
    {<<C!empty_store_is_empty>>}
    \cup {<<C!graphs_are_separate(q[1], q[2], q[3], Nowhere)>> :
            q \in {s \in [1 .. 3 -> Quads] : OneTriple(s)}}
    \cup {<<C!writes_after_rollback(q[1], q[2], q[3])>> :
            q \in {s \in [1 .. 3 -> Quads] : Cardinality(C!Range(s)) = 3}}

ListChecks == UNION {ChecksOf(b) : b \in Base}
PairChecks == UNION {ChecksOfTwo(b[1], b[2]) : b \in Base \X Base}
ThreadChecks == {C!shareable_across_threads(b) : b \in {w \in Base : C!IsInjective(w)}}

\* What the suite! macro and the strategies feed the checks with.
Scripts == ListChecks \cup PairChecks \cup Examples \cup ThreadChecks

-----------------------------------------------------------------------------

\* The store makes call c and returns `result'.
Returned(result, c) ==
    wrong' = IF result \in c.accepts THEN wrong ELSE wrong \cup {c}

Told(c) == Returned(C!Bit(log'[c.tx][Len(log'[c.tx])].result), c)

Reads(c, result) == Returned(result, c) /\ UNCHANGED vars

Performs(c) ==
    \/ c.op = "begin_read" /\ BeginRead(c.tx) /\ Returned("ok", c)
    \/ c.op = "begin_write" /\ BeginWrite(c.tx) /\ Returned("ok", c)
    \/ c.op = "insert" /\ Insert(c.tx, c.quad) /\ Told(c)
    \/ c.op = "remove" /\ Remove(c.tx, c.quad) /\ Told(c)
    \/ c.op \in {"insert", "remove"} /\ tx[c.tx].open /\ ~tx[c.tx].writable /\ Reads(c, "error")
    \/ c.op = "contains" /\ Contains(c.tx, c.quad) /\ Told(c)
    \/ c.op = "scan" /\ Reads(c, quads_for_pattern(c.tx, c.pattern))
    \/ c.op = "commit" /\ Commit(c.tx) /\ Returned("ok", c)
    \/ c.op = "commit" /\ Conflict(c.tx) /\ Returned("conflict", c)
    \/ c.op = "commit" /\ ~tx[c.tx].writable /\ Rollback(c.tx) /\ Returned("ok", c)
    \/ c.op \in {"rollback", "drop"} /\ Rollback(c.tx) /\ Returned("ok", c)
    \/ c.op = "quad_count" /\ Reads(c, quad_count)
    \/ c.op = "named_graphs" /\ Reads(c, named_graphs)

Ended(i) == pc[i] = Len(script[i])

\* The main thread goes on when the threads it has spawned have ended.
Thread(i) ==
    /\ ~Ended(i)
    /\ i = Len(script) => \A j \in 1 .. i - 1 : Ended(j)
    /\ Performs(script[i][pc[i] + 1])
    /\ pc' = [pc EXCEPT ![i] = @ + 1]
    /\ UNCHANGED script

AnyCall ==
    /\ script = Free
    /\ Next
    /\ version' =< FreeVersion
    /\ \A t \in Txs : /\ Len(log'[t]) =< FreeOps
                     /\ \A i \in DOMAIN log'[t] : log'[t][i].quad \in FreeQuads
    /\ UNCHANGED <<script, pc, wrong>>

Passed ==
    /\ script # Free
    /\ \A i \in DOMAIN script : Ended(i)
    /\ UNCHANGED cvars

ContractInit ==
    /\ Init
    /\ script \in Scripts \cup {Free}
    /\ pc = [i \in DOMAIN script |-> 0]
    /\ wrong = {}

ContractNext == AnyCall \/ (\E i \in DOMAIN script : Thread(i)) \/ Passed

ContractSpec == ContractInit /\ [][ContractNext]_cvars

-----------------------------------------------------------------------------
(* Properties *)

\* MemStore meets the contract: every call of every check returns what the
\* check accepts, in every interleaving of its threads.
ContractHolds == wrong = {}
=============================================================================
