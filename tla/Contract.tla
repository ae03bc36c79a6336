------------------------------ MODULE Contract ------------------------------
(***************************************************************************)
(* The storage contract (semanticore-storage-testkit/src/contract.rs).     *)
(*                                                                         *)
(* A check is a script: for each of its threads, the sequence of calls     *)
(* that the thread makes on a fresh store, each with the set of results    *)
(* that the check accepts.  Scripts say nothing of how the store works.    *)
(***************************************************************************)
EXTENDS SequencesExt

\* A call on transaction t, or on the store.
Call(op, t, accepts) == [op |-> op, tx |-> t, accepts |-> accepts]
On(op, t, q, accepts) == [op |-> op, tx |-> t, accepts |-> accepts, quad |-> q]
Scan(t, pattern, found) == [op |-> "scan", tx |-> t, accepts |-> {found}, pattern |-> pattern]

BeginRead(t) == Call("begin_read", t, {"ok"})
BeginWrite(t) == Call("begin_write", t, {"ok"})
Commit(t) == Call("commit", t, {"ok"})
Rollback(t) == Call("rollback", t, {"ok"})
Drop(t) == Call("drop", t, {"ok"})
Count(n) == Call("quad_count", 0, {n})
Graphs(gs) == Call("named_graphs", 0, {gs})

\* insert, remove and contains return "true", "false" or an "error".
Bit(b) == IF b THEN "true" ELSE "false"
Done == {"true", "false"}
Each(op, t, quads, accepts(_)) == [i \in DOMAIN quads |-> On(op, t, quads[i], accepts(i))]
All(op, t, quads) == Each(op, t, quads, LAMBDA i : Done)

-----------------------------------------------------------------------------
(* Helpers *)

\* A pattern binds some of the positions, to what q has there.
Wildcard == [bound |-> {}]
Like(q, positions) == [bound |-> positions, quad |-> q]
matches_pattern(q, pattern) == \A f \in pattern.bound : q[f] = pattern.quad[f]

all_quads(t, quads) == Scan(t, Wildcard, quads)

committed(t, quads) == <<BeginRead(t), all_quads(t, quads), Rollback(t)>>

load(t, quads) == <<BeginWrite(t)>> \o All("insert", t, quads) \o <<Commit(t)>>

unload(t, quads) == <<BeginWrite(t)>> \o All("remove", t, quads) \o <<Commit(t)>>

Default == "default graph"
graphs_of(quads) == {q.graph : q \in quads} \ {Default}

First(quads) == IF quads = <<>> THEN <<>> ELSE <<quads[1]>>

-----------------------------------------------------------------------------
(* Checks of generated quads *)

round_trip(quads) ==
    load(1, quads) \o <<BeginRead(1)>> \o Each("contains", 1, quads, LAMBDA i : {"true"})
    \o <<all_quads(1, Range(quads)), Rollback(1), Count(Cardinality(Range(quads)))>>

idempotent_insert(quads) ==
    LET new(i) == {Bit(quads[i] \notin Range(SubSeq(quads, 1, i - 1)))}
        again(i) == {"false"}
    IN  <<BeginWrite(1)>> \o Each("insert", 1, quads, new) \o <<Commit(1)>>
        \o committed(1, Range(quads))
        \o <<BeginWrite(1)>> \o Each("insert", 1, quads, again) \o <<Commit(1)>>
        \o committed(1, Range(quads)) \o <<Count(Cardinality(Range(quads)))>>

delete_after_insert(base, extra) ==
    LET before == Range(base)
        was_present == extra \in before
        across == load(1, <<extra>>)
                  \o <<BeginWrite(1), On("remove", 1, extra, {"true"}), Commit(1)>>
                  \o committed(1, before)
    IN  load(1, base) \o committed(1, before)
        \o <<BeginWrite(1), On("insert", 1, extra, {Bit(~was_present)}),
             On("remove", 1, extra, {"true"}), On("contains", 1, extra, {"false"}), Commit(1)>>
        \o committed(1, before \ {extra})
        \o load(1, base) \o committed(1, before)
        \o (IF was_present THEN <<>> ELSE across)
        \o <<BeginWrite(1)>>
        \o (IF was_present THEN <<>> ELSE <<On("remove", 1, extra, {"false"})>>)
        \o <<Rollback(1)>> \o committed(1, before)

pattern(quads, p) ==
    load(1, quads)
    \o <<BeginRead(1), Scan(1, p, {q \in Range(quads) : matches_pattern(q, p)}), Drop(1)>>

\* pattern_from_member: a quad is found by any of its own terms.
pattern_from_member(quads, q, positions) ==
    load(1, quads)
    \o <<BeginRead(1),
         [op |-> "scan", tx |-> 1, pattern |-> Like(q, positions),
          accepts |-> {S \in SUBSET Range(quads) : q \in S}],
         Drop(1)>>

rollback_and_isolation(base, writes) ==
    LET before == Range(base)
        write(q) == <<On("insert", 1, q, Done), On("contains", 1, q, {"true"})>>
        erase(q) == <<On("remove", 1, q, Done), On("contains", 1, q, {"false"})>>
    IN  load(1, base) \o committed(1, before)
        \o <<BeginWrite(1)>> \o FlattenSeq([i \in DOMAIN writes |-> write(writes[i])])
        \o (IF base = <<>> THEN <<>> ELSE erase(base[1]))
        \o <<all_quads(1, (before \cup Range(writes)) \ Range(First(base)))>>
        \o committed(2, before) \o <<Rollback(1)>> \o committed(1, before)

drop_discards_writes(base, writes) ==
    load(1, base) \o committed(1, Range(base))
    \o <<BeginWrite(1)>> \o All("insert", 1, writes) \o All("remove", 1, base) \o <<Drop(1)>>
    \o committed(1, Range(base)) \o <<Count(Cardinality(Range(base)))>>

read_only_rejects_writes(base, q) ==
    LET before == Range(base)
    IN  load(1, base) \o committed(1, before)
        \o <<BeginRead(1), On("insert", 1, q, {"error"}), On("remove", 1, q, {"error"}),
             On("contains", 1, q, {Bit(q \in before)}), all_quads(1, before), Commit(1)>>
        \o committed(1, before)
        \o <<BeginRead(1)>> \o Each("remove", 1, First(base), LAMBDA i : {"error"}) \o <<Rollback(1)>>
        \o committed(1, before)

named_graphs(quads) == load(1, quads) \o <<Graphs(graphs_of(Range(quads)))>>

\* `at': the positions, in order, of the quads that are removed again.
named_graphs_track_removals(quads, at) ==
    LET removed == [i \in DOMAIN at |-> quads[at[i]]]
        remaining == Range(quads) \ Range(removed)
    IN  load(1, quads) \o unload(1, removed) \o committed(1, remaining)
        \o <<Graphs(graphs_of(remaining)), Count(Cardinality(remaining))>>

\* `snapshot': the store says that it isolates its transactions.
snapshot_reads(snapshot, base, writes) ==
    LET before == Range(base)
        after == (before \cup Range(writes)) \ Range(First(base))
        again == <<all_quads(2, before)>>
                 \o Each("contains", 2, writes, LAMBDA i : {Bit(writes[i] \in before)})
    IN  load(1, base) \o committed(1, before)
        \o <<BeginRead(2), all_quads(2, before), BeginWrite(1)>> \o All("insert", 1, writes)
        \o All("remove", 1, First(base)) \o <<Commit(1)>> \o committed(1, after)
        \o (IF snapshot THEN again ELSE <<>>) \o <<Rollback(2)>>

-----------------------------------------------------------------------------
(* Checks of examples *)

empty_store_is_empty == <<Count(0), Graphs({})>> \o committed(1, {})

\* One triple in the default graph and in two named ones.
graphs_are_separate(qd, q1, q2, nowhere) ==
    load(1, <<qd, q1, q2>>) \o <<Count(3), BeginRead(1)>>
    \o <<Scan(1, Like(qd, {"graph"}), {qd}), Scan(1, Like(q1, {"graph"}), {q1}),
         Scan(1, Like(nowhere, {"graph"}), {}),
         Scan(1, Like(qd, {"subject", "predicate", "object"}), {qd, q1, q2}), Rollback(1),
         Graphs({q1.graph, q2.graph})>>
    \o unload(1, <<q1>>) \o committed(1, {qd, q2}) \o <<Graphs({q2.graph})>>

writes_after_rollback(a, b, c) ==
    <<BeginWrite(1), On("insert", 1, a, Done), Rollback(1)>>
    \o <<BeginWrite(1), On("insert", 1, b, Done), Drop(1)>>
    \o <<BeginWrite(1), On("insert", 1, c, {"true"}), Commit(1)>> \o committed(1, {c})

\* A writer and a reader (the code has four) share the store; the main thread
\* counts when both have ended.
shareable_across_threads(quads) ==
    LET look == <<BeginRead(2),
                  [op |-> "scan", tx |-> 2, pattern |-> Wildcard, accepts |-> SUBSET Range(quads)],
                  Rollback(2)>>
    IN  <<FlattenSeq([i \in DOMAIN quads |-> load(1, <<quads[i]>>)]),
          FlattenSeq([i \in DOMAIN quads |-> look]),
          <<Count(Len(quads))>>>>
=============================================================================
