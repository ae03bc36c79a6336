---------------------------- MODULE Transactions ----------------------------
(***************************************************************************)
(* What the StorageTransaction trait promises of one transaction           *)
(* (semanticore-core/src/storage.rs), about the log of the calls made on   *)
(* it.  A call is recorded with the Boolean it returned.                   *)
(***************************************************************************)
EXTENDS Naturals, Sequences

Operations == {"insert", "remove", "contains"}

Calls(Quads) == [op : Operations, quad : Quads, result : BOOLEAN]

\* The set of quads after a call on a transaction that sees S.
After(S, c) == CASE c.op = "insert" -> S \cup {c.quad}
                 [] c.op = "remove" -> S \ {c.quad}
                 [] c.op = "contains" -> S

\* insert: "true if the store's state changed (the quad was newly added)";
\* remove: "the quad was present and got removed"; contains: "honoring
\* read-your-writes".
Promised(S, c) == c.result = (IF c.op = "insert" THEN c.quad \notin S ELSE c.quad \in S)

\* No call after the i-th, up to the n-th, removes the quad.
Stays(q, log, i, n) == \A j \in i + 1 .. n : ~(log[j].op = "remove" /\ log[j].quad = q)

\* What a transaction that began with S sees after the first n calls: what was
\* there or has been inserted and was not removed later.  CommonProofs
\* shows that this applies After to one call at a time.
ReplayTo(S, log, n) ==
    {q \in S : Stays(q, log, 0, n)}
    \cup {log[i].quad : i \in {i \in 1 .. n : log[i].op = "insert"
                                             /\ Stays(log[i].quad, log, i, n)}}

Replay(S, log) == ReplayTo(S, log, Len(log))

\* The calls returned what they return when made one by one from S on.
Legal(S, log) == \A i \in DOMAIN log : Promised(ReplayTo(S, log, i - 1), log[i])
=============================================================================
