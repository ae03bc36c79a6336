------------------------------- MODULE Values -------------------------------
(***************************************************************************)
(* What becomes of the values that a Python program hands to a Session:    *)
(* converted (PyValues), validated and laid out as quads (Record), stored  *)
(* as Oxigraph stores terms (TermConvert), and all the way back, before    *)
(* and after the enduring store has been closed and opened again.          *)
(***************************************************************************)
EXTENDS PyValues

CONSTANTS
    Batches,      \* sequences of constructor calls whose items are added together
    QueryCalls,   \* constructor calls of queries
    ForeignMeta,  \* metadata quads that another program may write
    Bounds,       \* how many items the Session may be told to hold: None, or
                  \* the number in a sequence
    MaxItems      \* bound: how many ids are given out

(* The objects that a program passes, by the fields of their types *)

Option(S) == {None} \cup {Some(x) : x \in S}
IsSeq(s) == s \in Seq(Range(s))
IsIds(s) == IsSeq(s) /\ Range(s) \subseteq Nat

IsTerm(o) ==
    /\ o.py = "str" => o = PyStr(o.str) /\ o.str \in Iris \cup Unencodable
    /\ o.py = "BlankNode" => o = PyBlankNode(o.id) /\ o.id \in Labels
    /\ o.py = "Literal" =>
          /\ o = PyLiteral(o.value, o.datatype, o.language)
          /\ o.value \in Lexicals \cup Unencodable
          /\ o.datatype \in Option(Iris \cup Unencodable)
          /\ o.language \in Option(Tags \cup Unencodable)

IsTriple(o) == o.py = "tuple" =>
    o = PyTuple(o.items) /\ IsSeq(o.items) /\ \A i \in DOMAIN o.items : IsTerm(o.items[i])

IsNode(o) ==
    /\ o.py = "None" => o = PyNone
    /\ o.py = "bool" => o = PyBool(o.bool)
    /\ o.py = "int" => o = PyInt(o.int)
    /\ o.py = "float" => o = PyFloat(o.float)
    /\ o.py = "str" => o = PyStr(o.str)
    /\ o.py \in {"list", "tuple", "dict"} => o = [py |-> o.py]

IsStep(s) ==
    /\ s = [at |-> s.at, key |-> s.key]
    /\ s.at \in Nat
    /\ s.key # None =>
          s.key = Some(s.key[1]) /\ (s.key[1].py = "str" => s.key[1] = PyStr(s.key[1].str))

\* A finite tree: a part lies in a part.
IsBody(body) ==
    /\ IsFiniteSet(DOMAIN body)
    /\ \A path \in DOMAIN body :
          /\ IsNode(body[path])
          /\ IsSeq(path)
          /\ \A i \in DOMAIN path : IsStep(path[i]) /\ SubSeq(path, 1, i) \in DOMAIN body

IsSource(o) == o.py = "Provenance" =>
    LET p == o.provenance
    IN  p = Provenance(p.source, p.derived_from) /\ IsIds(p.derived_from)

IsCall(call) ==
    /\ call.ctor \in {"from_triples", "event", "chunk"}
    /\ call.ctor = "from_triples" /\ Iterates(call.triples) =>
          LET triples == Iterated(call.triples)
          IN  IsSeq(triples) /\ \A i \in DOMAIN triples : IsTriple(triples[i])
    /\ call.ctor = "event" => IsBody(call.body)
    /\ IsSource(call.provenance)
    /\ call.with_provenance # None =>
          call.with_provenance = Some(call.with_provenance[1]) /\ IsSource(call.with_provenance[1])
    /\ call.scope_hint \in Scopes \cup {NoScope}
    /\ call.embedding # None =>
          call.embedding = Some(call.embedding[1]) /\ IsSeq(call.embedding[1])

IsScope(o) == o.py = "ContextScope" => o = PyScope(o.scope)

IsQuery(call) ==
    /\ call.kind \in {"pattern", "sparql", "similarity", "inference"}
    /\ IsTerm(call.subject) /\ IsTerm(call.predicate) /\ IsTerm(call.object)
    /\ call.scopes.py = "None" => call.scopes = PyNone
    /\ IsScope(call.scopes)
    /\ Iterates(call.scopes) =>
          LET scopes == Iterated(call.scopes)
          IN  IsSeq(scopes) /\ \A i \in DOMAIN scopes : IsScope(scopes[i])

\* u64's Display writes what from_str reads, and every such IRI is well-formed.
ASSUME ValuesAssumption ==
    /\ MaxItems \in Nat
    /\ \A s \in Spellings : ParseU64(s) # None =>
          ParseU64(s) = Some(ParseU64(s)[1]) /\ ParseU64(s)[1] \in Nat
    /\ \A s, t \in Spellings : ITEM_PREFIX \o s = ITEM_PREFIX \o t => s = t
    /\ \A id \in 0 .. MaxItems - 1 :
          /\ ToString(id) \in Spellings
          /\ ParseU64(ToString(id)) = Some(id)
          /\ ITEM_PREFIX \o ToString(id) \in ValidIris
    /\ \A batch \in Batches : IsSeq(batch) /\ \A i \in DOMAIN batch : IsCall(batch[i])
    /\ \A call \in QueryCalls : IsQuery(call)
    /\ "string" \in Iris /\ LangString \in Iris

-----------------------------------------------------------------------------
VARIABLES
    data, meta,      \* the enduring store: item graphs, as Oxigraph encodes their
                     \* quads, and the metadata graph
    foreign,         \* history: another program wrote to the store
    open,            \* whether a Session is open
    items, next_id,  \* the Session's index
    bound,           \* its setting: how many items it may hold
    add,             \* the add_batch that is running, if one is, in a sequence
    given,           \* history: the constructor call of each item
    raised           \* the exception of the last call, if it raised one, and
                     \* history: whether the Session or a conversion raised it

store == <<data, meta>>
index == <<open, items, next_id>>
vars == <<data, meta, foreign, open, items, next_id, bound, add, given, raised>>

NoItems == [id \in {} |-> 0]

\* The Session's lock is free.
Ready == open /\ add = None

\* A call that raises, and does nothing else.
Fails(r, where) ==
    /\ raised' = Some([exception |-> r.raised, where |-> where])
    /\ UNCHANGED <<data, meta, foreign, open, items, next_id, bound, add, given>>

-----------------------------------------------------------------------------
(* Adding items *)

\* The items of a batch, or the first exception of a constructor.
Built(batch) == Collect([i \in DOMAIN batch |-> Build(batch[i])])

\* The first reason to refuse an item of the batch, in a sequence.
Invalid(batch) ==
    LET bad == {i \in DOMAIN batch : validate(items, batch[i]) # None}
    IN  IF bad = {} THEN None ELSE validate(items, batch[Min(bad)])

\* What the i-th item of a batch writes, as the core model has it.
QuadsOf(batch, i) == IF i \in DOMAIN batch THEN encode(next_id + i - 1, batch[i]).data ELSE {}
RecordOf(batch, i) == encode(next_id + i - 1, batch[i]).meta

\* An add_batch in its write transaction: what the transaction sees, the item
\* whose quads are being inserted, and those of its graph that are left.
Running(calls, tx_data, tx_meta, item, left) ==
    Some([calls |-> calls, inserting |-> TRUE, data |-> tx_data, meta |-> tx_meta,
          item |-> item, left |-> left])

\* add_batch converts, validates and begins a write transaction.
AddBatch(calls) ==
    /\ Ready
    /\ next_id + Len(calls) =< MaxItems
    /\ LET built == Built(calls) IN
       IF ~IsOk(built) THEN Fails(built, "conversion")
       ELSE IF Invalid(built.ok) # None
       THEN Fails(to_py_err([error |-> Invalid(built.ok)[1]]), "session")
       ELSE /\ add' = Running(calls, data, meta, 1, QuadsOf(built.ok, 1))
            /\ raised' = None
            /\ UNCHANGED <<data, meta, foreign, open, items, next_id, bound, given>>

\* The call that is running, and its batch.
Call == add[1]
Batch == Built(Call.calls).ok

Inserting == open /\ add # None /\ Call.inserting

\* insert_all: the next quad of an item's graph, in the transaction.
InsertQuad(q) ==
    /\ Inserting
    /\ q \in Call.left
    /\ quad_to_ox(q) # Refused
    /\ add' = Running(Call.calls, Call.data \cup {Encode(quad_to_ox(q))}, Call.meta,
                       Call.item, Call.left \ {q})
    /\ UNCHANGED <<data, meta, foreign, open, items, next_id, bound, given, raised>>

\* insert_all: the item's metadata quad, the last that encode lists; then comes
\* the next item.
InsertRecord ==
    /\ Inserting
    /\ Call.left = {} /\ Call.item =< Len(Batch)
    /\ add' = Running(Call.calls, Call.data, Call.meta \cup {RecordOf(Batch, Call.item)},
                       Call.item + 1, QuadsOf(Batch, Call.item + 1))
    /\ UNCHANGED <<data, meta, foreign, open, items, next_id, bound, given, raised>>

\* Faulty variant: what was inserted before the error is committed.
RefusedCommits ==
    /\ Inserting
    /\ \E q \in Call.left : quad_to_ox(q) = Refused
    /\ data' = Call.data /\ meta' = Call.meta
    /\ add' = None
    /\ raised' = Some([exception |-> "StorageError", where |-> "session"])
    /\ UNCHANGED <<foreign, open, items, next_id, bound, given>>

\* with_write: the store refuses a quad, and the transaction is rolled back.
InsertRefused ==
    /\ Inserting
    /\ \E q \in Call.left : quad_to_ox(q) = Refused
    /\ add' = None
    /\ raised' = Some([exception |-> to_py_err([error |-> "Storage"]).raised, where |-> "session"])
    /\ UNCHANGED <<data, meta, foreign, open, items, next_id, bound, given>>

\* with_write commits, and the index takes the batch.
CommitBatch ==
    LET at(id) == id - next_id + 1
        ids == next_id .. next_id + Len(Batch) - 1
    IN  /\ Inserting
        /\ Call.item = Len(Batch) + 1
        /\ data' = Call.data /\ meta' = Call.meta
        /\ items' = [id \in ids \cup DOMAIN items |->
                       IF id \in ids THEN Batch[at(id)] ELSE items[id]]
        /\ next_id' = next_id + Len(Batch)
        /\ given' = [id \in ids \cup DOMAIN given |->
                       IF id \in ids THEN Call.calls[at(id)] ELSE given[id]]
        /\ add' = Some([calls |-> Call.calls, inserting |-> FALSE])
        /\ UNCHANGED <<foreign, open, bound, raised>>

\* delete: the item's graph and its metadata quad, in one transaction; then the
\* index forgets it.
Deletes(id) ==
    /\ id \in DOMAIN items
    /\ data' = {e \in data : e.graph # item_graph(id)}
    /\ meta' = {m \in meta : m.subject # item_graph(id)}
    /\ items' = [i \in DOMAIN items \ {id} |-> items[i]]
    /\ given' = [i \in DOMAIN given \ {id} |-> given[i]]
    /\ UNCHANGED <<foreign, open, next_id, bound>>

Enforcing == open /\ add # None /\ ~Call.inserting
OverBound == bound # None /\ Cardinality(DOMAIN items) > bound[1]

\* enforce_bounds: no tier is colder, so a victim is dropped.  Which items are
\* the victims is Session's matter.
DropItem(id) ==
    /\ Enforcing
    /\ OverBound
    /\ Deletes(id)
    /\ UNCHANGED <<add, raised>>

AddReturns ==
    /\ Enforcing
    /\ ~OverBound
    /\ add' = None
    /\ raised' = None
    /\ UNCHANGED <<data, meta, foreign, open, items, next_id, bound, given>>

\* A transaction of add_batch or of remove fails.  The index and the store stay
\* as the transactions before it left them: once the insert has been committed,
\* add_batch raises although its items were added.
StorageFails ==
    /\ open
    /\ add # None \/ DOMAIN items # {}
    /\ Enforcing => OverBound
    /\ add' = None
    /\ raised' = Some([exception |-> to_py_err([error |-> "Storage"]).raised, where |-> "session"])
    /\ UNCHANGED <<data, meta, foreign, open, items, next_id, bound, given>>

\* remove, of an item in the scope that it names.
RemoveItem(id) ==
    /\ Ready
    /\ Deletes(id)
    /\ raised' = None
    /\ UNCHANGED add

-----------------------------------------------------------------------------
(* Queries *)

\* quads_for_pattern: a term that Oxigraph cannot hold matches nothing.
Matching(pattern) ==
    {e \in data :
        /\ pattern.subject # None => e.subject = subject_to_ox(pattern.subject[1])
        /\ pattern.predicate # None => e.predicate = named_to_ox(pattern.predicate[1])
        /\ pattern.object # None => LET o == term_to_ox(pattern.object[1])
                                    IN  o # Refused /\ e.object = EncodeTerm(o)}

\* Session::query in the enduring tier: the ids that it returns, or why it fails.
Ask(q) ==
    LET missing == IF q.kind = "sparql" THEN Some("Sparql")
                   ELSE IF q.kind = "similarity" THEN Some("AnnIndex")
                   ELSE IF q.kind = "inference" \/ q.reasoner_hint # NoScope
                   THEN Some("OwlElReasoner") ELSE None
        found == (UNION {parse_item_graph(e.graph) : e \in Matching(q.pattern)}) \cap DOMAIN items
        hits == IF Enduring \in SelectedScopes(q.scopes) THEN found ELSE {}
        \* truncate: the ids come in ascending order.
        within(id) == q.limit = None \/ Cardinality({h \in hits : h < id}) < q.limit[1]
    IN  IF missing # None THEN to_py_err([error |-> "NotYetImplemented", what |-> missing[1]])
        ELSE Ok({id \in hits : within(id)})

Answer(call) == IF IsOk(Query(call)) THEN Ask(Query(call).ok) ELSE Query(call)

FailedQuery(call) ==
    /\ Ready
    /\ ~IsOk(Answer(call))
    /\ Fails(Answer(call), IF IsOk(Query(call)) THEN "session" ELSE "conversion")

\* reason, validate and evaluate_datalog have nothing behind them yet.
Unavailable(e) ==
    /\ Ready
    /\ Fails(to_py_err(e), "session")

Unimplemented == {[error |-> "NotYetImplemented", what |-> "OwlElReasoner"],
                  [error |-> "PremiumOnly", which |-> "ShaclUnavailable"],
                  [error |-> "PremiumOnly", which |-> "DatalogUnavailable"]}

-----------------------------------------------------------------------------
(* Closing and opening *)

\* close; or the process dies, in the middle of an add_batch as well.
Close ==
    /\ open
    /\ open' = FALSE
    /\ items' = NoItems
    /\ next_id' = 0
    /\ add' = None
    /\ raised' = None
    /\ UNCHANGED <<data, meta, foreign, bound, given>>

\* Of several records of one id, the one that the scan yields first counts.  A
\* bound is not enforced before the next add_batch.
Open ==
    /\ ~open
    /\ IF Loads(data, meta)
       THEN LET loaded == load(data, meta)
                ids == {r.id : r \in loaded}
            IN  /\ \E choice \in [ids -> loaded] :
                      /\ \A id \in ids : choice[id].id = id
                      /\ items' = [id \in ids |-> choice[id].item]
                /\ open' = TRUE
                /\ next_id' = Max({-1} \cup ids) + 1
                /\ bound' \in Bounds
                /\ raised' = None
                /\ UNCHANGED <<data, meta, foreign, add, given>>
       ELSE Fails(to_py_err([error |-> "Corrupt"]), "session")

\* Another program writes a metadata quad; bound: one.
ForeignWrite(m) ==
    /\ ~open
    /\ ~foreign
    /\ meta' = meta \cup {m}
    /\ foreign' = TRUE
    /\ raised' = None
    /\ UNCHANGED <<data, open, items, next_id, bound, add, given>>

Init ==
    /\ data = {} /\ meta = {} /\ foreign = FALSE
    /\ open = TRUE /\ items = NoItems /\ next_id = 0
    /\ bound \in Bounds /\ add = None
    /\ given = NoItems
    /\ raised = None

Next ==
    \/ \E calls \in Batches : AddBatch(calls)
    \/ Inserting /\ \E q \in Call.left : InsertQuad(q)
    \/ InsertRecord \/ InsertRefused \/ CommitBatch
    \/ \E id \in DOMAIN items : DropItem(id)
    \/ AddReturns \/ StorageFails
    \/ \E id \in DOMAIN items : RemoveItem(id)
    \/ \E call \in QueryCalls : FailedQuery(call)
    \/ \E e \in Unimplemented : Unavailable(e)
    \/ Close \/ Open
    \/ \E m \in ForeignMeta : ForeignWrite(m)

Spec == Init /\ [][Next]_vars

-----------------------------------------------------------------------------
(* Properties *)

\* What a body means to a JSON reader: a tuple is a list, a dict a mapping.
Meaning(body) ==
    LET step(s) == IF s.key = None THEN At(s.at) ELSE Under(0, s.key[1])
        node(o) == IF o.py = "tuple" THEN [py |-> "list"] ELSE o
    IN  {<<[i \in DOMAIN p |-> step(p[i])], node(body[p])>> : p \in DOMAIN body}

\* The body with each float as serde_json reads it from its own text.
Reparsed(body) == [p \in DOMAIN body |-> IF body[p].py = "float"
                                         THEN PyFloat(Reparse(body[p].float)) ELSE body[p]]

\* Equality of Python terms: Literal(v) is an xsd:string.
SameTerm(o) == IF o.py = "Literal" /\ o.datatype = None /\ o.language = None
               THEN PyLiteral(o.value, Some("string"), None) ELSE o
SameTriple(t) == [i \in DOMAIN t.items |-> SameTerm(t.items[i])]

\* An item shows what its constructor was given: the triples as a set, the body
\* as JSON means it (True stays a bool, 1.0 a float, an int its value), the
\* source and the citations, the scope hint, and the embedding in single
\* precision; before the store is closed and after it is opened again.
ReadBack ==
    open /\ ~foreign =>
      \A id \in DOMAIN items :
        LET shown == Shown(items[id])
            call == given[id]
            source == IF call.with_provenance # None THEN call.with_provenance[1]
                      ELSE call.provenance
        IN  /\ shown.payload_type = (IF call.ctor = "from_triples" THEN "triples" ELSE call.ctor)
            /\ call.ctor = "from_triples" =>
                  {SameTriple(t) : t \in Range(shown.triples[1])}
                      = {SameTriple(t) : t \in Range(Iterated(call.triples))}
            /\ call.ctor = "event" =>
                  /\ shown.event_kind = Some(call.kind)
                  /\ Meaning(shown.event_body[1]) \in {Meaning(call.body),
                                                      Meaning(Reparsed(call.body))}
            /\ call.ctor = "chunk" =>
                  shown.content = Some(call.content) /\ shown.content_type = Some(call.content_type)
            /\ shown.provenance = (IF source.py = "str" THEN Provenance(source.str, <<>>)
                                   ELSE source.provenance)
            /\ shown.scope_hint = call.scope_hint
            /\ shown.embedding = ToF32(call.embedding)

\* "The layout lets a Session rebuild its index from a persistent store on
\* open": no item that was accepted makes a later open fail as corrupt.
Reopens == ~foreign => Loads(data, meta)

\* "So one id has one IRI": while a Session is open every metadata quad belongs
\* to an item of its index, so that removing the items leaves nothing behind
\* that comes back as one of them; another program's spelling of an id is
\* refused at open.
NoStrayMetadata == open => \A m \in meta : parse_item_graph(m.subject) \cap DOMAIN items # {}

\* A pattern finds the items that show a triple with the terms of the pattern,
\* by the equality of the Python objects, and no others.
QueryFindsWhatIsShown ==
    open /\ ~foreign =>
      \A call \in QueryCalls :
        IsOk(Answer(call)) /\ call.limit = None =>
          Answer(call).ok =
            {id \in DOMAIN items :
               /\ call.scopes = PyNone \/ PyScope(Enduring) \in
                     (IF Iterates(call.scopes) THEN Range(Iterated(call.scopes)) ELSE {call.scopes})
               /\ items[id].payload.type = "triples"
               /\ \E t \in Range(Shown(items[id]).triples[1]) :
                     \A i \in 1 .. 3 :
                        LET asked == <<call.subject, call.predicate, call.object>>[i]
                        IN  asked = PyNone \/ SameTerm(asked) = SameTerm(t.items[i])}

\* What the store has of an item that was added by a call.
WrittenBy(id, call) ==
    LET quads == encode(id, Build(call).ok)
    IN  [data |-> {Encode(quad_to_ox(q)) : q \in quads.data}, meta |-> quads.meta]

\* "Either every item is added or none is": new items come as one whole batch,
\* and after every step, a refused quad, a failing transaction, an eviction that
\* fails with the batch already committed and the death of the process among
\* them, the store has all quads of every item that was added and not removed,
\* and no others; an open Session has those items in its index.
AddsAllOrNothing ==
    [][/\ \/ DOMAIN given' \subseteq DOMAIN given
          \/ /\ add # None
             /\ DOMAIN given' = DOMAIN given \cup (next_id .. next_id + Len(Call.calls) - 1)
       /\ ~foreign' =>
             /\ data' = UNION {WrittenBy(id, given'[id]).data : id \in DOMAIN given'}
             /\ meta' = {WrittenBy(id, given'[id]).meta : id \in DOMAIN given'}
             /\ open' => DOMAIN items' = DOMAIN given'
      ]_vars

\* "Base class for every error raised by a Session": `except SessionError'
\* catches whatever a Session raises, on every path through it, and no error of
\* an argument's type or value.
SessionErrorCatches ==
    raised # None =>
        (Catches("SessionError", raised[1].exception) <=> raised[1].where = "session")
=============================================================================
