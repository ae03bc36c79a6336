------------------------------ MODULE MCValues ------------------------------
(* Small instances of Values for TLC: Python objects of every type that a    *)
(* conversion tells apart, at the edges of what it accepts.                  *)
EXTENDS Values

\* Terms, as in MCOxStore: "1" and "01" are the same integer.
MCSpellings == {"0", "1", "2", "01", "+1", "x"}
MCParseU64(s) == CASE s = "0" -> Some(0)
                   [] s \in {"1", "01", "+1"} -> Some(1)
                   [] s = "2" -> Some(2)
                   [] OTHER -> None
MCValidIris == PrimitiveTypes \cup {"string", LangString, "urn:a", "urn:p"}
               \cup {ITEM_PREFIX \o s : s \in MCSpellings}
MCIris == MCValidIris \cup {"not an iri", "word"}
MCLabels == {"b"}
MCTags == {"en", "not a tag"}
MCValidTags == {"en"}
MCLexicals == {"1", "01", "word"}
MCParse(type, s) == IF type = "integer" /\ s \in {"1", "01"} THEN "one" ELSE Unparsable
MCShow(type, v) == "1"

\* Floats: exact in single precision; rounded there; too large for it; a decimal
\* whose last digit serde_json may read wrongly; and the others.
MCFinite(f) == f \notin {"inf", "nan"}
MCAsF32(f) == CASE f = "0.1" -> "0.1f32" [] f = "1e300" -> "inf" [] OTHER -> f
MCReparse(f) == IF f = "17 digits" THEN "17 digits, off by one" ELSE f

MCWhitespace == {"", "  "}
MCUnencodable == {"lone surrogate"}

-----------------------------------------------------------------------------
A == PyStr("urn:a")
P == PyStr("urn:p")
B == PyBlankNode("b")
Word == PyLiteral("word", None, None)
WordTyped == PyLiteral("word", Some("string"), None)
English == PyLiteral("word", None, Some("en"))
One == PyLiteral("1", Some("integer"), None)
Surrogate == PyStr("lone surrogate")

FromTriples(triples) ==
    [ctor |-> "from_triples", triples |-> triples, provenance |-> PyStr("chat"),
     scope_hint |-> NoScope, embedding |-> None, with_provenance |-> None]
OfEvent(body) ==
    [ctor |-> "event", kind |-> "call", body |-> body, provenance |-> PyStr("chat"),
     scope_hint |-> NoScope, embedding |-> None, with_provenance |-> None]
OfChunk(content) ==
    [ctor |-> "chunk", content |-> content, content_type |-> "text", provenance |-> PyStr("chat"),
     scope_hint |-> NoScope, embedding |-> None, with_provenance |-> None]
Embedded(v) == [OfChunk("text") EXCEPT !.embedding = Some(v)]
From(provenance) == [OfChunk("text") EXCEPT !.provenance = provenance]

Triple(s, p, o) == PyList(<<PyTuple(<<s, p, o>>)>>)

TripleCalls ==
    {FromTriples(Triple(A, P, A)), FromTriples(Triple(B, P, Word)),
     FromTriples(Triple(A, P, English)), FromTriples(Triple(A, P, One)),
     FromTriples(PyTuple(<<PyTuple(<<A, P, Word>>), PyTuple(<<A, P, WordTyped>>)>>)),
     FromTriples(PyList(<<>>)), FromTriples(PyStr("")),
     FromTriples(PyIterable(<<PyTuple(<<A, P, A>>)>>)),
     \* refused by a conversion
     FromTriples(Triple(Word, P, A)), FromTriples(Triple(A, B, A)),
     FromTriples(Triple(A, P, PyInt(1))), FromTriples(Triple(A, Surrogate, A)),
     FromTriples(Triple(A, P, PyLiteral("word", Some("string"), Some("en")))),
     FromTriples(Triple(A, P, PyLiteral("lone surrogate", None, None))),
     FromTriples(PyList(<<PyTuple(<<A, P, A>>), PyList(<<A, P, A>>)>>)),
     FromTriples(PyList(<<PyTuple(<<A, P>>)>>)), FromTriples(PyInt(1)), FromTriples(A),
     \* refused by the store, after a triple that it takes
     FromTriples(PyList(<<PyTuple(<<A, P, A>>), PyTuple(<<A, P, PyStr("not an iri")>>)>>)),
     FromTriples(PyList(<<PyTuple(<<A, P, A>>),
                          PyTuple(<<A, P, PyLiteral("01", Some("integer"), None)>>)>>)),
     FromTriples(Triple(A, P, PyLiteral("word", Some(LangString), None))),
     FromTriples(Triple(A, P, PyLiteral("word", None, Some("not a tag"))))}

\* Bodies, from the parts of a list, a tuple or a dict.
Leaf(o) == [p \in {<<>>} |-> o]
Nest(kind, steps, parts) ==
    [p \in {<<>>} \cup UNION {{<<steps[i]>> \o q : q \in DOMAIN parts[i]} : i \in DOMAIN parts} |->
        IF p = <<>> THEN [py |-> kind] ELSE parts[Head(p).at][Tail(p)]]
AList(parts) == Nest("list", [i \in DOMAIN parts |-> At(i)], parts)
ATuple(parts) == Nest("tuple", [i \in DOMAIN parts |-> At(i)], parts)
ADict(keys, parts) == Nest("dict", [i \in DOMAIN parts |-> Under(i, keys[i])], parts)

\* With IntBits = 3, i64 ends at -8 and 7 and u64 at 15.
Scalars == {PyNone, PyBool(TRUE), PyStr("s"), PyInt(-8), PyInt(7), PyInt(8), PyInt(15),
            PyFloat("1.0"), PyFloat("17 digits")}
BadScalars == {PyInt(-9), PyInt(16), PyFloat("nan"), PyFloat("inf"), Surrogate, Word}
BodyCalls ==
    {OfEvent(Leaf(o)) : o \in Scalars \cup BadScalars}
    \cup {OfEvent(body) : body \in
            {AList(<<Leaf(PyBool(TRUE)), Leaf(PyInt(1))>>),
             ATuple(<<ATuple(<<>>), Leaf(PyFloat("17 digits"))>>),
             ADict(<<PyStr("k"), PyStr("j")>>, <<Leaf(PyBool(FALSE)), AList(<<Leaf(PyNone)>>)>>),
             ADict(<<PyStr("k"), PyInt(1)>>, <<Leaf(PyInt(1)), Leaf(PyInt(1))>>),
             ADict(<<Surrogate>>, <<Leaf(PyInt(1))>>), AList(<<Leaf(PyInt(1)), Leaf(PyFloat("nan"))>>),
             \* which part is refused first
             AList(<<AList(<<Leaf(Word)>>), Leaf(PyFloat("nan"))>>)}}
    \cup {[OfEvent(Leaf(PyNone)) EXCEPT !.kind = "lone surrogate"]}

ChunkCalls ==
    {OfChunk("text"), OfChunk("lone surrogate"), [OfChunk("text") EXCEPT !.scope_hint = Major],
     Embedded(<<>>), Embedded(<<"1.0", "0.1">>), Embedded(<<"1e300">>), Embedded(<<"1.0", "nan">>),
     From(PyStr("  ")), From(Surrogate), From(PyInt(1)),
     From(PyProvenance("agent", <<0>>)), From(PyProvenance("agent", <<0, 1>>)),
     [OfChunk("text") EXCEPT !.with_provenance = Some(PyProvenance("agent", <<0>>))],
     [OfChunk("text") EXCEPT !.with_provenance = Some(PyNone)]}

MCBounds == {None, Some(1)}
MCCalls == TripleCalls \cup BodyCalls \cup ChunkCalls
MCBatches ==
    {<<call>> : call \in MCCalls}
    \cup {<<FromTriples(Triple(A, P, A)), Embedded(<<"1e300">>)>>,
          <<OfChunk("text"), From(PyProvenance("agent", <<0>>))>>,
          <<OfChunk("text"), FromTriples(Triple(A, P, PyStr("not an iri")))>>}

\* An event body one level deeper than serde_json reads back, for MaxDepth = 4.
DeepBatches == {<<OfEvent(AList(<<AList(<<>>)>>))>>,
                <<OfEvent(AList(<<AList(<<AList(<<>>)>>)>>))>>, <<OfChunk("text")>>}

-----------------------------------------------------------------------------
Pattern(s, p, o) ==
    [kind |-> "pattern", subject |-> s, predicate |-> p, object |-> o, scopes |-> PyNone,
     limit |-> None, reasoner_hint |-> NoScope]
Everything == Pattern(PyNone, PyNone, PyNone)

MCQueryCalls ==
    {Everything, Pattern(A, PyNone, PyNone), Pattern(B, P, PyNone), Pattern(PyNone, PyNone, A),
     Pattern(PyNone, PyNone, WordTyped), Pattern(PyNone, PyNone, Word),
     Pattern(PyNone, PyNone, English), Pattern(PyNone, PyNone, One),
     Pattern(PyNone, PyNone, PyLiteral("01", Some("integer"), None)),
     Pattern(PyNone, PyNone, PyStr("word")),
     Pattern(Word, PyNone, PyNone), Pattern(PyNone, PyInt(1), PyNone),
     [Everything EXCEPT !.scopes = PyScope(Enduring)],
     [Everything EXCEPT !.scopes = PyList(<<PyScope(Minor), PyScope(Enduring), PyScope(Minor)>>)],
     [Everything EXCEPT !.scopes = PyTuple(<<PyScope(Major)>>)],
     [Everything EXCEPT !.scopes = PyIterable(<<PyScope(Enduring)>>)],
     [Everything EXCEPT !.scopes = PyStr("")], [Everything EXCEPT !.scopes = A],
     [Everything EXCEPT !.scopes = PyList(<<PyScope(Major), PyNone>>)], [Everything EXCEPT !.scopes = PyInt(1)],
     [Everything EXCEPT !.limit = Some(1)], [Everything EXCEPT !.reasoner_hint = Major],
     [Everything EXCEPT !.kind = "sparql"], [Everything EXCEPT !.kind = "similarity"],
     [Everything EXCEPT !.kind = "inference"]}

-----------------------------------------------------------------------------
Graph(s) == Named(ITEM_PREFIX \o s)
Chunked == Serialize(Build(OfChunk("text")).ok)
Metadata(spelling, json) == [subject |-> Graph(spelling), object |-> new_simple(json)]
With(field, json) == Object([Chunked.object EXCEPT ![field] = json])
MCForeignMeta ==
    {Metadata("1", Chunked), Metadata("01", Chunked), Metadata("x", Chunked),
     Metadata("2", [json |-> "not JSON"]), Metadata("2", With("scope_hint", Str("huge"))),
     Metadata("2", With("embedding", Array(<<Null>>))),
     Metadata("2", With("derived_from", Array(<<Integer(-1)>>))),
     [Metadata("2", Chunked) EXCEPT !.subject = [term |-> "blank", label |-> "b"]],
     [Metadata("2", Chunked) EXCEPT !.object = Named("urn:a")]}
=============================================================================
