------------------------------ MODULE MCOxStore ------------------------------
(* Small instances of OxStore for TLC. *)
EXTENDS OxStore, TLC

\* "1" and "01" are the same integer, decimal or int; "1" and "true" the same
\* boolean; nothing else parses.
MCIris == PrimitiveTypes \cup {"int", "string", LangString, "g1", "not an iri"}
MCValidIris == MCIris \ {"not an iri"}
MCLabels == {"b"}
MCTags == {"en", "EN", "not a tag"}
MCValidTags == {"en", "EN"}
MCLexicals == {"1", "01", "true", "word"}
MCParse(type, s) ==
    CASE type \in {"integer", "decimal"} /\ s \in {"1", "01"} -> "one"
      [] type = "boolean" /\ s \in {"1", "true"} -> "yes"
      [] OTHER -> Unparsable
MCShow(type, v) == IF v = "one" THEN "1" ELSE "true"

Named(iri) == [term |-> "named", iri |-> iri]
Node == Named("g1")
In(g, object) == [subject |-> Node, predicate |-> Node, object |-> object, graph |-> g]

One == In(Named("g1"), new_typed("1", "integer"))
Padded == In(Named("g1"), new_typed("01", "integer"))
Short == In(Named("g1"), new_typed("1", "int"))
Upper == In(DefaultGraph, new_lang("word", "EN"))
Lower == In(DefaultGraph, new_lang("word", "en"))
BadIri == In(DefaultGraph, Named("not an iri"))

\* Two that are stored, and one that Oxigraph would take for the first.
MCQuads == {One, Upper, Short}

\* Two that are stored, and one that Oxigraph would not take.
MCOtherQuads == {One, Upper, BadIri}

\* Written past the adapter: the first again, and one in a graph that the core
\* model cannot name.
MCForeign == {Padded, [Lower EXCEPT !.graph = [term |-> "blank", label |-> "b"]]}
MCPadded == {Padded}

CONSTANTS t1, t2
TwoTxs == {t1, t2}
AnyTx == Permutations(TwoTxs)
=============================================================================
