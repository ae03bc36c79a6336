----------------------------- MODULE TermConvert -----------------------------
(***************************************************************************)
(* RDF terms between the core model and Oxigraph (convert.rs).             *)
(*                                                                         *)
(* The core model keeps a literal as it was written.  Oxigraph stores a    *)
(* literal of an XSD type that it can parse as a native value, and shows   *)
(* it in canonical form and under the primitive type when it is read back. *)
(* Which lexical forms parse and how values are shown is external: Parse   *)
(* and Show.  Terms of the two models have the same fields here; both are  *)
(* records that say which kind of term they are.                           *)
(***************************************************************************)
CONSTANTS
    Iris, Labels, Tags, Lexicals,       \* what core terms are made of
    ValidIris, ValidLabels, ValidTags,  \* what Oxigraph's constructors accept
    Parse(_, _),  \* the value of a lexical form of a primitive type
    Show(_, _)    \* the canonical form of a value of a primitive type

NoLanguage == "no language"
Unparsable == "unparsable"
LangString == "langString"

\* The types that round_trips lists, by their names in the XSD namespace.
PrimitiveTypes == {"boolean", "float", "double", "integer", "decimal", "dateTime", "time",
                   "date", "gYearMonth", "gYear", "gMonthDay", "gDay", "gMonth", "duration",
                   "yearMonthDuration", "dayTimeDuration"}

\* They are decoded as an integer or, dateTimeStamp, as a dateTime.
DerivedTypes == {"byte", "short", "int", "long", "unsignedByte", "unsignedShort",
                 "unsignedInt", "unsignedLong", "positiveInteger", "negativeInteger",
                 "nonPositiveInteger", "nonNegativeInteger", "dateTimeStamp"}

Primitive(type) == CASE type \in PrimitiveTypes -> type
                     [] type = "dateTimeStamp" -> "dateTime"
                     [] OTHER -> "integer"

\* FromStr and Display of the XSD types are inverse on values, and the types
\* themselves are IRIs.
ASSUME TermAssumption ==
    /\ ValidIris \subseteq Iris /\ ValidLabels \subseteq Labels /\ ValidTags \subseteq Tags
    /\ NoLanguage \notin Tags
    /\ PrimitiveTypes \subseteq ValidIris
    /\ \A type \in PrimitiveTypes, s \in Lexicals :
          Parse(type, s) # Unparsable =>
              /\ Show(type, Parse(type, s)) \in Lexicals
              /\ Parse(type, Show(type, Parse(type, s))) = Parse(type, s)

-----------------------------------------------------------------------------
(* The core model *)

NamedNodes == [term : {"named"}, iri : Iris]
BlankNodes == [term : {"blank"}, label : Labels]

new_typed(value, datatype) ==
    [term |-> "literal", value |-> value, datatype |-> datatype, language |-> NoLanguage]
new_simple(value) == new_typed(value, "string")
new_lang(value, tag) == [new_typed(value, LangString) EXCEPT !.language = tag]

Literals == {l \in [term : {"literal"}, value : Lexicals, datatype : Iris,
                    language : Tags \cup {NoLanguage}] :
                l.language # NoLanguage => l.datatype = LangString}

DefaultGraph == [term |-> "default"]

CoreQuads == [subject : NamedNodes \cup BlankNodes, predicate : NamedNodes,
              object : NamedNodes \cup BlankNodes \cup Literals,
              graph : NamedNodes \cup {DefaultGraph}]

-----------------------------------------------------------------------------
(* From the core model to Oxigraph *)

\* Every reason to refuse a term, in either direction.
Refused == [term |-> "refused"]

named_to_ox(n) == IF n.iri \in ValidIris THEN n ELSE Refused

blank_to_ox(b) == IF b.label \in ValidLabels THEN b ELSE Refused

subject_to_ox(s) == IF s.term = "named" THEN named_to_ox(s) ELSE blank_to_ox(s)

\* Faulty variant: a derived type is taken for a primitive one.
round_trips_derived(value, datatype) ==
    LET type == Primitive(datatype) IN
    datatype \in PrimitiveTypes \cup DerivedTypes =>
        \/ Parse(type, value) = Unparsable
        \/ Show(type, Parse(type, value)) = value

\* Whether the literal reads back with the same lexical form and datatype.
round_trips(value, datatype) ==
    LET type == Primitive(datatype) IN
    datatype \in PrimitiveTypes \cup DerivedTypes =>
        \/ Parse(type, value) = Unparsable
        \/ datatype \in PrimitiveTypes /\ Show(type, Parse(type, value)) = value

literal_to_ox(l) ==
    IF \/ l.language \in ValidTags
       \/ /\ l.language = NoLanguage
          /\ l.datatype # LangString
          /\ round_trips(l.value, l.datatype)
          /\ l.datatype \in ValidIris
    THEN l ELSE Refused

term_to_ox(t) == IF t.term = "literal" THEN literal_to_ox(t) ELSE subject_to_ox(t)

graph_to_ox(g) == IF g.term = "named" THEN named_to_ox(g) ELSE g

quad_to_ox(q) ==
    LET ox == [subject |-> subject_to_ox(q.subject), predicate |-> named_to_ox(q.predicate),
               object |-> term_to_ox(q.object), graph |-> graph_to_ox(q.graph)]
    IN  IF Refused \in {ox.subject, ox.predicate, ox.object, ox.graph} THEN Refused ELSE ox

-----------------------------------------------------------------------------
(* Oxigraph (external) *)

\* What its checked constructors make: the graph may be a blank node, and a
\* literal of any valid type be written in any way.
OxQuads ==
    LET nodes == [term : {"named"}, iri : ValidIris]
                 \cup [term : {"blank"}, label : ValidLabels]
        literals == {l \in Literals : \/ l.language \in ValidTags
                                     \/ /\ l.language = NoLanguage
                                        /\ l.datatype \in ValidIris \ {LangString}}
    IN  [subject : nodes, predicate : [term : {"named"}, iri : ValidIris],
         object : nodes \cup literals, graph : nodes \cup {DefaultGraph}]

\* How terms are stored, and read back.
EncodeTerm(t) ==
    IF /\ t.term = "literal" /\ t.language = NoLanguage
       /\ t.datatype \in PrimitiveTypes \cup DerivedTypes
       /\ Parse(Primitive(t.datatype), t.value) # Unparsable
    THEN [term |-> "native", type |-> Primitive(t.datatype),
          native |-> Parse(Primitive(t.datatype), t.value)]
    ELSE t

DecodeTerm(e) == IF e.term = "native" THEN new_typed(Show(e.type, e.native), e.type) ELSE e

Encode(ox) == [subject |-> ox.subject, predicate |-> ox.predicate,
               object |-> EncodeTerm(ox.object), graph |-> ox.graph]
Decode(e) == [subject |-> e.subject, predicate |-> e.predicate,
              object |-> DecodeTerm(e.object), graph |-> e.graph]

-----------------------------------------------------------------------------
(* From Oxigraph to the core model *)

\* A language with another datatype is a directional string of RDF 1.2.
literal_from_ox(l) ==
    IF l.language # NoLanguage
    THEN IF l.datatype = LangString THEN new_lang(l.value, l.language) ELSE Refused
    ELSE IF l.datatype = "string" THEN new_simple(l.value) ELSE new_typed(l.value, l.datatype)

term_from_ox(t) == CASE t.term = "literal" -> literal_from_ox(t)
                     [] t.term \in {"named", "blank"} -> t
                     [] OTHER -> Refused

graph_from_ox(g) == IF g.term = "blank" THEN Refused ELSE g

quad_from_ox(ox) ==
    LET q == [subject |-> ox.subject, predicate |-> ox.predicate,
              object |-> term_from_ox(ox.object), graph |-> graph_from_ox(ox.graph)]
    IN  IF Refused \in {q.object, q.graph} THEN Refused ELSE q
=============================================================================
