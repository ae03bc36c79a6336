-------------------------- MODULE TermConvertProofs --------------------------
(***************************************************************************)
(* Proofs about TermConvert, for any terms and any parser and printer of   *)
(* literals that are inverse on values.                                    *)
(***************************************************************************)
EXTENDS TermConvert, TLAPS

Nodes == NamedNodes \cup BlankNodes

-----------------------------------------------------------------------------
(* Terms *)

\* Nodes are stored as they are.
LEMMA NodeReadsBack ==
    ASSUME NEW n \in Nodes, subject_to_ox(n) # Refused
    PROVE  /\ subject_to_ox(n) = n
           /\ EncodeTerm(n) = n /\ DecodeTerm(n) = n /\ term_from_ox(n) = n
           /\ n.term \in {"named", "blank"} /\ n # Refused
BY DEF Nodes, NamedNodes, BlankNodes, subject_to_ox, named_to_ox, blank_to_ox, Refused,
       EncodeTerm, DecodeTerm, term_from_ox

LEMMA GraphReadsBack ==
    ASSUME NEW g \in NamedNodes \cup {DefaultGraph}, graph_to_ox(g) # Refused
    PROVE  graph_to_ox(g) = g /\ graph_from_ox(g) = g /\ g # Refused
BY DEF NamedNodes, DefaultGraph, graph_to_ox, named_to_ox, graph_from_ox, Refused

\* A literal is the one that its constructor makes of its parts.
LEMMA LiteralFromOx ==
    ASSUME NEW l \in Literals
    PROVE  literal_from_ox(l) = l /\ l # Refused /\ l.term = "literal"
BY DEF Literals, literal_from_ox, new_lang, new_simple, new_typed, LangString, Refused

LEMMA LiteralReadsBack ==
    ASSUME NEW l \in Literals, literal_to_ox(l) # Refused
    PROVE  /\ literal_to_ox(l) = l
           /\ term_from_ox(DecodeTerm(EncodeTerm(l))) = l
<1>1. literal_to_ox(l) = l
    BY DEF literal_to_ox
<1>2. l.term = "literal" /\ literal_from_ox(l) = l
    BY LiteralFromOx
<1> DEFINE type == Primitive(l.datatype)
<1>3. CASE EncodeTerm(l) = l
    BY <1>1, <1>2, <1>3 DEF DecodeTerm, term_from_ox
<1>4. CASE EncodeTerm(l) # l
  <2>1. /\ l.language = NoLanguage /\ l.datatype \in PrimitiveTypes \cup DerivedTypes
        /\ Parse(type, l.value) # Unparsable
        /\ EncodeTerm(l) = [term |-> "native", type |-> type, native |-> Parse(type, l.value)]
      BY <1>4 DEF EncodeTerm
  <2>2. round_trips(l.value, l.datatype)
      BY <2>1, TermAssumption DEF literal_to_ox
  <2>3. l.datatype \in PrimitiveTypes /\ Show(type, Parse(type, l.value)) = l.value
      BY <2>1, <2>2 DEF round_trips
  <2>4. DecodeTerm(EncodeTerm(l)) = new_typed(l.value, l.datatype)
    <3>1. type = l.datatype
        BY <2>3 DEF Primitive, PrimitiveTypes
    <3> QED
        BY <2>1, <2>3, <3>1 DEF DecodeTerm
  <2>5. new_typed(l.value, l.datatype) = l
      BY <2>1 DEF new_typed, Literals
  <2> QED
      BY <1>1, <1>2, <2>4, <2>5 DEF term_from_ox
<1> QED
    BY <1>1, <1>3, <1>4

\* What Oxigraph reads back is stored again in the same way.
LEMMA StoredLiteralAgrees ==
    ASSUME NEW l \in Literals,
           \/ l.language \in ValidTags
           \/ (l.language = NoLanguage /\ l.datatype \in ValidIris \ {LangString})
    PROVE  LET back == DecodeTerm(EncodeTerm(l))
           IN  /\ back \in Literals
               /\ literal_to_ox(back) = back
               /\ EncodeTerm(back) = EncodeTerm(l)
<1> DEFINE type == Primitive(l.datatype)
           back == DecodeTerm(EncodeTerm(l))
<1>1. l.term = "literal"
    BY LiteralFromOx
<1>2. CASE EncodeTerm(l) = l
  <2>1. back = l
      BY <1>1, <1>2 DEF DecodeTerm
  <2>2. literal_to_ox(l) = l
    <3>1. CASE l.language \in ValidTags
        BY <3>1 DEF literal_to_ox
    <3>2. CASE l.language = NoLanguage /\ l.datatype \in ValidIris \ {LangString}
      <4>1. round_trips(l.value, l.datatype)
        <5>1. SUFFICES ASSUME l.datatype \in PrimitiveTypes \cup DerivedTypes,
                              Parse(type, l.value) # Unparsable
                       PROVE  FALSE
            BY DEF round_trips
        <5>2. EncodeTerm(l).term = "native"
            BY <1>1, <3>2, <5>1 DEF EncodeTerm
        <5> QED
            BY <1>1, <1>2, <5>2
      <4> QED
          BY <3>2, <4>1 DEF literal_to_ox
    <3> QED
        BY <3>1, <3>2
  <2> QED
      BY <1>2, <2>1, <2>2
<1>3. CASE EncodeTerm(l) # l
  <2>1. /\ l.language = NoLanguage /\ l.datatype \in PrimitiveTypes \cup DerivedTypes
        /\ Parse(type, l.value) # Unparsable
        /\ EncodeTerm(l) = [term |-> "native", type |-> type, native |-> Parse(type, l.value)]
      BY <1>3 DEF EncodeTerm
  <2>2. type \in PrimitiveTypes
      BY DEF Primitive, PrimitiveTypes
  <2> DEFINE s == Show(type, Parse(type, l.value))
  <2>3. s \in Lexicals /\ Parse(type, s) = Parse(type, l.value)
      BY <2>1, <2>2, TermAssumption DEF Literals
  <2>4. back = new_typed(s, type)
      BY <2>1 DEF DecodeTerm
  <2>5. /\ back.term = "literal" /\ back.value = s /\ back.datatype = type
        /\ back.language = NoLanguage
      BY <2>4 DEF new_typed
  <2>6. type \in ValidIris /\ type \in Iris
      BY <2>2, TermAssumption
  <2>7. back \in Literals
      BY <2>3, <2>4, <2>6 DEF new_typed, Literals
  <2>8. Primitive(type) = type
      BY <2>2 DEF Primitive, PrimitiveTypes
  <2>9. round_trips(s, type)
      BY <2>2, <2>3, <2>8 DEF round_trips
  <2>10. type # LangString
      BY <2>2 DEF PrimitiveTypes, LangString
  <2>11. literal_to_ox(back) = back
      BY <2>5, <2>6, <2>9, <2>10 DEF literal_to_ox
  <2>12. EncodeTerm(back) = EncodeTerm(l)
      BY <2>1, <2>2, <2>3, <2>5, <2>8 DEF EncodeTerm
  <2> QED
      BY <2>7, <2>11, <2>12
<1> QED
    BY <1>2, <1>3

-----------------------------------------------------------------------------
(* Quads *)

\* "Terms are stored verbatim or not at all": a quad that quad_to_ox accepts is
\* read back as it was written.
THEOREM AcceptedReadsBack ==
    ASSUME NEW q \in CoreQuads, quad_to_ox(q) # Refused
    PROVE  quad_from_ox(Decode(Encode(quad_to_ox(q)))) = q
<1>1. /\ subject_to_ox(q.subject) # Refused /\ named_to_ox(q.predicate) # Refused
      /\ term_to_ox(q.object) # Refused /\ graph_to_ox(q.graph) # Refused
      /\ quad_to_ox(q) = [subject |-> subject_to_ox(q.subject),
                          predicate |-> named_to_ox(q.predicate),
                          object |-> term_to_ox(q.object), graph |-> graph_to_ox(q.graph)]
    BY DEF quad_to_ox
<1>2. subject_to_ox(q.subject) = q.subject
    BY <1>1, NodeReadsBack DEF CoreQuads, Nodes
<1>3. named_to_ox(q.predicate) = q.predicate
    BY <1>1 DEF named_to_ox
<1>4. graph_to_ox(q.graph) = q.graph /\ graph_from_ox(q.graph) = q.graph /\ q.graph # Refused
    BY <1>1, GraphReadsBack DEF CoreQuads
<1>5. /\ term_to_ox(q.object) = q.object /\ q.object # Refused
      /\ term_from_ox(DecodeTerm(EncodeTerm(q.object))) = q.object
  <2>1. CASE q.object \in Literals
    <3>1. q.object.term = "literal" /\ q.object # Refused
        BY <2>1, LiteralFromOx
    <3> QED
        BY <1>1, <2>1, <3>1, LiteralReadsBack DEF term_to_ox
  <2>2. CASE q.object \in Nodes
    <3>1. q.object.term # "literal"
        BY <2>2 DEF Nodes, NamedNodes, BlankNodes
    <3> QED
        BY <1>1, <2>2, <3>1, NodeReadsBack DEF term_to_ox
  <2> QED
      BY <2>1, <2>2 DEF CoreQuads, Nodes
<1>6. quad_to_ox(q) = q
    BY <1>1, <1>2, <1>3, <1>4, <1>5 DEF CoreQuads
<1>7. Decode(Encode(q)) = [subject |-> q.subject, predicate |-> q.predicate,
                           object |-> DecodeTerm(EncodeTerm(q.object)), graph |-> q.graph]
    BY DEF Encode, Decode
<1> QED
    BY <1>4, <1>5, <1>6, <1>7 DEF quad_from_ox, CoreQuads

\* What is read back from a quad that was written to Oxigraph directly is stored
\* in the same place as that quad: the adapter can look it up and remove it.
THEOREM ReadBackIsFound ==
    ASSUME NEW f \in OxQuads, quad_from_ox(Decode(Encode(f))) # Refused
    PROVE  LET q == quad_from_ox(Decode(Encode(f)))
           IN  quad_to_ox(q) # Refused /\ Encode(quad_to_ox(q)) = Encode(f)
<1> DEFINE back == DecodeTerm(EncodeTerm(f.object))
           q == quad_from_ox(Decode(Encode(f)))
<1>1. /\ f.subject \in Nodes /\ subject_to_ox(f.subject) = f.subject
      /\ f.predicate \in NamedNodes /\ named_to_ox(f.predicate) = f.predicate
      /\ f.predicate # Refused /\ f.subject # Refused
    BY TermAssumption DEF OxQuads, Nodes, NamedNodes, BlankNodes, subject_to_ox, named_to_ox,
                          blank_to_ox, Refused
<1>2. /\ term_to_ox(back) = back /\ term_from_ox(back) = back /\ back # Refused
      /\ EncodeTerm(back) = EncodeTerm(f.object)
  <2>1. CASE f.object \in Literals
    <3>1. \/ f.object.language \in ValidTags
          \/ (/\ f.object.language = NoLanguage
              /\ f.object.datatype \in ValidIris \ {LangString})
      <4>1. f.object.term = "literal"
          BY <2>1, LiteralFromOx
      <4> QED
          BY <2>1, <4>1 DEF OxQuads
    <3>2. /\ back \in Literals /\ literal_to_ox(back) = back
          /\ EncodeTerm(back) = EncodeTerm(f.object)
        BY <2>1, <3>1, StoredLiteralAgrees
    <3> HIDE DEF back
    <3>3. back.term = "literal" /\ literal_from_ox(back) = back /\ back # Refused
        BY <3>2, LiteralFromOx
    <3> QED
        BY <3>2, <3>3 DEF term_to_ox, term_from_ox
  <2>2. CASE f.object \notin Literals
    <3>1. f.object \in Nodes /\ subject_to_ox(f.object) = f.object /\ f.object # Refused
        BY <2>2, TermAssumption DEF OxQuads, Nodes, NamedNodes, BlankNodes, subject_to_ox,
                                    named_to_ox, blank_to_ox, Refused
    <3> QED
        BY <3>1, NodeReadsBack DEF term_to_ox
  <2> QED
      BY <2>1, <2>2
<1>3. f = [subject |-> f.subject, predicate |-> f.predicate, object |-> f.object,
           graph |-> f.graph]
    BY DEF OxQuads
<1>4. Decode(Encode(f)) = [subject |-> f.subject, predicate |-> f.predicate, object |-> back,
                           graph |-> f.graph]
    BY <1>3 DEF Encode, Decode
<1> HIDE DEF back
<1>5. graph_from_ox(f.graph) = f.graph /\ f.graph # Refused
    BY <1>4 DEF quad_from_ox, graph_from_ox
<1>6. q = [subject |-> f.subject, predicate |-> f.predicate, object |-> back,
           graph |-> f.graph]
    BY <1>2, <1>4, <1>5 DEF quad_from_ox
<1>7. graph_to_ox(f.graph) = f.graph
    BY <1>5 DEF OxQuads, graph_to_ox, named_to_ox, graph_from_ox, DefaultGraph, Refused
<1> HIDE DEF q
<1>8. quad_to_ox(q) = q /\ q # Refused
    BY <1>1, <1>2, <1>5, <1>6, <1>7 DEF quad_to_ox, Refused
<1>9. Encode(q) = Encode(f)
    BY <1>2, <1>3, <1>6 DEF Encode
<1> QED
    BY <1>8, <1>9 DEF q
=============================================================================
