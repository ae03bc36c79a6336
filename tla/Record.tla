------------------------------- MODULE Record -------------------------------
(***************************************************************************)
(* How a Session lays an item out in a store, and how it reads it back     *)
(* (semanticore-context/src/record.rs, with load and validate of           *)
(* session.rs).                                                            *)
(*                                                                         *)
(* The triples of an item are quads of the item's own graph; all the rest  *)
(* is the JSON text of one metadata literal.  A JSON text is represented   *)
(* by the value it denotes, Serialize and Deserialize by what they do to   *)
(* it.  The item graphs and the metadata graph of a store are kept apart   *)
(* here, as `data' and `meta': no item graph is the metadata graph.        *)
(***************************************************************************)
EXTENDS TermConvert, ContextScope, SequencesExt, TLC

CONSTANTS
    Spellings,   \* what may follow ITEM_PREFIX in an IRI
    ParseU64(_), \* u64::from_str, external: None, or the number in a sequence
    Whitespace,  \* the strings that trim() leaves nothing of
    Finite(_),   \* f32::is_finite, external
    Reparse(_),  \* the f64 that serde_json reads from what it writes, external
    MaxDepth     \* how deep JSON may nest to be read by serde_json, external

\* Option<T>: no value, or the value in a sequence.
None == <<>>
Some(x) == <<x>>

Named(iri) == [term |-> "named", iri |-> iri]

-----------------------------------------------------------------------------
(* JSON values *)

Null == [json |-> "null"]
Bool(b) == [json |-> "bool", bool |-> b]
Integer(n) == [json |-> "int", int |-> n]
Float(f) == [json |-> "float", float |-> f]
Str(s) == [json |-> "string", string |-> s]
Array(items) == [json |-> "array", array |-> items]
Object(fields) == [json |-> "object", object |-> fields]

Parts(j) == CASE j.json = "array" -> {j.array[i] : i \in DOMAIN j.array}
              [] j.json = "object" -> {j.object[k] : k \in DOMAIN j.object}
              [] OTHER -> {}

\* A value that may nest to any depth, the body of an event, is a tree: what it
\* has at each path.  A step of a path is a position, in an object or a dict
\* with the key that lies there.  (The order of an object's entries is kept:
\* nothing reads it.)
At(i) == [at |-> i, key |-> None]
Under(i, k) == [at |-> i, key |-> Some(k)]
Nesting == {[json |-> "array"], [json |-> "object"]}

\* The value that is read from the text of a tree.
Reread(tree) == [p \in DOMAIN tree |-> IF tree[p].json = "float"
                                       THEN Float(Reparse(tree[p].float)) ELSE tree[p]]

-----------------------------------------------------------------------------
(* Items *)

\* ContextScope::tag and from_tag.
Tag(s) == CASE s = Enduring -> "enduring" [] s = Major -> "major" [] s = Minor -> "minor"
FromTag(tag) == {s \in Scopes : Tag(s) = tag}

Triples(quads) == [type |-> "triples", triples |-> quads]
Event(kind, body) == [type |-> "event", kind |-> kind, body |-> body]
Chunk(content, content_type) ==
    [type |-> "chunk", content |-> content, content_type |-> content_type]

Provenance(source, derived_from) == [source |-> source, derived_from |-> derived_from]

\* ContextItem: new, and the fields that finish sets on it
Item(payload, provenance, scope_hint, embedding) ==
    [payload |-> payload, provenance |-> provenance, scope_hint |-> scope_hint,
     embedding |-> embedding]

\* Faulty variant: infinity and NaN are let through.
validate_any_embedding(items, item) ==
    IF item.provenance.source \in Whitespace THEN Some("MissingProvenance")
    ELSE IF /\ item.payload.type = "triples"
            /\ \E i \in DOMAIN item.payload.triples :
                  item.payload.triples[i].graph # DefaultGraph THEN Some("InvalidItem")
    ELSE IF \E i \in DOMAIN item.provenance.derived_from :
               item.provenance.derived_from[i] \notin DOMAIN items THEN Some("UnknownItem")
    ELSE None

\* Why the Session refuses the item, if it does.
validate(items, item) ==
    IF item.provenance.source \in Whitespace THEN Some("MissingProvenance")
    ELSE IF \/ /\ item.payload.type = "triples"
               /\ \E i \in DOMAIN item.payload.triples :
                     item.payload.triples[i].graph # DefaultGraph
            \/ /\ item.embedding # None
               /\ \E i \in DOMAIN item.embedding[1] : ~Finite(item.embedding[1][i])
    THEN Some("InvalidItem")
    ELSE IF \E i \in DOMAIN item.provenance.derived_from :
               item.provenance.derived_from[i] \notin DOMAIN items THEN Some("UnknownItem")
    ELSE None

-----------------------------------------------------------------------------
(* Writing an item *)

ITEM_PREFIX == "urn:semanticore:context:item:"

item_graph(id) == Named(ITEM_PREFIX \o ToString(id))

\* serde_json::to_string of a Record.  It writes a float that is not finite as
\* null.
Serialize(item) ==
    LET p == item.payload
        numbers(v) == [i \in DOMAIN v |-> IF Finite(v[i]) THEN Float(v[i]) ELSE Null]
    IN  Object(
          [payload |->
             CASE p.type = "triples" -> Object([type |-> Str("triples")])
               [] p.type = "event" ->
                    Object([type |-> Str("event"), kind |-> Str(p.kind), body |-> p.body])
               [] p.type = "chunk" ->
                    Object([type |-> Str("chunk"), content |-> Str(p.content),
                            content_type |-> Str(p.content_type)]),
           source |-> Str(item.provenance.source),
           derived_from |-> Array([i \in DOMAIN item.provenance.derived_from |->
                                      Integer(item.provenance.derived_from[i])]),
           scope_hint |-> IF item.scope_hint = NoScope THEN Null ELSE Str(Tag(item.scope_hint)),
           embedding |-> IF item.embedding = None THEN Null
                         ELSE Array(numbers(item.embedding[1]))])

\* The quads of an item's graph, and its metadata quad.
encode(id, item) ==
    [data |-> IF item.payload.type = "triples"
              THEN {[item.payload.triples[i] EXCEPT !.graph = item_graph(id)] :
                       i \in DOMAIN item.payload.triples}
              ELSE {},
     meta |-> [subject |-> item_graph(id), object |-> new_simple(Serialize(item))]]

-----------------------------------------------------------------------------
(* Reading it back *)

Spelling(iri) == {s \in Spellings : ITEM_PREFIX \o s = iri}

\* Faulty variant: every spelling of a number is taken.
parse_any_spelling(graph) ==
    IF graph.term = "named"
    THEN UNION {{ParseU64(s)[1] : x \in DOMAIN ParseU64(s)} : s \in Spelling(graph.iri)}
    ELSE {}

\* The id that the IRI of an item graph names, in a set; "+1" and "01" name none.
parse_item_graph(graph) ==
    IF graph.term = "named"
    THEN {id \in UNION {{ParseU64(s)[i] : i \in DOMAIN ParseU64(s)} :
                            s \in Spelling(graph.iri)} :
             item_graph(id) = graph}
    ELSE {}

\* Whether the JSON text is that of a Record, by the types of its fields.
IsRecord(j) ==
    /\ j.json = "object"
    /\ {"payload", "source", "derived_from"} \subseteq DOMAIN j.object
    /\ j.object["payload"].json = "object"
    /\ LET p == j.object["payload"].object IN
       /\ "type" \in DOMAIN p
       /\ \/ p["type"] = Str("triples")
          \/ p["type"] = Str("event") /\ {"kind", "body"} \subseteq DOMAIN p
          \/ p["type"] = Str("chunk") /\ {"content", "content_type"} \subseteq DOMAIN p
    /\ j.object["source"].json = "string"
    /\ j.object["derived_from"].json = "array"
    /\ \A n \in Parts(j.object["derived_from"]) : n.json = "int" /\ n.int \in Nat
    /\ "scope_hint" \in DOMAIN j.object => j.object["scope_hint"].json \in {"null", "string"}
    /\ "embedding" \in DOMAIN j.object =>
          \/ j.object["embedding"] = Null
          \/ \A n \in Parts(j.object["embedding"]) : n.json \in {"int", "float"}

\* An Option field that is missing is None.
Field(j, name) == IF name \in DOMAIN j.object THEN j.object[name] ELSE Null

\* An event's body lies in the payload's object, which lies in the record's.
TooDeep(j) ==
    LET p == j.object["payload"].object
    IN  /\ "body" \in DOMAIN p
        /\ \E path \in DOMAIN p["body"] :
              p["body"][path] \in Nesting /\ 2 + Len(path) + 1 > MaxDepth

\* decode: the item in a sequence, or None for SessionError::Corrupt.
decode(json, graph_quads) ==
    IF \/ ~IsRecord(json)
       \/ TooDeep(json)
       \/ Field(json, "scope_hint") # Null /\ FromTag(Field(json, "scope_hint").string) = {}
    THEN None
    ELSE LET p == json.object["payload"].object
             embedding == Field(json, "embedding")
             hint == Field(json, "scope_hint")
             values(a) == [i \in DOMAIN a |-> IF a[i].json = "int" THEN a[i].int ELSE a[i].float]
             ids(a) == [i \in DOMAIN a |-> a[i].int]
         IN  Some([payload |->
                     CASE p["type"] = Str("triples") ->
                             Triples([i \in DOMAIN graph_quads |->
                                         [graph_quads[i] EXCEPT !.graph = DefaultGraph]])
                       [] p["type"] = Str("event") -> Event(p["kind"].string, Reread(p["body"]))
                       [] OTHER -> Chunk(p["content"].string, p["content_type"].string),
                   provenance |-> Provenance(json.object["source"].string,
                                             ids(json.object["derived_from"].array)),
                   scope_hint |-> IF hint = Null THEN NoScope
                                  ELSE CHOOSE s \in FromTag(hint.string) : TRUE,
                   embedding |-> IF embedding = Null THEN None
                                 ELSE Some(values(embedding.array))])

\* quads_for_pattern on the item's graph.
GraphQuads(data, id) ==
    SetToSeq({q \in {quad_from_ox(Decode(e)) : e \in data} : q.graph = item_graph(id)})

\* What a metadata quad says: an id with its item, or None for Corrupt.
LoadRecord(data, m) ==
    LET ids == parse_item_graph(m.subject) IN
    IF ids = {} \/ m.object.term # "literal" THEN None
    ELSE LET id == CHOOSE i \in ids : TRUE
             item == decode(m.object.value, GraphQuads(data, id))
         IN  IF item = None THEN None ELSE Some([id |-> id, item |-> item[1]])

\* load: whether it succeeds, and the pairs that it returns.
Loads(data, meta) == \A m \in meta : LoadRecord(data, m) # None
load(data, meta) == {LoadRecord(data, m)[1] : m \in meta}
=============================================================================
