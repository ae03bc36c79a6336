------------------------------ MODULE PyValues ------------------------------
(***************************************************************************)
(* Python values to and from the Rust ones (semanticore-context-py:        *)
(* terms.rs, item.rs, query.rs, errors.rs).                                *)
(*                                                                         *)
(* A Python object is a record whose field `py' is its type.  A conversion *)
(* returns Ok(value) or raises an exception; of several parts that cannot  *)
(* be converted the first decides which.                                   *)
(***************************************************************************)
EXTENDS Record

CONSTANTS
    IntBits,     \* i64 is -2^IntBits .. 2^IntBits - 1
    Unencodable, \* the str values that UTF-8 cannot express
    AsF32(_)     \* `as f32', external

Ok(v) == [ok |-> v]
Raise(class) == [raised |-> class]
IsOk(r) == "ok" \in DOMAIN r

\* collect::<PyResult<_>>() of a sequence of results.
Collect(rs) ==
    LET failed == {i \in DOMAIN rs : ~IsOk(rs[i])} IN
    IF failed # {} THEN rs[Min(failed)] ELSE Ok([i \in DOMAIN rs |-> rs[i].ok])

\* PyAny::try_iter: what iterating over an object yields.  The characters of a
\* str are strs again: one stands for them.
Iterates(o) == o.py \in {"list", "tuple", "iterable", "str"}
Iterated(o) == IF o.py # "str" THEN o.items ELSE IF o.str = "" THEN <<>> ELSE <<o>>

\* PyString::to_str
to_str(s) == IF s \in Unencodable THEN Raise("UnicodeEncodeError") ELSE Ok(s)

-----------------------------------------------------------------------------
(* Terms *)

PyNone == [py |-> "None"]
PyStr(s) == [py |-> "str", str |-> s]
PyBlankNode(id) == [py |-> "BlankNode", id |-> id]
PyList(items) == [py |-> "list", items |-> items]
PyTuple(items) == [py |-> "tuple", items |-> items]

\* A set, a generator, the keys of a dict.
PyIterable(items) == [py |-> "iterable", items |-> items]

\* Literal(value, datatype, language), with the options that were given.
PyLiteral(value, datatype, language) ==
    [py |-> "Literal", value |-> value, datatype |-> datatype, language |-> language]

\* PyLiteral::new
literal_new(o) ==
    LET strings == {o.value} \cup Range(o.datatype) \cup Range(o.language)
    IN  IF strings \cap Unencodable # {} THEN Raise("UnicodeEncodeError")
        ELSE IF o.datatype # None /\ o.language # None THEN Raise("ValueError")
        ELSE IF o.datatype # None THEN Ok(new_typed(o.value, o.datatype[1]))
        ELSE IF o.language # None THEN Ok(new_lang(o.value, o.language[1]))
        ELSE Ok(new_simple(o.value))

predicate_from_py(o) ==
    IF o.py # "str" THEN Raise("TypeError")
    ELSE IF IsOk(to_str(o.str)) THEN Ok(Named(o.str)) ELSE to_str(o.str)

subject_from_py(o) ==
    IF o.py = "BlankNode" THEN Ok([term |-> "blank", label |-> o.id])
    ELSE predicate_from_py(o)

\* Faulty variant: a str in object position is a plain literal.
object_from_py_text(o) ==
    CASE o.py = "str" -> Ok(new_simple(o.str))
      [] o.py = "Literal" -> literal_new(o)
      [] OTHER -> subject_from_py(o)

object_from_py(o) == IF o.py = "Literal" THEN literal_new(o) ELSE subject_from_py(o)

triple_from_py(o) ==
    LET terms == Collect(<<subject_from_py(o.items[1]), predicate_from_py(o.items[2]),
                           object_from_py(o.items[3])>>)
    IN  IF o.py # "tuple" THEN Raise("TypeError")
        ELSE IF Len(o.items) # 3 THEN Raise("ValueError")
        ELSE IF IsOk(terms)
        THEN Ok([subject |-> terms.ok[1], predicate |-> terms.ok[2],
                 object |-> terms.ok[3], graph |-> DefaultGraph])
        ELSE terms

subject_to_py(t) == IF t.term = "named" THEN PyStr(t.iri) ELSE PyBlankNode(t.label)

\* A Literal shows its lexical form, its datatype and its language tag.
object_to_py(t) ==
    IF t.term # "literal" THEN subject_to_py(t)
    ELSE IF t.language # NoLanguage THEN PyLiteral(t.value, None, Some(t.language))
    ELSE PyLiteral(t.value, Some(t.datatype), None)

triple_to_py(q) ==
    PyTuple(<<subject_to_py(q.subject), subject_to_py(q.predicate), object_to_py(q.object)>>)

-----------------------------------------------------------------------------
(* Event bodies *)

PyBool(b) == [py |-> "bool", bool |-> b]
PyInt(n) == [py |-> "int", int |-> n]
PyFloat(f) == [py |-> "float", float |-> f]

\* A body is a tree: a list, a tuple or a dict has its parts on the paths that
\* lead on from it.
PyNesting == {[py |-> "list"], [py |-> "tuple"], [py |-> "dict"]}

I64 == -(2 ^ IntBits) .. 2 ^ IntBits - 1
U64 == 0 .. 2 ^ (IntBits + 1) - 1

\* Faulty variant: bool, a subclass of int, is not looked for first.
scalar_from_py_int_first(o) ==
    IF o.py = "bool" THEN Ok(Integer(IF o.bool THEN 1 ELSE 0))
    ELSE CASE o.py = "None" -> Ok(Null)
           [] o.py = "int" -> IF o.int \in I64 \cup U64 THEN Ok(Integer(o.int))
                              ELSE Raise("ValueError")
           [] o.py = "float" -> IF Finite(o.float) THEN Ok(Float(o.float))
                                ELSE Raise("ValueError")
           [] o.py = "str" -> IF IsOk(to_str(o.str)) THEN Ok(Str(o.str)) ELSE to_str(o.str)
           [] OTHER -> Raise("TypeError")

scalar_from_py(o) ==
    CASE o.py = "None" -> Ok(Null)
      [] o.py = "bool" -> Ok(Bool(o.bool))
      [] o.py = "int" -> IF o.int \in I64 \cup U64 THEN Ok(Integer(o.int))
                         ELSE Raise("ValueError")
      [] o.py = "float" -> IF Finite(o.float) THEN Ok(Float(o.float)) ELSE Raise("ValueError")
      [] o.py = "str" -> IF IsOk(to_str(o.str)) THEN Ok(Str(o.str)) ELSE to_str(o.str)
      [] OTHER -> Raise("TypeError")

\* What is at the end of a path, and the keys of a dict along it.
node_from_py(o) ==
    CASE o.py \in {"list", "tuple"} -> Ok([json |-> "array"])
      [] o.py = "dict" -> Ok([json |-> "object"])
      [] OTHER -> scalar_from_py(o)

key_from_py(step) ==
    CASE step.key = None -> Ok(None)
      [] step.key # None /\ step.key[1].py = "str" -> to_str(step.key[1].str)
      [] OTHER -> Raise("TypeError")

path_from_py(path) ==
    [i \in DOMAIN path |-> [path[i] EXCEPT !.key = IF @ = None THEN None ELSE Some(@[1].str)]]
path_to_py(path) ==
    [i \in DOMAIN path |-> [path[i] EXCEPT !.key = IF @ = None THEN None ELSE Some(PyStr(@[1]))]]

\* The order of the conversion: an entry's key, its value, then the next entry.
Before(p, q) ==
    \/ IsStrictPrefix(p, q)
    \/ \E i \in DOMAIN p \cap DOMAIN q :
          p[i].at < q[i].at /\ SubSeq(p, 1, i - 1) = SubSeq(q, 1, i - 1)

json_from_py(body) ==
    LET part(p) == Collect(<<IF p = <<>> THEN Ok(None) ELSE key_from_py(Last(p)),
                             node_from_py(body[p])>>)
        failed == {p \in DOMAIN body : ~IsOk(part(p))}
        first == CHOOSE p \in failed : \A q \in failed : ~Before(q, p)
    IN  IF failed # {} THEN part(first)
        ELSE Ok([p \in {path_from_py(q) : q \in DOMAIN body} |->
                    node_from_py(body[path_to_py(p)]).ok])

node_to_py(j) ==
    CASE j.json = "null" -> PyNone
      [] j.json = "bool" -> PyBool(j.bool)
      [] j.json = "int" -> PyInt(j.int)
      [] j.json = "float" -> PyFloat(j.float)
      [] j.json = "string" -> PyStr(j.string)
      [] j.json = "array" -> [py |-> "list"]
      [] j.json = "object" -> [py |-> "dict"]

json_to_py(tree) == [p \in {path_to_py(q) : q \in DOMAIN tree} |-> node_to_py(tree[path_from_py(p)])]

-----------------------------------------------------------------------------
(* Items.  A constructor call is a record of the arguments that the program  *)
(* passed; a scope hint and an embedding have been extracted by PyO3.        *)

\* Provenance(source, derived_from)
PyProvenance(source, derived_from) ==
    [py |-> "Provenance", provenance |-> Provenance(source, derived_from)]

provenance_from_py(o) ==
    CASE o.py = "Provenance" -> Ok(o.provenance)
      [] o.py = "str" -> IF IsOk(to_str(o.str)) THEN Ok(Provenance(o.str, <<>>))
                         ELSE to_str(o.str)
      [] OTHER -> Raise("TypeError")

\* Vec<f32> of a sequence of Python floats.
ToF32(embedding) ==
    IF embedding = None THEN None
    ELSE Some([i \in DOMAIN embedding[1] |-> AsF32(embedding[1][i])])

\* finish, once the payload and the provenance have been converted.
finish(payload, provenance, call) ==
    LET parts == Collect(<<payload, provenance>>) IN
    IF IsOk(parts)
    THEN Ok(Item(parts.ok[1], parts.ok[2], call.scope_hint, ToF32(call.embedding)))
    ELSE parts

from_triples(call) ==
    LET triples == Iterated(call.triples)
        quads == IF Iterates(call.triples)
                 THEN Collect([i \in DOMAIN triples |-> triple_from_py(triples[i])])
                 ELSE Raise("TypeError")
    IN  finish(IF IsOk(quads) THEN Ok(Triples(quads.ok)) ELSE quads,
               provenance_from_py(call.provenance), call)

event(call) ==
    LET kind == to_str(call.kind)
        body == json_from_py(call.body)
    IN  finish(IF ~IsOk(kind) THEN kind ELSE IF IsOk(body) THEN Ok(Event(kind.ok, body.ok))
               ELSE body,
               provenance_from_py(call.provenance), call)

chunk(call) ==
    LET strings == Collect(<<to_str(call.content), to_str(call.content_type)>>)
    IN  finish(IF IsOk(strings) THEN Ok(Chunk(strings.ok[1], strings.ok[2])) ELSE strings,
               provenance_from_py(call.provenance), call)

\* What the constructor returns; with_provenance makes a copy of its item.
Build(call) ==
    LET item == CASE call.ctor = "from_triples" -> from_triples(call)
                  [] call.ctor = "event" -> event(call)
                  [] call.ctor = "chunk" -> chunk(call)
        other == provenance_from_py(call.with_provenance[1])
    IN  IF ~IsOk(item) \/ call.with_provenance = None THEN item
        ELSE IF IsOk(other) THEN Ok([item.ok EXCEPT !.provenance = other.ok]) ELSE other

\* The getters of a ContextItem, None where they return None.
Shown(item) ==
    LET p == item.payload IN
    [payload_type |-> p.type,
     triples |-> IF p.type = "triples"
                 THEN Some([i \in DOMAIN p.triples |-> triple_to_py(p.triples[i])]) ELSE None,
     event_kind |-> IF p.type = "event" THEN Some(p.kind) ELSE None,
     event_body |-> IF p.type = "event" THEN Some(json_to_py(p.body)) ELSE None,
     content |-> IF p.type = "chunk" THEN Some(p.content) ELSE None,
     content_type |-> IF p.type = "chunk" THEN Some(p.content_type) ELSE None,
     provenance |-> item.provenance,
     scope_hint |-> item.scope_hint,
     embedding |-> item.embedding]

-----------------------------------------------------------------------------
(* Errors of the Session *)

SessionErrors == {"CapabilityShortfallError", "MissingProvenanceError", "InvalidItemError",
                  "UnknownItemError", "ScopeMismatchError", "DurabilityViolationError",
                  "PremiumOnlyError", "NotYetImplementedError", "CorruptStoreError",
                  "StorageError", "SessionClosedError"}
PremiumErrors == {"ShaclUnavailableError", "DatalogUnavailableError"}
PyErrors == {"TypeError", "ValueError", "UnicodeEncodeError"}

\* Faulty variant: an exception of the premium tier is no SessionError.
BaseWithoutPremium ==
    [c \in {"SessionError"} \cup SessionErrors \cup PremiumErrors \cup PyErrors |->
        CASE c \in SessionErrors \ {"PremiumOnlyError"} -> "SessionError"
          [] c \in PremiumErrors -> "PremiumOnlyError"
          [] c = "UnicodeEncodeError" -> "ValueError"
          [] OTHER -> "Exception"]

\* The class that each exception class derives from.
Base == [c \in {"SessionError"} \cup SessionErrors \cup PremiumErrors \cup PyErrors |->
            CASE c \in SessionErrors -> "SessionError"
              [] c \in PremiumErrors -> "PremiumOnlyError"
              [] c = "UnicodeEncodeError" -> "ValueError"
              [] OTHER -> "Exception"]

\* A class with its ancestors, as many steps up as there are classes.
Lineage(class) ==
    LET parents(S) == S \cup {Base[c] : c \in S \cap DOMAIN Base}
        up[n \in Nat] == IF n = 0 THEN {class} ELSE parents(up[n - 1])
    IN  up[Cardinality(DOMAIN Base)]

\* Whether `except ancestor:' catches the class.
Catches(ancestor, class) == ancestor \in Lineage(class)

feature_name(what) == CASE what = "OwlElReasoner" -> "owl_el_reasoner"
                        [] what = "AnnIndex" -> "ann_index"
                        [] what = "Sparql" -> "sparql"
                        [] OTHER -> "unknown"

\* The exception for a SessionError, with the attributes that are no message.
to_py_err(e) ==
    CASE e.error = "CapabilityShortfall" -> Raise("CapabilityShortfallError")
      [] e.error = "MissingProvenance" -> Raise("MissingProvenanceError")
      [] e.error = "InvalidItem" -> Raise("InvalidItemError")
      [] e.error = "UnknownItem" -> Raise("UnknownItemError")
      [] e.error = "ScopeMismatch" -> Raise("ScopeMismatchError")
      [] e.error = "DurabilityViolation" -> Raise("DurabilityViolationError")
      [] e.error = "PremiumOnly" -> Raise(CASE e.which = "ShaclUnavailable" -> "ShaclUnavailableError"
                                            [] e.which = "DatalogUnavailable"
                                               -> "DatalogUnavailableError"
                                            [] OTHER -> "PremiumOnlyError")
      [] e.error = "NotYetImplemented" ->
           [raised |-> "NotYetImplementedError", feature |-> feature_name(e.what)]
      [] e.error = "Corrupt" -> Raise("CorruptStoreError")
      [] e.error = "Storage" -> Raise("StorageError")
      [] OTHER -> Raise("SessionError")

-----------------------------------------------------------------------------
(* Queries *)

PyScope(s) == [py |-> "ContextScope", scope |-> s]

scopes_from_py(o) ==
    CASE o.py = "None" -> Ok([select |-> "All", scopes |-> <<>>])
      [] o.py = "ContextScope" -> Ok([select |-> "Single", scopes |-> <<o.scope>>])
      [] Iterates(o) ->
           IF \A i \in DOMAIN Iterated(o) : Iterated(o)[i].py = "ContextScope"
           THEN Ok([select |-> "Set",
                    scopes |-> [i \in DOMAIN Iterated(o) |-> Iterated(o)[i].scope]])
           ELSE Raise("TypeError")
      [] OTHER -> Raise("TypeError")

\* ScopeSelection::scopes, up to their order: there is one tier here.
SelectedScopes(selection) ==
    IF selection.select = "All" THEN Scopes ELSE Range(selection.scopes)

pattern_from_py(subject, predicate, object) ==
    LET given(convert(_), o) ==
            IF o = PyNone THEN Ok(None)
            ELSE IF IsOk(convert(o)) THEN Ok(Some(convert(o).ok)) ELSE convert(o)
        terms == Collect(<<given(subject_from_py, subject), given(predicate_from_py, predicate),
                           given(object_from_py, object)>>)
    IN  IF IsOk(terms)
        THEN Ok([subject |-> terms.ok[1], predicate |-> terms.ok[2], object |-> terms.ok[3]])
        ELSE terms

\* ContextQuery.pattern, .sparql, .similarity and .inference, with `build'.
Query(call) ==
    LET pattern == IF call.kind \in {"pattern", "inference"}
                   THEN pattern_from_py(call.subject, call.predicate, call.object)
                   ELSE Ok(None)
        parts == Collect(<<pattern, scopes_from_py(call.scopes)>>)
    IN  IF IsOk(parts)
        THEN Ok([kind |-> call.kind, pattern |-> parts.ok[1], scopes |-> parts.ok[2],
                 limit |-> call.limit, reasoner_hint |-> call.reasoner_hint])
        ELSE parts
=============================================================================
