----------------------------- MODULE Reasoning -----------------------------
(***************************************************************************)
(* What the reasoners of semanticore-core's documentation compute from the *)
(* quads they have read: the only implementations of its reasoner traits.  *)
(***************************************************************************)
EXTENDS SequencesExt, FiniteSetsExt

CONSTANTS Named   \* the named nodes among the terms

RDF_TYPE == "rdf:type"
SUB_CLASS_OF == "rdfs:subClassOf"
Default == "default graph"
inferred == "ex:inferred"

BetweenNamed(q) == q.subject \in Named /\ q.object \in Named
Converse(q, g) == [subject |-> q.object, predicate |-> q.predicate,
                   object |-> q.subject, graph |-> g]
With(S, p) == {q \in S : q.predicate = p}

-----------------------------------------------------------------------------
(* SymmetricClosure and SymmetricKnows: ex:knows is symmetric *)

\* What add_converses writes to a store that holds S.
add_converses(S, asserted) ==
    {Converse(q, inferred) :
        q \in {p \in asserted : BetweenNamed(p) /\ Converse(p, p.graph) \notin S}}

converses_of_all(S) ==
    add_converses(S, {q \in With(S, "ex:knows") : q.graph = Default})

-----------------------------------------------------------------------------
(* ToySubsumption: rdf:type and rdfs:subClassOf between named nodes *)

edges(S, p) == {<<q.subject, q.object>> : q \in {e \in With(S, p) : BetweenNamed(e)}}

\* One turn of the loop of realization, for one individual: `todo' is the stack
\* of classes still to be looked at.
turn(s, sub) ==
    LET c == Last(s.todo)
        up == SetToSeq({e[2] : e \in {f \in sub : f[1] = c}})
    IN  CASE s.todo = <<>> -> s
          [] s.todo # <<>> /\ c \in s.types -> [types |-> s.types, todo |-> Front(s.todo)]
          [] OTHER -> [types |-> s.types \cup {c}, todo |-> Front(s.todo) \o up]

\* `types' and `todo' after each number of turns.
turns(classes, sub) ==
    LET after[n \in Nat] == IF n = 0 THEN [types |-> {}, todo |-> SetToSeq(classes)]
                            ELSE turn(after[n - 1], sub)
    IN  after

\* Each turn pops a class, and each class and each edge is pushed once: then the
\* stack is empty, and further turns would change nothing.
climb(classes, sub) == turns(classes, sub)[Cardinality(classes) + Cardinality(sub)].types

realization(sub, typed) ==
    UNION {{<<i, c>> : c \in climb({e[2] : e \in {f \in typed : f[1] = i}}, sub)} :
             i \in {e[1] : e \in typed}}

Triple(s, p, o) == [subject |-> s, predicate |-> p, object |-> o, graph |-> Default]

type_quads(sub, typed) == {Triple(r[1], RDF_TYPE, r[2]) : r \in realization(sub, typed)}

-----------------------------------------------------------------------------
(* MinCountOne: every instance of a target class has at least one value *)

objects(S, s, p) == {q.object : q \in {e \in With(S, p) : e.subject = s}}

\* The constraints of a shapes graph, in the order of the two outer loops of
\* check up to the order of the vector.
Constraints(shapes) ==
    UNION {{[shape |-> t.subject, class |-> t.object, path |-> p] :
              p \in objects(shapes, t.subject, "sh:path") \cap Named} :
             t \in With(shapes, "sh:targetClass")}

members(S, class) == {q.subject : q \in {e \in With(S, RDF_TYPE) : e.object = class}}

Violation(c, focus) == [focus_node |-> focus, result_path |-> c.path, source_shape |-> c.shape]

from_results(results) == [conforms |-> results = {}, results |-> results]

-----------------------------------------------------------------------------
(* OneStep: Datalog rules whose body is one positive binary atom *)

Var(v) == [kind |-> "var", name |-> v]
Const(c) == [kind |-> "const", name |-> c]
Atom(p, terms) == [predicate |-> p, terms |-> terms]
Positive(a) == [negative |-> FALSE, atom |-> a]
Negative(a) == [negative |-> TRUE, atom |-> a]
Rule(head, body) == [head |-> head, body |-> body]

supported(program) ==
    \A i \in DOMAIN program : LET body == program[i].body IN
        Len(body) = 1 /\ ~body[1].negative /\ Len(body[1].atom.terms) = 2

\* What a head term stands for, given the body's terms and the quad that they
\* are matched with: at most one value.
lookup(t, terms, row) ==
    IF t.kind = "const" THEN {t.name}
    ELSE LET at == {i \in DOMAIN terms : terms[i] = t}
         IN  IF at = {} THEN {} ELSE {row[Min(at)]}

consts_match(terms, row) == \A i \in DOMAIN terms : terms[i].kind = "const" => terms[i].name = row[i]

\* What the head of a rule becomes, and whether all its terms have a value.
value(t, terms, row) == CHOOSE v \in lookup(t, terms, row) : TRUE
head_args(rule, row) == [i \in DOMAIN rule.head.terms |->
                            value(rule.head.terms[i], rule.body[1].atom.terms, row)]
head_bound(rule, row) == \A i \in DOMAIN rule.head.terms :
                            lookup(rule.head.terms[i], rule.body[1].atom.terms, row) # {}

\* Faulty variant: does not compare the constants of the body.
facts_any_const(rule, S) ==
    LET row(q) == <<q.subject, q.object>>
    IN  {<<rule.head.predicate, head_args(rule, row(q))>> :
           q \in {e \in With(S, rule.body[1].atom.predicate) : head_bound(rule, row(e))}}

\* The facts that a rule adds to the result.
facts(rule, S) ==
    LET body == rule.body[1].atom
        row(q) == <<q.subject, q.object>>
        fires(q) == consts_match(body.terms, row(q)) /\ head_bound(rule, row(q))
    IN  {<<rule.head.predicate, head_args(rule, row(q))>> :
           q \in {e \in With(S, body.predicate) : fires(e)}}
=============================================================================
