----------------------------- MODULE Reasoners -----------------------------
(***************************************************************************)
(* Reasoners at work on a store that a program writes to.  The reasoner    *)
(* traits (core/src/reasoner.rs, shacl.rs, datalog.rs) take the store by   *)
(* &mut to materialize, so that nothing else happens meanwhile, and by &   *)
(* to answer: then each read of an answer sees what is committed when it   *)
(* is made, and other threads commit between the reads.                    *)
(***************************************************************************)
EXTENDS DocStore, Reasoning

CONSTANTS
    Data,        \* for each reasoner, and for none, the quads that the program
                 \* writes
    Ops,         \* bound: for each, the calls on one write transaction
    Shapes,      \* the shapes graph, in a store of its own
    Foci,        \* the focus nodes validated on their own
    Programs,    \* the Datalog programs that are loaded
    Candidates   \* the quads asked about

IsQuad(q) == q = [subject |-> q.subject, predicate |-> q.predicate,
                  object |-> q.object, graph |-> q.graph]

\* The program does not write to the graph that SymmetricClosure keeps apart, and
\* Quads has what the reasoners derive.
ASSUME ReasonersAssumption ==
    /\ \A q \in Quads \cup Candidates : IsQuad(q)
    /\ \A r \in DOMAIN Data : Data[r] \subseteq Quads
    /\ \A r \in DOMAIN Data : r = "SymmetricClosure" => \A q \in Data[r] : q.graph # inferred
    /\ \A q \in Quads : q.predicate = "ex:knows" /\ BetweenNamed(q) => Converse(q, inferred) \in Quads
    /\ \A t, u \in Quads :
          /\ BetweenNamed(t) /\ t.predicate = RDF_TYPE
          /\ BetweenNamed(u) /\ u.predicate \in {RDF_TYPE, SUB_CLASS_OF}
          => Triple(t.subject, RDF_TYPE, u.object) \in Quads

\* Programs are vectors of rules, and terms are variables or constants.
IsAtom(a) == a.terms \in Seq({t \in ToSet(a.terms) : t.kind \in {"var", "const"}})

ASSUME ProgramsAssumption ==
    \A p \in Programs :
        /\ p \in Seq(ToSet(p))
        /\ \A r \in ToSet(p) : /\ IsAtom(r.head)
                               /\ r.body \in Seq(ToSet(r.body))
                               /\ \A l \in ToSet(r.body) : IsAtom(l.atom)

VARIABLES
    reasoner,      \* which of them is used, if any
    program,       \* the program that OneStep has loaded
    materialized,  \* the program has materialized and not dematerialized
    pending,       \* what it has committed since and not yet told of
    call,          \* the call that reads the store
    held, seen     \* history: the quads committed all through, and at some
                   \* time during, the call

rvars == <<base, tx, log, start, reasoner, program, materialized, pending, call, held, seen>>

NoCall == [op |-> "none"]
Idle == call = NoCall
\* A call that has its answer returns at once.
Returning == ~Idle /\ call.done
Told == pending.inserted = {} /\ pending.removed = {}

-----------------------------------------------------------------------------
(* The program *)

Begin ==
    /\ ~Returning
    /\ Told
    /\ begin_write
    /\ UNCHANGED <<reasoner, program, materialized, pending, call, held, seen>>

\* contains changes nothing: it is left out where there is a reasoner to watch.
Write ==
    /\ ~Returning
    /\ Len(log) < Ops[reasoner]
    /\ \E q \in Data[reasoner] : insert(q) \/ remove(q) \/ (reasoner = "none" /\ look(q))
    /\ UNCHANGED <<reasoner, program, materialized, pending, call, held, seen>>

\* "The caller must have already inserted them into storage."
Commit ==
    /\ ~Returning
    /\ commit
    /\ pending' = IF materialized THEN [inserted |-> tx.inserted, removed |-> tx.removed]
                  ELSE pending
    /\ held' = held \cap {q \in Quads : base'[q] > 0}
    /\ seen' = IF Idle THEN seen ELSE seen \cup {q \in Quads : base'[q] > 0}
    /\ UNCHANGED <<reasoner, program, materialized, call>>

Rollback ==
    /\ ~Returning
    /\ rollback
    /\ UNCHANGED <<reasoner, program, materialized, pending, call, held, seen>>

-----------------------------------------------------------------------------
(* Materialization: the reasoner has the store to itself *)

Alone == Idle /\ ~tx.open

Changes(b) ==
    /\ base' = b
    /\ UNCHANGED <<tx, log, start, reasoner, program, call, held, seen>>

Derived(S) ==
    CASE reasoner = "SymmetricClosure" -> converses_of_all(S)
      [] reasoner = "ToySubsumption" -> type_quads(edges(S, SUB_CLASS_OF), edges(S, RDF_TYPE))

Materializes == reasoner \in {"SymmetricClosure", "ToySubsumption"}

materialize ==
    /\ Alone /\ Materializes
    /\ Changes(Loaded(base, Derived(Committed)))
    /\ materialized' = TRUE
    /\ pending' = [pending EXCEPT !.inserted = {}]

\* The quads that dematerialize removes; ToySubsumption keeps none apart.
Apart == IF reasoner = "SymmetricClosure" THEN {q \in Committed : q.graph = inferred} ELSE {}

dematerialize ==
    /\ Alone /\ Materializes
    /\ Changes(Unloaded(base, Apart))
    /\ materialized' = FALSE
    /\ pending' = [inserted |-> {}, removed |-> {}]

on_insert ==
    /\ Alone /\ Materializes
    /\ pending.inserted # {}
    /\ Changes(Loaded(base, IF reasoner = "SymmetricClosure"
                            THEN add_converses(Committed, With(pending.inserted, "ex:knows"))
                            ELSE Derived(Committed)))
    /\ pending' = [pending EXCEPT !.inserted = {}]
    /\ UNCHANGED materialized

\* Faulty variant: does not dematerialize first.
on_remove_add_only ==
    /\ Alone /\ Materializes
    /\ pending.removed # {}
    /\ Changes(Loaded(base, Derived(Committed)))
    /\ pending' = [pending EXCEPT !.removed = {}]
    /\ UNCHANGED materialized

\* Faulty variant: removes the converses of what was removed, no more.
on_remove_in_place ==
    /\ Alone /\ Materializes
    /\ pending.removed # {}
    /\ Changes(Unloaded(base, {Converse(q, inferred) : q \in pending.removed}))
    /\ pending' = [pending EXCEPT !.removed = {}]
    /\ UNCHANGED materialized

on_remove ==
    /\ Alone /\ Materializes
    /\ pending.removed # {}
    /\ Changes(Loaded(Unloaded(base, Apart), Derived(Committed \ Apart)))
    /\ pending' = [pending EXCEPT !.removed = {}]
    /\ UNCHANGED materialized

\* load_program takes the engine by &mut self: no evaluation is under way.
load_program ==
    /\ Idle /\ reasoner = "OneStep"
    /\ \E p \in Programs : program' = IF supported(p) THEN p ELSE program
    /\ UNCHANGED <<base, tx, log, start, reasoner, materialized, pending, call, held, seen>>

-----------------------------------------------------------------------------
(* Answers *)

Asked(op, arg) ==
    /\ Idle
    /\ call' = [op |-> op, arg |-> arg, reads |-> 0, sub |-> {}, todo |-> {}, at |-> {},
                found |-> {}, done |-> FALSE]
    /\ held' = Committed
    /\ seen' = Committed
    /\ UNCHANGED <<base, tx, log, start, reasoner, program, materialized, pending>>

Reading(op, n) == call.op = op /\ ~call.done /\ call.reads = n
Goes(c) ==
    /\ call' = c
    /\ UNCHANGED <<base, tx, log, start, reasoner, program, materialized, pending, held, seen>>
Answer(found) == Goes([call EXCEPT !.found = found, !.done = TRUE])
Holds(q, S) == IF q \in S THEN {q} ELSE {}

\* SymmetricKnows::entails, in one transaction.
entails_knows(q) == reasoner = "SymmetricClosure" /\ Asked("knows", q)

knows_itself ==
    /\ Reading("knows", 0)
    /\ IF call.arg \in Committed \/ ~BetweenNamed(call.arg) \/ call.arg.predicate # "ex:knows"
       THEN Answer(Holds(call.arg, Committed))
       ELSE Goes([call EXCEPT !.reads = 1])

\* Faulty variant: looks for the converse in the inferred graph only.
knows_inferred ==
    /\ Reading("knows", 1)
    /\ Answer(IF Converse(call.arg, inferred) \in Committed THEN {call.arg} ELSE {})

knows_converse ==
    /\ Reading("knows", 1)
    /\ Answer(IF Converse(call.arg, call.arg.graph) \in Committed THEN {call.arg} ELSE {})

\* ToySubsumption: entails looks for the quad itself, then realizes; realize and
\* entailed_quads realize at once.  Each read has a transaction of its own.
entails_type(q) == reasoner = "ToySubsumption" /\ Asked("entails", q)
realize == reasoner = "ToySubsumption" /\ Asked("realize", "all")

type_itself ==
    /\ Reading("entails", 0)
    /\ IF call.arg \in Committed THEN Answer({call.arg}) ELSE Goes([call EXCEPT !.reads = 1])

read_sub_classes ==
    /\ Reading("realize", 0) \/ Reading("entails", 1)
    /\ Goes([call EXCEPT !.sub = edges(Committed, SUB_CLASS_OF), !.reads = 2])

read_types ==
    /\ Reading("realize", 2) \/ Reading("entails", 2)
    /\ LET types == type_quads(call.sub, edges(Committed, RDF_TYPE))
       IN  Answer(IF call.op = "realize" THEN types ELSE Holds(call.arg, types))

\* MinCountOne::check, for one focus node or for "all".
validate(focus) == reasoner = "MinCountOne" /\ Asked("validate", focus)

read_shapes ==
    /\ Reading("validate", 0)
    /\ Goes([call EXCEPT !.todo = Constraints(Shapes), !.reads = 1])

read_members ==
    /\ Reading("validate", 1)
    /\ \E c \in call.todo :
          Goes([call EXCEPT !.todo = @ \ {c}, !.reads = 2,
                 !.at = {<<c, f>> : f \in {m \in members(Committed, c.class) :
                                             call.arg \in {"all", m}}}])

\* Faulty variant: reports a focus node that has a value.
read_values_wrongly ==
    /\ Reading("validate", 2)
    /\ \E m \in call.at :
          Goes([call EXCEPT !.at = @ \ {m},
                 !.found = @ \cup (IF objects(Committed, m[2], m[1].path) # {}
                                   THEN {Violation(m[1], m[2])} ELSE {})])

read_values ==
    /\ Reading("validate", 2)
    /\ \E m \in call.at :
          Goes([call EXCEPT !.at = @ \ {m},
                 !.found = @ \cup (IF objects(Committed, m[2], m[1].path) = {}
                                   THEN {Violation(m[1], m[2])} ELSE {})])

next_constraint == Reading("validate", 2) /\ call.at = {} /\ Goes([call EXCEPT !.reads = 1])

report == Reading("validate", 1) /\ call.todo = {} /\ Answer(call.found)

\* OneStep::evaluate: one scan for each rule.
evaluate == reasoner = "OneStep" /\ Asked("evaluate", "all")

evaluate_rule ==
    /\ call.op = "evaluate" /\ ~call.done
    /\ IF call.reads = Len(program) THEN Answer(call.found)
       ELSE Goes([call EXCEPT !.reads = @ + 1,
                   !.found = @ \cup facts(program[call.reads + 1], Committed)])

returned ==
    /\ Returning
    /\ call' = NoCall
    /\ held' = {}
    /\ seen' = {}
    /\ UNCHANGED <<base, tx, log, start, reasoner, program, materialized, pending>>

-----------------------------------------------------------------------------

Init ==
    /\ DocInit
    /\ reasoner \in DOMAIN Data
    /\ program = <<>>
    /\ materialized = FALSE
    /\ pending = [inserted |-> {}, removed |-> {}]
    /\ call = NoCall
    /\ held = {}
    /\ seen = {}

Asks ==
    \/ \E q \in Candidates : entails_knows(q) \/ entails_type(q)
    \/ \E f \in {"all"} \cup Foci : validate(f)
    \/ realize
    \/ evaluate

Reads ==
    \/ knows_itself \/ knows_converse
    \/ type_itself \/ read_sub_classes \/ read_types
    \/ read_shapes \/ read_members \/ read_values \/ next_constraint \/ report
    \/ evaluate_rule \/ returned

Next ==
    \/ Begin \/ Write \/ Commit \/ Rollback
    \/ materialize \/ dematerialize \/ on_insert \/ on_remove
    \/ load_program
    \/ Asks \/ Reads

Spec == Init /\ [][Next]_rvars

-----------------------------------------------------------------------------
(* Reference definitions *)

Asserted(S) == {q \in S : q.graph # inferred}

\* What a set of quads entails when ex:knows is symmetric, graph by graph.
KnowsEntailed(S) ==
    S \cup {Converse(q, q.graph) : q \in {p \in With(S, "ex:knows") : BetweenNamed(p)}}

\* A class is above another when a path of subclass edges leads there.
Above(S) ==
    LET up == edges(S, SUB_CLASS_OF)
        nodes == {e[1] : e \in up} \cup {e[2] : e \in up}
        path(c, d) == \E n \in 1 .. Cardinality(nodes) : \E p \in [0 .. n -> nodes] :
                         p[0] = c /\ p[n] = d /\ \A i \in 1 .. n : <<p[i - 1], p[i]>> \in up
    IN  {e \in nodes \X nodes : path(e[1], e[2])}

TypesEntailed(S) ==
    {Triple(t[1], RDF_TYPE, t[2]) : t \in edges(S, RDF_TYPE)}
    \cup UNION {{Triple(t[1], RDF_TYPE, e[2]) : e \in {a \in Above(S) : a[1] = t[2]}} :
                  t \in edges(S, RDF_TYPE)}

\* The focus nodes that are instances in `typed' and have no value in `valued'.
Missing(focus, typed, valued) ==
    {r \in {Violation(c, f) : c \in Constraints(Shapes), f \in {q.subject : q \in typed}} :
        /\ focus \in {"all", r.focus_node}
        /\ \E s \in Shapes, t \in typed :
              /\ s.predicate = "sh:targetClass" /\ s.subject = r.source_shape
              /\ t.predicate = RDF_TYPE /\ t.subject = r.focus_node /\ t.object = s.object
        /\ ~ \E v \in valued : v.subject = r.focus_node /\ v.predicate = r.result_path}

\* The heads of a rule under the substitutions that make its body a fact.
Conclusions(r, S) ==
    LET body == r.body[1].atom
        terms == {q.subject : q \in S} \cup {q.object : q \in S}
        vars(atom) == {t \in ToSet(atom.terms) : t.kind = "var"}
        subst(s, atom) == [i \in DOMAIN atom.terms |->
                              IF atom.terms[i].kind = "var" THEN s[atom.terms[i]]
                              ELSE atom.terms[i].name]
    IN  {<<r.head.predicate, subst(s, r.head)>> :
           s \in {s \in [vars(body) -> terms] :
                    /\ vars(r.head) \subseteq vars(body)
                    /\ \E q \in S : q.predicate = body.predicate
                                    /\ <<q.subject, q.object>> = subst(s, body)}}

Consequences(S) == UNION {Conclusions(program[i], S) : i \in DOMAIN program}

-----------------------------------------------------------------------------
(* Properties *)

\* "Update materialization to reflect removed quads": once the reasoner has been
\* told of what was committed, every quad of the inferred graph is the converse
\* of one that is asserted.
InferredIsEntailed ==
    reasoner = "SymmetricClosure" /\ Told =>
        \A q \in Committed : q.graph = inferred =>
            \E p \in Asserted(Committed) : Converse(p, inferred) = q

\* What SymmetricClosure has to have in the store, and what ToySubsumption.
KnowsPresent ==
    materialized /\ Told /\ reasoner = "SymmetricClosure" =>
        \A q \in KnowsEntailed({p \in Committed : p.graph = Default}) :
            q \in Committed \/ [q EXCEPT !.graph = inferred] \in Committed

TypesPresent ==
    materialized /\ Told /\ reasoner = "ToySubsumption" => TypesEntailed(Committed) \subseteq Committed

\* "Compute all entailments and persist them to storage": as long as the
\* reasoner is told of every commit, all that the asserted quads entail is in
\* the store, asserted or inferred, whatever was inserted and removed and in
\* which order it was told.
EntailmentsPresent == KnowsPresent /\ TypesPresent

\* SymmetricKnows::entails, and ToySubsumption's entails and realize, each at
\* its return.
KnowsInBetween ==
    Returning /\ call.op = "knows" =>
        /\ KnowsEntailed(held) \cap {call.arg} \subseteq call.found
        /\ call.found \subseteq KnowsEntailed(seen)

TypesInBetween ==
    Returning =>
        /\ call.op = "entails" =>
              (held \cup TypesEntailed(held)) \cap {call.arg} \subseteq call.found
              /\ call.found \subseteq seen \cup TypesEntailed(seen)
        /\ call.op = "realize" =>
              TypesEntailed(held) \subseteq call.found /\ call.found \subseteq TypesEntailed(seen)

\* entails and realize read the store several times while others commit.  They
\* find all that follows from the quads committed all through the call, and
\* nothing that does not follow from those committed at some time during it.
EntailedInBetween == KnowsInBetween /\ TypesInBetween

\* A validation report misses no focus node that was an instance all through
\* and never had a value, and blames none that had a value all through or never
\* was an instance; it conforms when there is no result.
ReportInBetween ==
    Returning /\ call.op = "validate" =>
        /\ Missing(call.arg, held, seen) \subseteq from_results(call.found).results
        /\ call.found \subseteq Missing(call.arg, seen, held)
        /\ Missing(call.arg, held, seen) # {} => ~from_results(call.found).conforms

\* Each rule scans the store anew: the result holds all that follows from the
\* facts there all through the evaluation, and only what follows from facts
\* there at some time.
FactsInBetween ==
    Returning /\ call.op = "evaluate" =>
        Consequences(held) \subseteq call.found /\ call.found \subseteq Consequences(seen)
=============================================================================
