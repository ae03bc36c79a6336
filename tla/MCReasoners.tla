----------------------------- MODULE MCReasoners -----------------------------
(* A small instance of Reasoners for TLC. *)
EXTENDS Reasoners

Q(s, p, o, g) == [subject |-> s, predicate |-> p, object |-> o, graph |-> g]
SomeNamed == {"a", "b", "Cat", "Animal", "Thing", "name", "age"}

Knows == {Q("a", "ex:knows", "b", Default), Q("b", "ex:knows", "a", Default),
          Q("b", "ex:knows", "a", "ex:g")}
Converses == {Q("b", "ex:knows", "a", inferred), Q("a", "ex:knows", "b", inferred)}

Types == {Q("a", RDF_TYPE, "Cat", Default), Q("Cat", SUB_CLASS_OF, "Animal", Default),
          Q("Animal", SUB_CLASS_OF, "Thing", "ex:g"), Q("Animal", SUB_CLASS_OF, "Cat", Default)}
Upward == {Q(i, RDF_TYPE, c, Default) : i \in {"a", "b"}, c \in {"Animal", "Thing"}}

People == {Q("a", RDF_TYPE, "Cat", Default), Q("b", RDF_TYPE, "Cat", Default),
           Q("a", "name", "literal", Default), Q("a", "age", "literal", Default)}
SomeShapes == {Q("S", "sh:targetClass", "Cat", Default), Q("S", "sh:path", "name", Default),
               Q("S", "sh:path", "literal", Default),
               Q("T", "sh:targetClass", "Cat", Default), Q("T", "sh:path", "age", Default)}

Facts == {Q("a", "parent", "b", Default), Q("b", "parent", "a", Default),
          Q("b", "likes", "a", Default)}
X == Var("X")
Y == Var("Y")
ChildRule == Rule(Atom("child", <<Y, X>>), <<Positive(Atom("parent", <<X, Y>>))>>)
FanRule == Rule(Atom("fan", <<X, Const("b")>>), <<Positive(Atom("likes", <<X, Const("a")>>))>>)
OfARule == Rule(Atom("of", <<Y>>), <<Positive(Atom("parent", <<Const("a"), Y>>))>>)
UnsafeRule == Rule(Atom("any", <<Var("Z")>>), <<Positive(Atom("likes", <<X, Y>>))>>)
NegatedRule == Rule(Atom("stranger", <<X>>), <<Negative(Atom("likes", <<X, Y>>))>>)
SomePrograms == {<<ChildRule, FanRule>>, <<OfARule, UnsafeRule>>, <<ChildRule, NegatedRule>>}

SomeData == [SymmetricClosure |-> Knows, ToySubsumption |-> Types,
             MinCountOne |-> People, OneStep |-> Facts, none |-> Facts]
OneNode == {"a"}
SomeOps == [SymmetricClosure |-> 2, ToySubsumption |-> 1, MinCountOne |-> 1, OneStep |-> 1,
            none |-> 3]
AllQuads == Knows \cup Converses \cup Types \cup Upward \cup People \cup Facts
Asked1 == {Q("a", "ex:knows", "b", Default), Q("a", "ex:knows", "literal", Default),
           Q("a", RDF_TYPE, "Thing", Default)}
=============================================================================
