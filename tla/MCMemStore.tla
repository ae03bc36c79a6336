----------------------------- MODULE MCMemStore -----------------------------
(* Small instances of MemStore and of its contract for TLC. *)
EXTENDS MemContract, TLC

Quad(o, g) == [subject |-> "s", predicate |-> "p", object |-> o, graph |-> g]
InDefault == Quad("o", "default graph")
InG1 == Quad("o", "g1")
InG2 == Quad("o", "g2")

SomeQuads == {InDefault, InG1, InG2}
TwoQuads == {InDefault, InG1}
TwoTxs == {1, 2}
Lists == {<<>>, <<InDefault>>, <<InG1>>, <<InDefault, InG1>>, <<InG1, InG2>>, <<InG1, InG1>>}
SomePositions == {{}, {"graph"}, {"subject", "object"}, {"predicate", "graph"}}
InG3 == Quad("o", "g3")
=============================================================================
