------------------------------ MODULE MCSession ------------------------------
(* Small instances of Session for TLC. *)
EXTENDS Session

MCTopics == {"a"}
MCPayloads == {{"a"}, {}}
MCPatterns == {{"a"}}

MergeOrder == <<Enduring, Major, Minor>>
MCSelections == {MergeOrder, <<Minor>>}

OnlyEnduring == {Enduring}

TightBounds == [s \in Scopes |-> IF s = Minor THEN 2 ELSE 1]
=============================================================================
