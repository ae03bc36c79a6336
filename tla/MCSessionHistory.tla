--------------------------- MODULE MCSessionHistory ---------------------------
(* Small instances of SessionHistory for TLC. *)
EXTENDS SessionHistory

MCTopics == {"a"}
OnePayload == {{"a"}}
MCPatterns == {{"a"}}

AllScopes == {<<Enduring, Major, Minor>>}
TwoScopes == {<<Enduring, Minor>>}

OnlyEnduring == {Enduring}
EnduringAndMajor == {Enduring, Major}

TightBounds == [s \in Scopes |-> IF s = Minor THEN 2 ELSE 1]
OneEach == [s \in Scopes |-> 1]
=============================================================================
