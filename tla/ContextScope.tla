----------------------------- MODULE ContextScope -----------------------------
(***************************************************************************)
(* The three context tiers of a Session and their durability order         *)
(* (semanticore-context/src/item.rs).                                      *)
(***************************************************************************)
EXTENDS Integers

Minor == "Minor"
Major == "Major"
Enduring == "Enduring"

Scopes == {Minor, Major, Enduring}

\* Option<ContextScope>::None: no colder scope, nothing left to enforce.
NoScope == "None"

\* The derived Ord of ContextScope: Minor < Major < Enduring.
Durability(s) == CASE s = Minor -> 0
                   [] s = Major -> 1
                   [] s = Enduring -> 2

\* colder(): the target of a one-step demotion.
Colder(s) == CASE s = Enduring -> Major
               [] s = Major -> Minor
               [] OTHER -> NoScope
=============================================================================
