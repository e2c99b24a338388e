---------------------------- MODULE MCWebSession ----------------------------
(* Instances of WebSession for TLC.                                        *)
EXTENDS WebSession, TLC

\* Persons, tabs and session ids are each treated alike.
Symmetry == Permutations(Person) \cup Permutations(Tab) \cup Permutations(Sid)
=============================================================================
