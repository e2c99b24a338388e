----------------------------- MODULE MCHandover -----------------------------
(* Instances of WebSession and Landing for TLC, both for sign-ins by        *)
(* handover: the forms of the sessions that they set up, and the pages that *)
(* they lead to.  They share nothing, so one run checks them one beside the *)
(* other: which of them a behaviour is of is chosen at its beginning.       *)
EXTENDS WebSession, Landing, TLC

VARIABLE part

HandoverInit == part \in {"forms", "landing"} /\ Init /\ LandingInit

HandoverNext ==
    \/ part = "forms" /\ Next /\ UNCHANGED <<part, landingVars>>
    \/ part = "landing" /\ LandingNext /\ UNCHANGED <<part, vars>>

HandoverSpec == HandoverInit /\ [][HandoverNext]_<<part, vars, landingVars>>

\* Persons, tabs and session ids are each treated alike; windows, versions and
\* ids are the same model values.
Symmetry == Permutations(Person) \cup Permutations(Tab) \cup Permutations(Sid)
=============================================================================
