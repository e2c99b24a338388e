------------------------- MODULE AgreementLifecycle -------------------------
(***************************************************************************)
(* What the handlers of the agree-plan and update-agree-plan pages promise *)
(* about a plan's agreement, without pages, goals, links or validation.    *)
(*                                                                         *)
(* An answer is started when a request has found the plan in the right     *)
(* status, and lands when the API records it.  Answers of several          *)
(* requests can be under way at once.                                      *)
(***************************************************************************)
CONSTANT Submission    \* the form submissions that can record an answer

VARIABLES
    agreement,   \* agreementStatus of the plan
    answering,   \* the submissions whose first answer is under way
    updating     \* the submissions whose updated answer is under way

vars == <<agreement, answering, updating>>

First == {"AGREED", "DO_NOT_AGREE", "COULD_NOT_ANSWER"}
Updated == {"UPDATED_AGREED", "UPDATED_DO_NOT_AGREE"}

Init ==
    /\ agreement = "DRAFT"
    /\ answering = {}
    /\ updating = {}

StartAnswer(r) ==
    /\ agreement = "DRAFT"
    /\ r \notin answering \cup updating
    /\ answering' = answering \cup {r}
    /\ UNCHANGED <<agreement, updating>>

StartUpdate(r) ==
    /\ agreement = "COULD_NOT_ANSWER"
    /\ r \notin answering \cup updating
    /\ updating' = updating \cup {r}
    /\ UNCHANGED <<agreement, answering>>

LandAnswer(r) ==
    /\ r \in answering
    /\ agreement' \in First
    /\ answering' = answering \ {r}
    /\ UNCHANGED updating

LandUpdate(r) ==
    /\ r \in updating
    /\ agreement' \in Updated
    /\ updating' = updating \ {r}
    /\ UNCHANGED answering

\* The API refuses or cannot be reached, and the handler fails.
Fail(r) ==
    /\ r \in answering \cup updating
    /\ answering' = answering \ {r}
    /\ updating' = updating \ {r}
    /\ UNCHANGED agreement

Next ==
    \E r \in Submission :
        \/ StartAnswer(r) \/ StartUpdate(r)
        \/ LandAnswer(r) \/ LandUpdate(r) \/ Fail(r)

Spec == Init /\ [][Next]_vars
=============================================================================
