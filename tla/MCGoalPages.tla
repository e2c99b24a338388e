---------------------------- MODULE MCGoalPages ----------------------------
(* Instances of GoalSteps, RestCalls, AssessmentAreas and GoalDates for    *)
(* TLC.  They share nothing, so one run checks them one beside the other:  *)
(* which of them a behaviour is of is chosen at its beginning.             *)
EXTENDS GoalSteps, RestCalls, AssessmentAreas, GoalDates

VARIABLE part

Parts == {"steps", "calls", "areas", "dates"}

Init ==
    /\ part \in Parts
    /\ StepsInit /\ CallsInit /\ AreasInit /\ DatesInit
    /\ part # "dates" => today = CHOOSE day \in FirstDay : TRUE

Next ==
    \/ part = "steps" /\ StepsNext /\ UNCHANGED <<part, callsVars, areasVars, datesVars>>
    \/ part = "calls" /\ CallsNext /\ UNCHANGED <<part, stepsVars, areasVars, datesVars>>
    \/ part = "areas" /\ AreasNext /\ UNCHANGED <<part, stepsVars, callsVars, datesVars>>
    \/ part = "dates" /\ DatesNext /\ UNCHANGED <<part, stepsVars, callsVars, areasVars>>

vars == <<part, stepsVars, callsVars, areasVars, datesVars>>

Spec == Init /\ [][Next]_vars /\ CallsFairness

-----------------------------------------------------------------------------
TwoUsers == <<"u1", "u2">>

NeedOf(score, harm, reoffending, complete) ==
    [score |-> score, linkedToHarm |-> harm, linkedToReoffending |-> reoffending,
     sectionComplete |-> complete]

\* Scores without a number, at and around the thresholds, and over the bounds.
Needs == {NeedOf(NotANumber, TRUE, FALSE, TRUE),
          NeedOf(NotPresent, FALSE, FALSE, TRUE),
          NeedOf(1, FALSE, TRUE, TRUE),
          NeedOf(3, FALSE, TRUE, TRUE),
          NeedOf(2, TRUE, FALSE, TRUE),
          NeedOf(7, FALSE, FALSE, TRUE),
          NeedOf(7, FALSE, FALSE, FALSE)}

\* Three months on from each of these days is a month too short for one of the
\* days that follow, or the year changes.
FirstDays == {<<2023, 11, 29>>, <<2024, 2, 28>>, <<2023, 8, 30>>}
TypedDates == {<<2023, 12, 1>>, <<2024, 2, 29>>}
=============================================================================
