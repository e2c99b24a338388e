----------------------------- MODULE GoalOrder ------------------------------
(***************************************************************************)
(* The order of the goals in one of a plan's two lists, and the tabs whose *)
(* "move up" and "move down" buttons change it.                            *)
(*                                                                         *)
(* A button is a link to /goals/:type/:uuid/:operation.  Its handler reads *)
(* the plan's lists, computes new orders for all goals of the one that     *)
(* :type names, and posts these: a read, and later a write of what was     *)
(* read.  The page with the button may be older than either.               *)
(*                                                                         *)
(* The two lists, "now" and "future", do not meet: the module is one of    *)
(* them, and a goal that is elsewhere (in the other one, removed, not      *)
(* created yet) is out of the list.                                        *)
(***************************************************************************)
EXTENDS Naturals

CONSTANTS
    Goal,        \* goals
    Tab,         \* browser tabs, of one user or of several
    NoGoal,      \* the goal of a tab that is not moving one
    MaxOrder,    \* bound: the highest order of a goal
    Closing      \* whether the API closes the gap that a goal leaves:
                 \* {TRUE}, {FALSE}, or either, as BOOLEAN

ASSUME OrderAssumption == NoGoal \notin Goal /\ MaxOrder \in Nat /\ Closing \subseteq BOOLEAN

VARIABLES
    list,      \* goalOrder of the goals that are in the list, in the API
    tabs,      \* the buttons each tab shows, or the move it waits for
    overtaken  \* history: a move was written to a list that had gained or
               \* lost a goal since it was read

vars == <<list, tabs, overtaken>>

Operation == {"up", "down"}
List == UNION {[S -> 1..MaxOrder] : S \in SUBSET Goal}

\* While a tab waits, posted is the list that its move of a goal computed.
TabState == [buttons: SUBSET (Goal \X Operation), moving: Goal \cup {NoGoal}, posted: List]

Waiting(t) == tabs[t].moving # NoGoal

Distinct(l) == \A a, b \in DOMAIN l : l[a] = l[b] => a = b

-----------------------------------------------------------------------------
(* moveGoal.  Where several goals have the order that the moved one is to  *)
(* get, the first of them in the API's answer gives way: any of them.      *)

\* Mutant: the goal that was there keeps its order.
MoveOver(l, g, op) ==
    LET target == IF op = "up" THEN l[g] - 1 ELSE l[g] + 1 IN
    IF target = 0 THEN {l} ELSE {[l EXCEPT ![g] = target]}

\* Mutant: the goal changes places with one that is not next to it.
MoveFar(l, g, op) ==
    {[l EXCEPT ![h] = l[g], ![g] = l[h]] :
        h \in {h \in DOMAIN l : IF op = "up" THEN l[h] =< l[g] ELSE l[h] >= l[g]}}

\* Mutant: an order of 0 is allowed.
MoveToZero(l, g, op) ==
    LET target == IF op = "up" THEN l[g] - 1 ELSE l[g] + 1
        there == {h \in DOMAIN l : l[h] = target} IN
    IF there = {} THEN {[l EXCEPT ![g] = target]}
    ELSE {[l EXCEPT ![h] = l[g], ![g] = target] : h \in there}

MoveGoal(l, g, op) ==
    LET target == IF op = "up" THEN l[g] - 1 ELSE l[g] + 1
        there == {h \in DOMAIN l : l[h] = target} IN
    IF target = 0 THEN {l}
    ELSE IF there = {} THEN {[l EXCEPT ![g] = target]}
    ELSE {[l EXCEPT ![h] = l[g], ![g] = target] : h \in there}

-----------------------------------------------------------------------------
Empty == [g \in {} |-> 1]

\* The page of a list has no "up" on its first goal and no "down" on its last.
Buttons(l) ==
    {b \in (DOMAIN l) \X Operation :
        \E h \in DOMAIN l \ {b[1]} :
            IF b[2] = "up" THEN l[h] =< l[b[1]] ELSE l[h] >= l[b[1]]}

Moves(g, l) == [buttons |-> {}, moving |-> g, posted |-> l]
Shows(l) == [buttons |-> Buttons(l), moving |-> NoGoal, posted |-> Empty]

TypeOK ==
    /\ list \in List
    /\ tabs \in [Tab -> TabState]
    /\ overtaken \in BOOLEAN

Init ==
    /\ list = Empty
    /\ tabs = [t \in Tab |-> Shows(Empty)]
    /\ overtaken = FALSE

ViewPlan(t) ==
    /\ ~Waiting(t)
    /\ tabs' = [tabs EXCEPT ![t] = Shows(list)]
    /\ UNCHANGED <<list, overtaken>>

\* reorderGoals, up to its write.  A goal that is not in the list any more
\* leaves it as it is: the goals are posted as they were read, which is not a
\* form the API knows, and the tab gets an error page.
ReorderGoals(t) ==
    /\ ~Waiting(t)
    /\ \E b \in tabs[t].buttons :
          \/ /\ b[1] \in DOMAIN list
             /\ \E posted \in MoveGoal(list, b[1], b[2]) :
                   /\ posted[b[1]] =< MaxOrder
                   /\ tabs' = [tabs EXCEPT ![t] = Moves(b[1], posted)]
          \/ /\ b[1] \notin DOMAIN list
             /\ tabs' = [tabs EXCEPT ![t] = Shows(list)]
    /\ UNCHANGED <<list, overtaken>>

\* changeGoalOrder: the goals that the API is sent get the orders that are sent
\* with them, whatever has happened to the list; the overview is shown again.
ChangeGoalOrder(t) ==
    LET posted == tabs[t].posted IN
    /\ Waiting(t)
    /\ list' = [g \in DOMAIN list |-> IF g \in DOMAIN posted THEN posted[g] ELSE list[g]]
    /\ overtaken' = (overtaken \/ DOMAIN posted # DOMAIN list)
    /\ tabs' = [tabs EXCEPT ![t] = Shows(list')]

\* The API refuses the orders or cannot be reached.
Fail(t) ==
    /\ Waiting(t)
    /\ tabs' = [tabs EXCEPT ![t] = Shows(list)]
    /\ UNCHANGED <<list, overtaken>>

-----------------------------------------------------------------------------
(* What the other handlers do to the list, through the API.                *)

\* A goal that is created, added back or comes from the other list is put at the
\* bottom of this one.
Join(g) ==
    /\ g \notin DOMAIN list
    /\ \E n \in 1..MaxOrder :
          /\ \A h \in DOMAIN list : list[h] < n
          /\ n = 1 \/ \E h \in DOMAIN list : list[h] = n - 1
          /\ list' = [h \in DOMAIN list \cup {g} |-> IF h = g THEN n ELSE list[h]]
    /\ UNCHANGED <<tabs, overtaken>>

\* A goal that is deleted, removed, achieved or goes to the other list leaves
\* a gap, unless the API closes it.
Leave(g) ==
    /\ g \in DOMAIN list
    /\ \E closes \in Closing :
          list' = [h \in DOMAIN list \ {g} |->
                      IF closes /\ list[h] > list[g] THEN list[h] - 1 ELSE list[h]]
    /\ UNCHANGED <<tabs, overtaken>>

-----------------------------------------------------------------------------
Next ==
    \/ \E t \in Tab : ViewPlan(t) \/ ReorderGoals(t) \/ ChangeGoalOrder(t) \/ Fail(t)
    \/ \E g \in Goal : Join(g) \/ Leave(g)

Spec == Init /\ [][Next]_vars

-----------------------------------------------------------------------------
(* Safety.                                                                 *)

\* However many tabs move goals at the same time, and although each writes back
\* a list that the others may have changed meanwhile, no two goals get the same
\* order, as long as no goal joins or leaves between a move's read and its write.
OrdersStayDistinct == ~overtaken => Distinct(list)

\* ... because no move computes equal orders either.
MovesStayDistinct == ~overtaken => \A t \in Tab : Distinct(tabs[t].posted)

IInv ==
    /\ TypeOK
    /\ OrdersStayDistinct
    /\ MovesStayDistinct

\* The goals that a move puts in the other order than they are in.
Exchanged(before, after) ==
    {p \in (DOMAIN before) \X (DOMAIN before) :
        before[p[1]] < before[p[2]] /\ after[p[1]] >= after[p[2]]}

\* A move exchanges the goal with at most one other, its neighbour, and every
\* other pair of goals stays as it was.
MovesOnePlace ==
    [][\A t \in Tab : ~overtaken /\ ~Waiting(t) /\ Waiting(t)' =>
          \E h \in Goal :
              Exchanged(list, tabs'[t].posted) \subseteq
                  {<<h, tabs'[t].moving>>, <<tabs'[t].moving, h>>}]_vars

\* "should move a goal down", "should move a goal up"
\* (server/utils/utils.test.ts:94 and :104): a move that a page offers, of a goal
\* that is still neither the only one nor at that end, changes the goal's place.
MovesMove ==
    [][\A t \in Tab : ~overtaken /\ ~Waiting(t) /\ Waiting(t)' =>
          LET g == tabs'[t].moving
              posted == tabs'[t].posted IN
          (\E h \in DOMAIN list :
              \/ posted[g] < list[g] /\ list[h] < list[g]
              \/ posted[g] > list[g] /\ list[h] > list[g])
          => Exchanged(list, posted) # {}]_vars
=============================================================================
