-------------------------- MODULE GoalOrderProofs ---------------------------
(***************************************************************************)
(* Proofs about GoalOrder, for any goals, tabs and bound on orders, and    *)
(* whether or not the API closes gaps.                                     *)
(***************************************************************************)
EXTENDS GoalOrder, TLAPS

-----------------------------------------------------------------------------
(* The lists and the operators on them.                                    *)

\* A list gives orders from 1 to MaxOrder to some goals.
LEMMA ListFacts ==
    ASSUME NEW l \in List
    PROVE  DOMAIN l \in SUBSET Goal /\ l \in [DOMAIN l -> 1..MaxOrder]
    BY DEF List

\* Whatever gives such orders to some goals is a list.
LEMMA InList ==
    ASSUME NEW S \in SUBSET Goal, NEW f \in [S -> 1..MaxOrder]
    PROVE  f \in List
    BY DEF List

\* A list without goals is a list.
LEMMA EmptyList == Empty \in List /\ Distinct(Empty)
<1>1. Empty \in [{} -> 1..MaxOrder]
    BY DEF Empty
<1> QED
    BY <1>1, InList DEF Distinct

\* The target order of a move.
Target(l, g, op) == IF op = "up" THEN l[g] - 1 ELSE l[g] + 1

\* moveGoal, case by case: it keeps the goals of the list, moves none but the
\* goal it is asked to move and one that is next to it, and these change places.
LEMMA MoveResult ==
    ASSUME NEW l \in List, NEW g \in DOMAIN l, NEW op \in Operation,
           NEW m \in MoveGoal(l, g, op)
    PROVE  \/ m = l
           \/ /\ Target(l, g, op) # 0
              /\ \A h \in DOMAIN l : l[h] # Target(l, g, op)
              /\ m = [l EXCEPT ![g] = Target(l, g, op)]
           \/ /\ Target(l, g, op) # 0
              /\ \E h \in DOMAIN l :
                    /\ l[h] = Target(l, g, op)
                    /\ m = [l EXCEPT ![h] = l[g], ![g] = Target(l, g, op)]
    BY DEF MoveGoal, Target

\* Moving a goal gives a list of the same goals.
LEMMA MoveKeepsList ==
    ASSUME NEW l \in List, NEW g \in DOMAIN l, NEW op \in Operation,
           NEW m \in MoveGoal(l, g, op), m[g] =< MaxOrder
    PROVE  m \in List /\ DOMAIN m = DOMAIN l
<1> DEFINE to == Target(l, g, op)
<1>1. DOMAIN l \in SUBSET Goal /\ l \in [DOMAIN l -> 1..MaxOrder]
    BY ListFacts
<1>2. to \in Nat
    BY <1>1, OrderAssumption DEF Target
<1>3. CASE m = l
    BY <1>3
<1>4. CASE to # 0 /\ m = [l EXCEPT ![g] = to]
    <2>1. to \in 1..MaxOrder
        BY <1>1, <1>2, <1>4, OrderAssumption
    <2> HIDE DEF to
    <2>2. m \in [DOMAIN l -> 1..MaxOrder]
        BY <1>1, <1>4, <2>1
    <2> QED
        BY <1>1, <2>2, InList
<1>5. ASSUME to # 0,
             NEW h \in DOMAIN l, l[h] = to, m = [l EXCEPT ![h] = l[g], ![g] = to]
      PROVE  m \in List /\ DOMAIN m = DOMAIN l
    <2> HIDE DEF to
    <2>1. l[g] \in 1..MaxOrder /\ to \in 1..MaxOrder
        BY <1>1, <1>5
    <2>2. m \in [DOMAIN l -> 1..MaxOrder]
        BY <1>1, <1>5, <2>1
    <2> QED
        BY <1>1, <2>2, InList
<1> QED
    BY <1>3, <1>4, <1>5, MoveResult

\* Moving a goal keeps distinct orders distinct.
LEMMA MoveKeepsDistinct ==
    ASSUME NEW l \in List, Distinct(l), NEW g \in DOMAIN l, NEW op \in Operation,
           NEW m \in MoveGoal(l, g, op)
    PROVE  Distinct(m)
<1>1. DOMAIN l \in SUBSET Goal /\ l \in [DOMAIN l -> 1..MaxOrder]
    BY ListFacts
<1>2. \A a, b \in DOMAIN l : l[a] = l[b] => a = b
    BY DEF Distinct
<1>3. SUFFICES ASSUME NEW a \in DOMAIN m, NEW b \in DOMAIN m, m[a] = m[b]
               PROVE  a = b
    BY DEF Distinct
<1> DEFINE to == Target(l, g, op)
<1> HIDE DEF to
<1>4. CASE m = l
    BY <1>2, <1>3, <1>4
<1>5. CASE (\A h \in DOMAIN l : l[h] # to) /\ m = [l EXCEPT ![g] = to]
    BY <1>1, <1>2, <1>3, <1>5
<1>6. ASSUME NEW h \in DOMAIN l, l[h] = to, m = [l EXCEPT ![h] = l[g], ![g] = to]
      PROVE  a = b
    BY <1>1, <1>2, <1>3, <1>6
<1> QED
    BY <1>4, <1>5, <1>6, MoveResult DEF to

\* A move of a list with distinct orders exchanges the goal with at most one
\* other.
LEMMA MoveExchangesNeighbours ==
    ASSUME NEW l \in List, Distinct(l), NEW g \in DOMAIN l, NEW op \in Operation,
           NEW m \in MoveGoal(l, g, op)
    PROVE  \E h \in Goal : Exchanged(l, m) \subseteq {<<h, g>>, <<g, h>>}
<1>1. DOMAIN l \in SUBSET Goal /\ l \in [DOMAIN l -> 1..MaxOrder]
    BY ListFacts
<1>2. \A a, b \in DOMAIN l : l[a] = l[b] => a = b
    BY DEF Distinct
<1>3. \A a \in DOMAIN l : l[a] \in Nat
    BY <1>1, OrderAssumption
<1> DEFINE to == Target(l, g, op)
<1>4. to = l[g] - 1 \/ to = l[g] + 1
    BY DEF Target
<1> HIDE DEF to
<1>5. CASE m = l
    <2>1. Exchanged(l, m) = {}
        BY <1>3, <1>5 DEF Exchanged
    <2> QED
        BY <1>1, <2>1
<1>6. CASE (\A h \in DOMAIN l : l[h] # to) /\ m = [l EXCEPT ![g] = to]
    <2>1. ASSUME NEW a \in DOMAIN l, NEW b \in DOMAIN l, l[a] < l[b], m[a] >= m[b]
          PROVE  FALSE
        <3>1. m[a] = IF a = g THEN to ELSE l[a]
            BY <1>1, <1>6
        <3>2. m[b] = IF b = g THEN to ELSE l[b]
            BY <1>1, <1>6
        <3>3. l[a] # to /\ l[b] # to /\ l[a] \in Nat /\ l[b] \in Nat /\ l[g] \in Nat
            BY <1>3, <1>6
        <3> QED
            BY <1>4, <2>1, <3>1, <3>2, <3>3
    <2>2. Exchanged(l, m) = {}
        BY <2>1 DEF Exchanged
    <2> QED
        BY <1>1, <2>2
<1>7. ASSUME NEW h \in DOMAIN l, l[h] = to, m = [l EXCEPT ![h] = l[g], ![g] = to]
      PROVE  Exchanged(l, m) \subseteq {<<h, g>>, <<g, h>>}
    <2>1. SUFFICES ASSUME NEW a \in DOMAIN l, NEW b \in DOMAIN l, l[a] < l[b], m[a] >= m[b]
                   PROVE  (a = h /\ b = g) \/ (a = g /\ b = h)
        BY DEF Exchanged
    <2>2. m[a] = IF a = g THEN to ELSE IF a = h THEN l[g] ELSE l[a]
        BY <1>1, <1>7
    <2>3. m[b] = IF b = g THEN to ELSE IF b = h THEN l[g] ELSE l[b]
        BY <1>1, <1>7
    <2>4. l[a] \in Nat /\ l[b] \in Nat /\ l[g] \in Nat /\ l[h] \in Nat
        BY <1>3
    <2>5. /\ l[a] = l[g] => a = g
          /\ l[b] = l[g] => b = g
          /\ l[a] = l[h] => a = h
          /\ l[b] = l[h] => b = h
        BY <1>2
    <2> QED
        BY <1>4, <1>7, <2>1, <2>2, <2>3, <2>4, <2>5
<1> QED
    BY <1>1, <1>5, <1>6, <1>7, MoveResult DEF to

-----------------------------------------------------------------------------
(* The steps.                                                              *)

\* What a tab shows and what it waits with have their types.
LEMMA TabFacts ==
    /\ \A l \in List : Shows(l) \in TabState
    /\ \A g \in Goal, l \in List : Moves(g, l) \in TabState
<1>1. ASSUME NEW l \in List PROVE Shows(l) \in TabState
    <2>1. Buttons(l) \in SUBSET (Goal \X Operation)
        BY ListFacts DEF Buttons
    <2> QED
        BY <2>1, EmptyList DEF Shows, TabState
<1>2. ASSUME NEW g \in Goal, NEW l \in List PROVE Moves(g, l) \in TabState
    BY DEF Moves, TabState
<1> QED
    BY <1>1, <1>2

\* What a waiting tab has, and what it has posted, is a list of goals.
LEMMA PostedFacts ==
    ASSUME TypeOK, NEW t \in Tab
    PROVE  /\ tabs[t] \in TabState
           /\ tabs[t].posted \in List
           /\ tabs[t].buttons \in SUBSET (Goal \X Operation)
           /\ tabs[t].moving \in Goal \cup {NoGoal}
    BY DEF TypeOK, TabState

\* A move that is written gives the goals that are still there the orders that
\* it computed.
LEMMA WriteIsList ==
    ASSUME TypeOK, NEW t \in Tab, ChangeGoalOrder(t)
    PROVE  list' \in List /\ DOMAIN list' = DOMAIN list
<1> DEFINE posted == tabs[t].posted
<1>1. posted \in List
    BY PostedFacts
<1> HIDE DEF posted
<1>2. /\ DOMAIN list \in SUBSET Goal /\ list \in [DOMAIN list -> 1..MaxOrder]
      /\ posted \in [DOMAIN posted -> 1..MaxOrder]
    BY <1>1, ListFacts DEF TypeOK
<1>3. list' = [g \in DOMAIN list |-> IF g \in DOMAIN posted THEN posted[g] ELSE list[g]]
    BY DEF ChangeGoalOrder, posted
<1>4. list' \in [DOMAIN list -> 1..MaxOrder]
    BY <1>2, <1>3
<1> QED
    BY <1>2, <1>4, InList

\* A goal that joins or leaves leaves a list of goals with distinct orders.
LEMMA JoinLeave ==
    ASSUME TypeOK, NEW g \in Goal, Join(g) \/ Leave(g)
    PROVE  list' \in List /\ (Distinct(list) => Distinct(list'))
<1>1. DOMAIN list \in SUBSET Goal /\ list \in [DOMAIN list -> 1..MaxOrder]
    BY ListFacts DEF TypeOK
<1>2. \A h \in DOMAIN list : list[h] \in Nat /\ list[h] >= 1
    BY <1>1, OrderAssumption
<1>3. CASE Join(g)
    <2>1. PICK n \in 1..MaxOrder :
             /\ \A h \in DOMAIN list : list[h] < n
             /\ list' = [h \in DOMAIN list \cup {g} |-> IF h = g THEN n ELSE list[h]]
        BY <1>3 DEF Join
    <2>2. list' \in [DOMAIN list \cup {g} -> 1..MaxOrder]
        BY <1>1, <2>1
    <2>3. DOMAIN list \cup {g} \in SUBSET Goal
        BY <1>1
    <2>4. list' \in List
        BY <2>2, <2>3, InList
    <2>5. ASSUME Distinct(list), NEW a \in DOMAIN list', NEW b \in DOMAIN list',
                 list'[a] = list'[b]
          PROVE  a = b
        <3>1. \A c \in DOMAIN list \cup {g} :
                 list'[c] = IF c = g THEN n ELSE list[c]
            BY <2>1
        <3>2. n \in Nat
            BY <2>1, OrderAssumption
        <3> QED
            BY <1>2, <2>1, <2>5, <3>1, <3>2 DEF Distinct
    <2> QED
        BY <2>4, <2>5 DEF Distinct
<1>4. CASE Leave(g)
    <2>1. PICK closes \in Closing :
             list' = [h \in DOMAIN list \ {g} |->
                         IF closes /\ list[h] > list[g] THEN list[h] - 1 ELSE list[h]]
        BY <1>4 DEF Leave
    <2>2. g \in DOMAIN list
        BY <1>4 DEF Leave
    <2>3. list' \in [DOMAIN list \ {g} -> 1..MaxOrder]
        BY <1>1, <1>2, <2>1, <2>2, OrderAssumption
    <2>4. list' \in List
        BY <1>1, <2>3, InList
    <2>5. ASSUME Distinct(list), NEW a \in DOMAIN list', NEW b \in DOMAIN list',
                 list'[a] = list'[b]
          PROVE  a = b
        <3>1. \A c \in DOMAIN list \ {g} :
                 list'[c] = IF closes /\ list[c] > list[g] THEN list[c] - 1 ELSE list[c]
            BY <2>1
        <3>2. a \in DOMAIN list \ {g} /\ b \in DOMAIN list \ {g}
            BY <2>1
        <3>3. list[a] # list[g] /\ list[b] # list[g] /\ (list[a] = list[b] => a = b)
            BY <2>2, <2>5, <3>2 DEF Distinct
        <3>4. list[a] \in Nat /\ list[b] \in Nat /\ list[g] \in Nat
            BY <1>2, <2>2, <3>2
        <3>5. CASE closes
            BY <2>5, <3>1, <3>2, <3>3, <3>4, <3>5
        <3>6. CASE ~closes
            BY <2>5, <3>1, <3>2, <3>3, <3>4, <3>6
        <3> QED
            BY <3>5, <3>6
    <2> QED
        BY <2>4, <2>5 DEF Distinct
<1> QED
    BY <1>3, <1>4

\* What a step of reorderGoals leads to: a page, or a move to be written.
LEMMA ReorderResult ==
    ASSUME TypeOK, NEW t \in Tab, ReorderGoals(t)
    PROVE  \/ tabs' = [tabs EXCEPT ![t] = Shows(list)]
           \/ \E g \in DOMAIN list, op \in Operation :
                \E m \in MoveGoal(list, g, op) :
                   /\ m[g] =< MaxOrder
                   /\ tabs' = [tabs EXCEPT ![t] = Moves(g, m)]
<1>1. PICK b \in tabs[t].buttons :
         \/ /\ b[1] \in DOMAIN list
            /\ \E posted \in MoveGoal(list, b[1], b[2]) :
                  /\ posted[b[1]] =< MaxOrder
                  /\ tabs' = [tabs EXCEPT ![t] = Moves(b[1], posted)]
         \/ tabs' = [tabs EXCEPT ![t] = Shows(list)]
    BY DEF ReorderGoals
<1>2. b[2] \in Operation
    BY PostedFacts
<1> QED
    BY <1>1, <1>2

\* Every step keeps the types.
LEMMA TypeStep == IInv /\ Next => TypeOK'
<1> SUFFICES ASSUME TypeOK, Next PROVE TypeOK'
    BY DEF IInv
<1> USE DEF TypeOK
<1>1. list \in List /\ tabs \in [Tab -> TabState] /\ overtaken \in BOOLEAN
    OBVIOUS
<1>2. ASSUME NEW t \in Tab, ViewPlan(t) \/ Fail(t) PROVE TypeOK'
    BY <1>1, <1>2, TabFacts DEF ViewPlan, Fail
<1>3. ASSUME NEW t \in Tab, ReorderGoals(t) PROVE TypeOK'
    <2>1. list' = list /\ overtaken' = overtaken
        BY <1>3 DEF ReorderGoals
    <2>2. CASE tabs' = [tabs EXCEPT ![t] = Shows(list)]
        BY <1>1, <2>1, <2>2, TabFacts
    <2>3. ASSUME NEW g \in DOMAIN list, NEW op \in Operation,
                 NEW m \in MoveGoal(list, g, op), m[g] =< MaxOrder,
                 tabs' = [tabs EXCEPT ![t] = Moves(g, m)]
          PROVE  TypeOK'
        <3>1. m \in List
            BY <2>3, MoveKeepsList
        <3>2. g \in Goal
            BY ListFacts
        <3> QED
            BY <1>1, <2>1, <2>3, <3>1, <3>2, TabFacts
    <2> QED
        BY <1>3, <2>2, <2>3, ReorderResult
<1>4. ASSUME NEW t \in Tab, ChangeGoalOrder(t) PROVE TypeOK'
    <2>1. list' \in List
        BY <1>4, WriteIsList
    <2>2. tabs' = [tabs EXCEPT ![t] = Shows(list')] /\ overtaken' \in BOOLEAN
        BY <1>4 DEF ChangeGoalOrder
    <2> QED
        BY <1>1, <2>1, <2>2, TabFacts
<1>5. ASSUME NEW g \in Goal, Join(g) \/ Leave(g) PROVE TypeOK'
    <2>1. list' \in List
        BY <1>5, JoinLeave
    <2>2. UNCHANGED <<tabs, overtaken>>
        BY <1>5 DEF Join, Leave
    <2> QED
        BY <1>1, <2>1, <2>2
<1> QED
    BY <1>2, <1>3, <1>4, <1>5 DEF Next

\* Every step keeps orders distinct, in the list and in the moves under way.
LEMMA DistinctStep == IInv /\ Next => OrdersStayDistinct' /\ MovesStayDistinct'
<1> SUFFICES ASSUME IInv, Next, ~overtaken'
             PROVE  Distinct(list') /\ \A t \in Tab : Distinct(tabs'[t].posted)
    BY DEF OrdersStayDistinct, MovesStayDistinct
<1>1. ~overtaken
    BY DEF Next, ViewPlan, ReorderGoals, ChangeGoalOrder, Fail, Join, Leave
<1>2. TypeOK /\ Distinct(list) /\ (\A t \in Tab : Distinct(tabs[t].posted))
    BY <1>1 DEF IInv, OrdersStayDistinct, MovesStayDistinct
<1>3. list \in List /\ tabs \in [Tab -> TabState]
    BY <1>2 DEF TypeOK
<1>4. \A l : Distinct(Shows(l).posted)
    BY EmptyList DEF Shows
<1>5. ASSUME NEW t \in Tab, NEW l, tabs' = [tabs EXCEPT ![t] = Shows(l)]
      PROVE  \A u \in Tab : Distinct(tabs'[u].posted)
    BY <1>2, <1>3, <1>4, <1>5
<1>6. ASSUME NEW t \in Tab, ViewPlan(t) \/ Fail(t)
      PROVE  Distinct(list') /\ \A u \in Tab : Distinct(tabs'[u].posted)
    BY <1>2, <1>5, <1>6 DEF ViewPlan, Fail
<1>7. ASSUME NEW t \in Tab, ReorderGoals(t)
      PROVE  Distinct(list') /\ \A u \in Tab : Distinct(tabs'[u].posted)
    <2>1. list' = list
        BY <1>7 DEF ReorderGoals
    <2>2. ASSUME NEW g \in DOMAIN list, NEW op \in Operation,
                 NEW m \in MoveGoal(list, g, op),
                 tabs' = [tabs EXCEPT ![t] = Moves(g, m)]
          PROVE  \A u \in Tab : Distinct(tabs'[u].posted)
        <3>1. Distinct(m)
            BY <1>2, <1>3, MoveKeepsDistinct
        <3>2. Moves(g, m).posted = m
            BY DEF Moves
        <3> QED
            BY <1>2, <1>3, <2>2, <3>1, <3>2
    <2> QED
        BY <1>2, <1>5, <1>7, <2>1, <2>2, ReorderResult
<1>8. ASSUME NEW t \in Tab, ChangeGoalOrder(t)
      PROVE  Distinct(list') /\ \A u \in Tab : Distinct(tabs'[u].posted)
    <2> DEFINE posted == tabs[t].posted
    <2>1. DOMAIN posted = DOMAIN list
        BY <1>8 DEF ChangeGoalOrder
    <2>2. \A g \in DOMAIN list' : g \in DOMAIN posted /\ list'[g] = posted[g]
        BY <1>8, <2>1 DEF ChangeGoalOrder
    <2>3. Distinct(list')
        BY <1>2, <2>2 DEF Distinct
    <2>4. tabs' = [tabs EXCEPT ![t] = Shows(list')]
        BY <1>8 DEF ChangeGoalOrder
    <2> QED
        BY <1>5, <2>3, <2>4
<1>9. ASSUME NEW g \in Goal, Join(g) \/ Leave(g)
      PROVE  Distinct(list') /\ \A u \in Tab : Distinct(tabs'[u].posted)
    <2>1. tabs' = tabs
        BY <1>9 DEF Join, Leave
    <2> QED
        BY <1>2, <1>9, <2>1, JoinLeave
<1> QED
    BY <1>6, <1>7, <1>8, <1>9 DEF Next

\* The inductive invariant: what the tabs are about to write has distinct orders
\* too.
THEOREM InductiveInvariant == Spec => []IInv
<1>1. Init => IInv
    <2> SUFFICES ASSUME Init PROVE IInv
        OBVIOUS
    <2>1. TypeOK
        BY EmptyList, TabFacts DEF Init, TypeOK
    <2>2. OrdersStayDistinct
        BY EmptyList DEF Init, OrdersStayDistinct
    <2>3. \A t \in Tab : tabs[t].posted = Empty
        BY DEF Init, Shows
    <2> QED
        BY <2>1, <2>2, <2>3, EmptyList DEF IInv, MovesStayDistinct
<1>2. IInv /\ [Next]_vars => IInv'
    <2>1. IInv /\ Next => IInv'
        BY TypeStep, DistinctStep DEF IInv
    <2>2. IInv /\ UNCHANGED vars => IInv'
        BY DEF IInv, TypeOK, OrdersStayDistinct, MovesStayDistinct, vars
    <2> QED
        BY <2>1, <2>2
<1> QED
    BY <1>1, <1>2, PTL DEF Spec

\* Orders are positive and each goal has one: moveGoal never writes an order
\* of 0, however the list has changed under a page's buttons.
THEOREM TypeCorrect == Spec => []TypeOK
<1>1. IInv => TypeOK
    BY DEF IInv
<1> QED
    BY <1>1, InductiveInvariant, PTL

\* No two goals get the same order from moves, unless one was written to a list
\* that had gained or lost a goal.
THEOREM OrdersDistinct == Spec => []OrdersStayDistinct
<1>1. IInv => OrdersStayDistinct
    BY DEF IInv
<1> QED
    BY <1>1, InductiveInvariant, PTL

\* A move exchanges a goal with at most its neighbour.
THEOREM OnePlace == Spec => MovesOnePlace
<1>1. ASSUME IInv, Next, NEW t \in Tab, ~overtaken, ~Waiting(t), Waiting(t)'
      PROVE  \E h \in Goal :
                Exchanged(list, tabs'[t].posted) \subseteq
                    {<<h, tabs'[t].moving>>, <<tabs'[t].moving, h>>}
    <2>1. TypeOK /\ Distinct(list)
        BY <1>1 DEF IInv, OrdersStayDistinct
    <2>2. list \in List /\ tabs \in [Tab -> TabState]
        BY <2>1 DEF TypeOK
    <2>3. tabs[t].moving = NoGoal /\ tabs'[t].moving # NoGoal
        BY <1>1 DEF Waiting
    <2>4. \A u \in Tab : \A l : tabs' # [tabs EXCEPT ![u] = Shows(l)]
        BY <2>2, <2>3 DEF Shows
    <2>5. PICK u \in Tab : ReorderGoals(u)
        BY <1>1, <2>3, <2>4 DEF Next, ViewPlan, Fail, ChangeGoalOrder, Join, Leave
    <2>6. PICK g \in DOMAIN list, op \in Operation :
             \E m \in MoveGoal(list, g, op) : tabs' = [tabs EXCEPT ![u] = Moves(g, m)]
        BY <2>1, <2>4, <2>5, ReorderResult
    <2>7. PICK m \in MoveGoal(list, g, op) : tabs' = [tabs EXCEPT ![u] = Moves(g, m)]
        BY <2>6
    <2>8. tabs'[t].moving = g /\ tabs'[t].posted = m
        BY <2>2, <2>3, <2>7 DEF Moves
    <2> QED
        BY <2>1, <2>2, <2>8, MoveExchangesNeighbours
<1> DEFINE OnePlaceStep ==
       \A t \in Tab : ~overtaken /\ ~Waiting(t) /\ Waiting(t)' =>
          \E h \in Goal :
              Exchanged(list, tabs'[t].posted) \subseteq
                  {<<h, tabs'[t].moving>>, <<tabs'[t].moving, h>>}
<1>2. IInv /\ [Next]_vars => [OnePlaceStep]_vars
    BY <1>1
<1>3. MovesOnePlace <=> [][OnePlaceStep]_vars
    BY PTL DEF MovesOnePlace
<1> HIDE DEF OnePlaceStep
<1> QED
    BY <1>2, <1>3, InductiveInvariant, PTL DEF Spec
=============================================================================
