-------------------------- MODULE GoalStepsProofs --------------------------
(***************************************************************************)
(* Proofs about the steps of a goal, for any number of tabs, steps and     *)
(* lists sent.                                                             *)
(*                                                                         *)
(* The invariant speaks of one form and the list at a time (FormOK): a     *)
(* handler changes one form and leaves the list alone, and a list that     *)
(* takes effect has a new id, which no form has.                           *)
(*                                                                         *)
(* The lemmas about lists in order are those of AssessmentAreasProofs,     *)
(* whose lists are sorted too.                                             *)
(***************************************************************************)
EXTENDS GoalSteps, AssessmentAreasProofs, TLAPS

-----------------------------------------------------------------------------
(* Sequences.                                                              *)

LEMMA SeqByPlace ==
    ASSUME NEW S, NEW n \in Nat, NEW f, f = [i \in 1..n |-> f[i]],
           \A i \in 1..n : f[i] \in S
    PROVE  f \in Seq(S) /\ Len(f) = n /\ DOMAIN f = 1..n
  OBVIOUS

LEMMA SeqFacts ==
    ASSUME NEW S, NEW s \in Seq(S)
    PROVE  /\ Len(s) \in Nat /\ DOMAIN s = 1..Len(s)
           /\ \A i \in DOMAIN s : s[i] \in S
  OBVIOUS

LEMMA RemoveAtType ==
    ASSUME NEW S, NEW s \in Seq(S), NEW i \in DOMAIN s
    PROVE  RemoveAt(s, i) \in Seq(S)
  BY DEF RemoveAt

-----------------------------------------------------------------------------
(* The invariant.                                                          *)

\* No step got its status after the last update, and the sections are in order.
InRounds(steps, round) ==
    /\ \A i \in DOMAIN steps : steps[i].since <= round
    /\ BySince(steps)

\* The rows of an update page say what the steps of the list say.
ShowsList(f, l) ==
    /\ DOMAIN f.rows = DOMAIN l.steps
    /\ \A i \in DOMAIN f.rows : f.rows[i].text = l.steps[i].text

\* What is sent are the rows of the form, in some order.
PutFitsRows(f) ==
    \E p \in Orders(Len(f.rows)) :
        /\ Len(f.put.steps) = Len(f.rows)
        /\ \A i \in DOMAIN p :
              LET step == f.put.steps[i]
                  row == f.rows[p[i]]
              IN  step.text = row.text /\ step.status = row.status

PutCompleted(f) ==
    \A i \in DOMAIN f.put.steps : f.put.steps[i].status = "COMPLETED"

FormOK(f, l) ==
    /\ f \in Form
    /\ f.id <= l.id
    /\ f.at \in {"update", "read"} => f.put = NoPut
    /\ (f.at \in {"update", "read"} /\ f.id = l.id) => ShowsList(f, l)
    /\ InRounds(f.put.steps, f.put.round)
    /\ (f.at \in {"updating", "confirm"} /\ f.put.steps # <<>>) => PutFitsRows(f)
    /\ f.at = "confirm" => PutCompleted(f)

IInv ==
    /\ list \in StepList
    /\ InRounds(list.steps, list.round)
    /\ forms \in [Tab -> Form]
    /\ \A t \in Tab : FormOK(forms[t], list)
    /\ late \subseteq PutData
    /\ \A put \in late : InRounds(put.steps, put.round)
    /\ puts \in 0..MaxPuts

-----------------------------------------------------------------------------
(* Forms.                                                                  *)

LEMMA StatusNames ==
    StepStatus = {"NOT_STARTED", "IN_PROGRESS", "CANNOT_BE_DONE_YET",
                  "NO_LONGER_NEEDED", "COMPLETED"}
  BY DEF StepStatus, StatusIndex

LEMMA EmptyList == \A S : <<>> \in Seq(S) /\ DOMAIN <<>> = {} /\ Len(<<>>) = 0
  OBVIOUS

LEMMA AwayType == Away \in Form /\ NoPut \in PutData
  BY EmptyList DEF Away, Form, NoPut, PutData

\* A form from which nothing is sent yet, and that shows no list to update.
LEMMA PlainForm ==
    ASSUME NEW l \in StepList, NEW f \in Form, f.id = 0, f.put = NoPut,
           f.at \in {"away", "change"}
    PROVE  FormOK(f, l)
  BY EmptyList DEF FormOK, StepList, NoPut, InRounds, BySince

LEMMA AwayOK == ASSUME NEW l \in StepList PROVE FormOK(Away, l)
  <1>1. Away.id = 0 /\ Away.put = NoPut /\ Away.at = "away"
    BY DEF Away
  <1> QED BY <1>1, AwayType, PlainForm

\* A form of a list that is replaced.
LEMMA OlderForm ==
    ASSUME NEW l \in StepList, NEW f, FormOK(f, l), NEW put \in PutData
    PROVE  FormOK(f, [id |-> l.id + 1, round |-> put.round, steps |-> put.steps])
  <1> DEFINE new == [id |-> l.id + 1, round |-> put.round, steps |-> put.steps]
  <1>1. l.id \in Nat /\ f.id \in Nat /\ f.id <= l.id
    BY DEF FormOK, StepList, Form
  <1>2. f.id <= new.id /\ f.id # new.id
    BY <1>1
  <1> HIDE DEF new
  <1>3. FormOK(f, new)
    BY <1>2 DEF FormOK
  <1> QED BY <1>3 DEF new

LEMMA LandedForm ==
    ASSUME NEW l \in StepList, NEW f, FormOK(f, l)
    PROVE  FormOK([f EXCEPT !.landed = TRUE], l)
  <1> DEFINE g == [f EXCEPT !.landed = TRUE]
  <1>1. f \in Form
    BY DEF FormOK
  <1>2. /\ g \in Form /\ g.id = f.id /\ g.at = f.at /\ g.put = f.put
        /\ g.rows = f.rows
    BY <1>1 DEF Form
  <1> HIDE DEF g
  <1>3. FormOK(g, l)
    BY <1>2 DEF FormOK, ShowsList, PutFitsRows, PutCompleted
  <1> QED BY <1>3 DEF g

\* What an action does to one form is all it does.
LEMMA OneForm ==
    ASSUME IInv, NEW t \in Tab, NEW f, FormOK(f, list),
           forms' = [forms EXCEPT ![t] = f], list' = list
    PROVE  /\ forms' \in [Tab -> Form]
           /\ \A u \in Tab : FormOK(forms'[u], list')
  <1>1. f \in Form
    BY DEF FormOK
  <1>2. \A u \in Tab : forms'[u] = IF u = t THEN f ELSE forms[u]
    BY DEF IInv
  <1>3. forms' \in [Tab -> Form]
    BY <1>1 DEF IInv
  <1> QED BY <1>2, <1>3 DEF IInv

-----------------------------------------------------------------------------
(* Sorting.                                                                *)

LEMMA UpdatedStepsType ==
    ASSUME list \in StepList, NEW rows \in Seq(Row),
           \A i \in DOMAIN list.steps : i \in DOMAIN rows
    PROVE  /\ UpdatedSteps(rows) \in Seq(Step)
           /\ Len(UpdatedSteps(rows)) = Len(list.steps)
  <1> DEFINE n == Len(list.steps)
             u == UpdatedSteps(rows)
  <1>1. list.steps \in Seq(Step) /\ list.round \in Nat
    BY DEF StepList
  <1>2. n \in Nat /\ DOMAIN list.steps = 1..n
    BY <1>1, SeqFacts
  <1>3. u = [i \in 1..n |-> u[i]]
    BY <1>2 DEF UpdatedSteps
  <1>4. ASSUME NEW i \in 1..n PROVE u[i] \in Step
    <2>1. list.steps[i] \in Step /\ rows[i] \in Row
      BY <1>1, <1>2, SeqFacts
    <2> QED BY <2>1, <1>1, <1>2 DEF UpdatedSteps, Step, Row
  <1> HIDE DEF u
  <1>5. u \in Seq(Step) /\ Len(u) = n
    BY <1>2, <1>3, <1>4, SeqByPlace
  <1> QED BY <1>5 DEF u

LEMMA SortedSteps ==
    ASSUME list \in StepList, NEW rows \in Seq(Row),
           \A i \in DOMAIN list.steps : i \in DOMAIN rows,
           NEW steps \in SortSteps(rows)
    PROVE  /\ steps \in Seq(Step)
           /\ \E p \in Orders(Len(list.steps)) :
                 /\ InOrder(p, rows)
                 /\ DOMAIN p = DOMAIN steps
                 /\ \A i \in DOMAIN steps : steps[i] = UpdatedSteps(rows)[p[i]]
           /\ Len(steps) = Len(list.steps)
  <1> DEFINE n == Len(list.steps)
             u == UpdatedSteps(rows)
  <1>1. n \in Nat
    BY SeqFacts DEF StepList
  <1>2. u \in Seq(Step) /\ Len(u) = n
    BY UpdatedStepsType
  <1> HIDE DEF u
  <1>3. PICK p \in Orders(n) : /\ InOrder(p, rows)
                              /\ steps = [i \in DOMAIN p |-> u[p[i]]]
    BY DEF SortSteps, u
  <1>4. p \in [1..n -> 1..n] /\ DOMAIN p = 1..n
    BY <1>3 DEF Orders
  <1>5. \A i \in 1..n : u[p[i]] \in Step
    BY <1>1, <1>2, <1>4, SeqFacts
  <1>6. steps = [i \in 1..n |-> steps[i]] /\ \A i \in 1..n : steps[i] = u[p[i]]
    BY <1>3, <1>4
  <1>7. steps \in Seq(Step) /\ Len(steps) = n /\ DOMAIN steps = 1..n
    BY <1>1, <1>5, <1>6, SeqByPlace
  <1> QED BY <1>3, <1>4, <1>6, <1>7 DEF u

\* The pairs of places of the goal's steps that sortSteps puts in this order.
InThisOrder(rows) ==
    {pair \in (DOMAIN list.steps) \X (DOMAIN list.steps) :
        \/ Compare(pair[1], pair[2], rows) < 0
        \/ Compare(pair[1], pair[2], rows) = 0 /\ pair[1] < pair[2]}

\* The comparison tells all steps apart, as the sort is stable.
LEMMA StepsPutInOrder ==
    ASSUME list \in StepList, NEW rows \in Seq(Row),
           \A i \in DOMAIN list.steps : i \in DOMAIN rows
    PROVE  PutsInOrder(InThisOrder(rows), DOMAIN list.steps)
  <1> DEFINE D == DOMAIN list.steps
             section(i) == StatusIndex[rows[i].status]
             updated(i) == Updated(i, rows)
  <1>1. D \subseteq Int
    BY SeqFacts DEF StepList
  <1>2. \A i \in D : section(i) \in Int
    <2> SUFFICES ASSUME NEW i \in D PROVE section(i) \in Int
      OBVIOUS
    <2>1. rows[i] \in Row
      BY SeqFacts
    <2>2. rows[i].status \in StepStatus
      BY <2>1 DEF Row
    <2>3. \A status \in StepStatus : StatusIndex[status] \in Int
      BY DEF StepStatus, StatusIndex
    <2> QED BY <2>2, <2>3
  <1>3. \A i \in D : updated(i) \in Int
    BY DEF Updated
  <1>4. \A i, j \in D :
           <<i, j>> \in InThisOrder(rows) <=>
              \/ section(i) < section(j)
              \/ section(i) = section(j) /\ updated(i) < updated(j)
              \/ section(i) = section(j) /\ updated(i) = updated(j) /\ i < j
    <2> SUFFICES ASSUME NEW i \in D, NEW j \in D
                 PROVE  <<i, j>> \in InThisOrder(rows) <=>
                          \/ section(i) < section(j)
                          \/ section(i) = section(j) /\ updated(i) < updated(j)
                          \/ section(i) = section(j) /\ updated(i) = updated(j) /\ i < j
      OBVIOUS
    <2>1. Compare(i, j, rows) = IF section(i) - section(j) # 0
                                THEN section(i) - section(j)
                                ELSE updated(i) - updated(j)
      BY DEF Compare
    <2>2. <<i, j>> \in InThisOrder(rows) <=>
             \/ Compare(i, j, rows) < 0
             \/ Compare(i, j, rows) = 0 /\ i < j
      BY DEF InThisOrder
    <2>3. /\ section(i) \in Int /\ section(j) \in Int
          /\ updated(i) \in Int /\ updated(j) \in Int
      BY <1>2, <1>3
    <2> HIDE DEF section, updated
    <2> QED BY <2>1, <2>2, <2>3
  <1> HIDE DEF D, section, updated
  <1>5. \A i \in D : <<i, i>> \notin InThisOrder(rows)
    BY <1>1, <1>2, <1>3, <1>4
  <1>6. \A i, j \in D :
           i # j => <<i, j>> \in InThisOrder(rows) \/ <<j, i>> \in InThisOrder(rows)
    BY <1>1, <1>2, <1>3, <1>4
  <1>7. \A i, j, k \in D :
           <<i, j>> \in InThisOrder(rows) /\ <<j, k>> \in InThisOrder(rows)
              => <<i, k>> \in InThisOrder(rows)
    BY <1>1, <1>2, <1>3, <1>4
  <1> QED BY <1>5, <1>6, <1>7 DEF PutsInOrder, D

(***************************************************************************)
(* sortSteps has one result, whatever the steps and statuses: ReadGoal     *)
(* always finds a list to write, and no other than this one.               *)
(***************************************************************************)
THEOREM StepsSortOneWay ==
    ASSUME list \in StepList, NEW rows \in Seq(Row),
           \A i \in DOMAIN list.steps : i \in DOMAIN rows
    PROVE  \E steps : SortSteps(rows) = {steps}
  <1> DEFINE n == Len(list.steps)
             before == InThisOrder(rows)
             sorted == Sorted(1..n, before)
             In(q) == [i \in DOMAIN q |-> UpdatedSteps(rows)[q[i]]]
  <1>1. n \in Nat /\ DOMAIN list.steps = 1..n
    BY SeqFacts DEF StepList
  <1>2. IsFiniteSet(1..n) /\ Cardinality(1..n) = n
    BY <1>1, FS_Interval
  <1>3. PutsInOrder(before, 1..n)
    BY <1>1, StepsPutInOrder
  <1>4. \A q \in [1..n -> 1..n] :
           InOrder(q, rows) <=> \A i, j \in 1..n : i < j => <<q[i], q[j]>> \in before
    BY <1>1 DEF InOrder, InThisOrder
  <1> HIDE DEF n, before
  <1>5. /\ sorted \in [1..n -> 1..n]
        /\ \A i, j \in 1..n : i < j => <<sorted[i], sorted[j]>> \in before
    <2>1. sorted \in Seq(1..n) /\ Len(sorted) = n
      BY <1>2, <1>3, SortedListsInOrder
    <2>2. \A i, j \in 1..n : i < j => <<sorted[i], sorted[j]>> \in before
      BY <1>2, <1>3, SortedListsInOrder
    <2> HIDE DEF sorted
    <2>3. sorted \in [1..n -> 1..n]
      BY <2>1
    <2> QED BY <2>2, <2>3
  <1>6. \A i, j \in 1..n : sorted[i] = sorted[j] => i = j
    <2>1. ListsOf(sorted, 1..n) /\ Len(sorted) = n
      BY <1>2, <1>3, SortedListsOf, SortedListsInOrder
    <2> HIDE DEF sorted
    <2>2. \A i, j \in 1..Len(sorted) : sorted[i] = sorted[j] => i = j
      BY <2>1 DEF ListsOf
    <2> QED BY <2>1, <2>2
  <1>7. ASSUME NEW q \in [1..n -> 1..n], InOrder(q, rows) PROVE q = sorted
    <2>1. \A i, j \in 1..n : i < j => <<q[i], q[j]>> \in before
      BY <1>4, <1>7
    <2> QED BY <1>2, <1>3, <2>1, OneSortedList
  <1> HIDE DEF sorted
  <1>8. {q \in Orders(n) : InOrder(q, rows)} = {sorted}
    <2>1. sorted \in Orders(n) /\ InOrder(sorted, rows)
      BY <1>4, <1>5, <1>6 DEF Orders
    <2>2. \A q \in Orders(n) : InOrder(q, rows) => q = sorted
      BY <1>7 DEF Orders
    <2> QED BY <2>1, <2>2
  <1>9. SortSteps(rows) = {In(q) : q \in {sorted}}
    BY <1>8 DEF SortSteps, n
  <1> HIDE DEF In
  <1>10. SortSteps(rows) = {In(sorted)}
    BY <1>9
  <1> QED BY <1>10

\* What is written after an update keeps the sections in order.
LEMMA SortedInRounds ==
    ASSUME list \in StepList, InRounds(list.steps, list.round),
           NEW rows \in Seq(Row),
           \A i \in DOMAIN list.steps : i \in DOMAIN rows,
           NEW steps \in SortSteps(rows)
    PROVE  InRounds(steps, list.round + 1)
  <1> DEFINE n == Len(list.steps)
             old == list.steps
  <1>1. /\ list.round \in Nat /\ n \in Nat /\ DOMAIN old = 1..n
        /\ \A i \in 1..n : old[i] \in Step /\ rows[i] \in Row
    BY SeqFacts DEF StepList
  <1>2. PICK p \in Orders(n) :
            /\ InOrder(p, rows)
            /\ DOMAIN p = DOMAIN steps
            /\ \A i \in DOMAIN steps : steps[i] = UpdatedSteps(rows)[p[i]]
    BY SortedSteps
  <1>3. p \in [1..n -> 1..n] /\ DOMAIN steps = 1..n
    BY <1>2 DEF Orders
  <1>4. \A k \in 1..n :
            /\ Updated(k, rows) = IF old[k].status = rows[k].status THEN 0 ELSE 1
            /\ UpdatedSteps(rows)[k].status = rows[k].status
            /\ UpdatedSteps(rows)[k].since =
                  IF Updated(k, rows) = 1 THEN list.round + 1 ELSE old[k].since
    BY <1>1 DEF Updated, UpdatedSteps
  <1>5. \A k \in 1..n : old[k].since \in Nat /\ old[k].since <= list.round
    BY <1>1 DEF InRounds, Step
  <1>6. ASSUME NEW i \in DOMAIN steps PROVE steps[i].since <= list.round + 1
    <2>1. p[i] \in 1..n
      BY <1>3
    <2>2. steps[i].since = UpdatedSteps(rows)[p[i]].since
      BY <1>2
    <2> DEFINE k == p[i]
    <2> HIDE DEF k
    <2>3. UpdatedSteps(rows)[k].since \in {list.round + 1, old[k].since}
      BY <2>1, <1>4 DEF k
    <2>4. old[k].since <= list.round /\ old[k].since \in Nat /\ list.round \in Nat
      BY <2>1, <1>1, <1>5 DEF k
    <2> QED BY <2>2, <2>3, <2>4 DEF k
  <1>7. ASSUME NEW i \in DOMAIN steps, NEW j \in DOMAIN steps, i < j,
               steps[i].status = steps[j].status
        PROVE  steps[i].since <= steps[j].since
    <2> DEFINE a == p[i]
               b == p[j]
    <2>1. a \in 1..n /\ b \in 1..n
      BY <1>3
    <2>2. rows[a].status = rows[b].status
      BY <2>1, <1>2, <1>4, <1>7
    <2>3. rows[a].status \in StepStatus /\ StatusIndex[rows[a].status] \in Int
      <3>1. rows[a].status \in StepStatus
        BY <2>1, <1>1 DEF Row
      <3>2. \A status \in StepStatus : StatusIndex[status] \in Int
        BY DEF StepStatus, StatusIndex
      <3> QED BY <3>1, <3>2
    <2>4. Compare(a, b, rows) = Updated(a, rows) - Updated(b, rows)
      BY <2>2, <2>3 DEF Compare
    <2>5. \/ Updated(a, rows) - Updated(b, rows) < 0
          \/ Updated(a, rows) - Updated(b, rows) = 0 /\ a < b
      BY <2>4, <1>2, <1>3, <1>7 DEF InOrder
    <2>6. \/ Updated(a, rows) = 0 /\ Updated(b, rows) = 1
          \/ Updated(a, rows) = 1 /\ Updated(b, rows) = 1
          \/ Updated(a, rows) = 0 /\ Updated(b, rows) = 0 /\ a < b
      BY <2>1, <2>5, <1>4
    <2>7. ASSUME Updated(a, rows) = 0, Updated(b, rows) = 0, a < b
          PROVE  old[a].since <= old[b].since
      <3>1. old[a].status = old[b].status
        BY <2>1, <2>2, <2>7, <1>4
      <3>2. BySince(old) /\ a \in DOMAIN old /\ b \in DOMAIN old
        BY <2>1, <1>1 DEF InRounds
      <3> HIDE DEF a, b, old
      <3> QED BY <3>1, <3>2, <2>7 DEF BySince
    <2>8. steps[i].since = UpdatedSteps(rows)[a].since /\
          steps[j].since = UpdatedSteps(rows)[b].since
      BY <1>2
    <2>9. /\ UpdatedSteps(rows)[a].since =
                IF Updated(a, rows) = 1 THEN list.round + 1 ELSE old[a].since
          /\ UpdatedSteps(rows)[b].since =
                IF Updated(b, rows) = 1 THEN list.round + 1 ELSE old[b].since
      BY <2>1, <1>4
    <2>10. /\ old[a].since \in Nat /\ old[a].since <= list.round
           /\ old[b].since \in Nat /\ list.round \in Nat
      BY <2>1, <1>1, <1>5
    <2> HIDE DEF a, b
    <2> QED BY <2>6, <2>7, <2>8, <2>9, <2>10
  <1> QED BY <1>6, <1>7 DEF InRounds, BySince

\* And it is what the form says, if the form is one of this list.
LEMMA SortedFits ==
    ASSUME list \in StepList, NEW f, f.rows \in Seq(Row),
           ShowsList(f, list), NEW steps \in SortSteps(f.rows),
           f.put.steps = steps
    PROVE  PutFitsRows(f)
  <1> DEFINE n == Len(list.steps)
  <1>1. /\ n \in Nat /\ DOMAIN list.steps = 1..n /\ DOMAIN f.rows = 1..n
        /\ Len(f.rows) = n
    BY SeqFacts DEF StepList, ShowsList
  <1>2. PICK p \in Orders(n) :
            /\ DOMAIN p = DOMAIN steps
            /\ \A i \in DOMAIN steps : steps[i] = UpdatedSteps(f.rows)[p[i]]
    BY <1>1, SortedSteps
  <1>3. Len(steps) = n
    BY <1>1, SortedSteps
  <1>4. p \in [1..n -> 1..n] /\ DOMAIN p = 1..n
    BY <1>2 DEF Orders
  <1>5. ASSUME NEW i \in DOMAIN p
        PROVE  /\ steps[i].text = f.rows[p[i]].text
               /\ steps[i].status = f.rows[p[i]].status
    <2>1. p[i] \in 1..n
      BY <1>4
    <2>2. \A k \in 1..n : /\ UpdatedSteps(f.rows)[k].text = list.steps[k].text
                          /\ UpdatedSteps(f.rows)[k].status = f.rows[k].status
      BY <1>1 DEF UpdatedSteps
    <2>3. \A k \in 1..n : f.rows[k].text = list.steps[k].text
      BY <1>1 DEF ShowsList
    <2>4. steps[i] = UpdatedSteps(f.rows)[p[i]]
      BY <1>2
    <2> QED BY <2>1, <2>2, <2>3, <2>4
  <1> QED BY <1>1, <1>2, <1>3, <1>5 DEF PutFitsRows

-----------------------------------------------------------------------------
(* The actions.                                                            *)

LEMMA InitIInv == StepsInit => IInv
  <1> SUFFICES ASSUME StepsInit PROVE IInv
    OBVIOUS
  <1>1. list \in StepList /\ list.steps = <<>>
    BY EmptyList DEF StepsInit, StepList
  <1>2. InRounds(list.steps, list.round)
    BY <1>1, EmptyList DEF InRounds, BySince
  <1>3. forms \in [Tab -> Form]
    BY AwayType DEF StepsInit
  <1>4. \A t \in Tab : FormOK(forms[t], list)
    BY <1>1, AwayOK DEF StepsInit
  <1>5. late = {} /\ puts \in 0..MaxPuts
    BY StepsAssumption DEF StepsInit
  <1> QED BY <1>1, <1>2, <1>3, <1>4, <1>5 DEF IInv

\* An action that only changes one form.
LEMMA FormOnly ==
    ASSUME IInv, NEW t \in Tab, NEW f, FormOK(f, list),
           forms' = [forms EXCEPT ![t] = f], UNCHANGED <<list, late, puts>>
    PROVE  IInv'
  BY OneForm DEF IInv

LEMMA RowsOfList ==
    ASSUME list \in StepList
    PROVE  /\ ListedRows \in Seq(Row)
           /\ DOMAIN ListedRows = DOMAIN list.steps
           /\ \A i \in DOMAIN list.steps : ListedRows[i].text = list.steps[i].text
  <1>1. Len(list.steps) \in Nat /\ DOMAIN list.steps = 1..Len(list.steps)
    BY SeqFacts DEF StepList
  <1>2. \A i \in 1..Len(list.steps) : list.steps[i] \in Step
    BY SeqFacts DEF StepList
  <1>3. \A i \in 1..Len(list.steps) : ListedRows[i] \in Row
    BY <1>1, <1>2 DEF ListedRows, Row, Step
  <1>4. ListedRows = [i \in 1..Len(list.steps) |-> ListedRows[i]]
    BY <1>1 DEF ListedRows
  <1>5. ListedRows \in Seq(Row) /\ DOMAIN ListedRows = DOMAIN list.steps
    BY <1>1, <1>3, <1>4, SeqByPlace
  <1> QED BY <1>5 DEF ListedRows

LEMMA EmptyRowType == EmptyRow \in Row
  BY StatusNames DEF EmptyRow, Row

LEMMA GetChangeIInv == ASSUME IInv, NEW t \in Tab, GetChange(t) PROVE IInv'
  <1> DEFINE rows == IF list.steps = <<>> THEN <<EmptyRow>> ELSE ListedRows
             f == [Away EXCEPT !.at = "change", !.rows = rows]
  <1>1. rows \in Seq(Row)
    BY RowsOfList, EmptyRowType DEF IInv
  <1>2. f \in Form /\ f.id = 0 /\ f.put = NoPut /\ f.at = "change"
    <2> HIDE DEF rows
    <2> QED BY <1>1, AwayType DEF Away, Form
  <1>3. forms' = [forms EXCEPT ![t] = f] /\ UNCHANGED <<list, late, puts>>
    BY DEF GetChange
  <1> HIDE DEF f
  <1>4. FormOK(f, list)
    BY <1>2, PlainForm DEF IInv
  <1> QED BY <1>3, <1>4, FormOnly

\* A page of steps with other rows.
LEMMA ChangeForm ==
    ASSUME IInv, NEW t \in Tab, forms[t].at = "change", NEW rows \in Seq(Row)
    PROVE  FormOK([forms[t] EXCEPT !.rows = rows], list)
  <1> DEFINE f == forms[t]
             g == [f EXCEPT !.rows = rows]
  <1>1. f \in Form /\ FormOK(f, list) /\ f.at = "change"
    BY DEF IInv
  <1>2. /\ g \in Form /\ g.id = f.id /\ g.at = f.at /\ g.put = f.put
    BY <1>1 DEF Form
  <1> HIDE DEF f, g
  <1>3. FormOK(g, list)
    BY <1>1, <1>2 DEF FormOK
  <1> QED BY <1>3 DEF f, g

LEMMA RerenderIInv ==
    ASSUME IInv, NEW t \in Tab, NEW rows \in Seq(Row), Rerender(t, rows)
    PROVE  IInv'
  <1>1. forms[t] \in Form /\ forms[t].at = "change"
    BY DEF IInv, Rerender
  <1>2. forms' = [forms EXCEPT ![t] = [forms[t] EXCEPT !.rows = rows]]
    BY <1>1 DEF Rerender, IInv
  <1> QED BY <1>1, <1>2, ChangeForm, FormOnly DEF Rerender

LEMMA RowsType ==
    ASSUME IInv, NEW t \in Tab
    PROVE  /\ forms[t] \in Form /\ forms[t].rows \in Seq(Row)
           /\ Len(forms[t].rows) \in Nat
           /\ DOMAIN forms[t].rows = 1..Len(forms[t].rows)
           /\ \A i \in DOMAIN forms[t].rows : forms[t].rows[i] \in Row
  <1>1. forms[t] \in Form /\ forms[t].rows \in Seq(Row)
    BY DEF IInv, Form
  <1> QED BY <1>1, SeqFacts

LEMMA FillRowIInv ==
    ASSUME IInv, NEW t \in Tab, NEW i, NEW text \in Text, FillRow(t, i, text)
    PROVE  IInv'
  <1> DEFINE r == forms[t].rows
             rows == [r EXCEPT ![i].text = text]
  <1>1. /\ r \in Seq(Row) /\ i \in DOMAIN r /\ Len(r) \in Nat
        /\ DOMAIN r = 1..Len(r) /\ \A k \in DOMAIN r : r[k] \in Row
    BY RowsType DEF FillRow
  <1>2. \A k \in 1..Len(r) : rows[k] \in Row
    BY <1>1 DEF Row
  <1>3. rows = [k \in 1..Len(r) |-> rows[k]]
    BY <1>1
  <1>4. rows \in Seq(Row)
    <2> HIDE DEF rows
    <2> QED BY <1>1, <1>2, <1>3, SeqByPlace
  <1>5. Rerender(t, rows)
    BY RowsType DEF FillRow, Rerender, IInv
  <1> HIDE DEF rows
  <1> QED BY <1>4, <1>5, RerenderIInv

LEMMA ButtonsIInv ==
    ASSUME IInv, NEW t \in Tab,
           \/ \E i \in 1..MaxSteps : RemoveRow(t, i)
           \/ ClearRow(t)
           \/ AddRow(t)
    PROVE  IInv'
  <1> DEFINE r == forms[t].rows
  <1>1. r \in Seq(Row)
    BY RowsType
  <1>2. CASE \E i \in 1..MaxSteps : RemoveRow(t, i)
    <2>1. PICK i \in 1..MaxSteps : RemoveRow(t, i)
      BY <1>2
    <2>2. RemoveAt(r, i) \in Seq(Row)
      BY <1>1, <2>1, RemoveAtType DEF RemoveRow
    <2> QED BY <2>1, <2>2, RerenderIInv DEF RemoveRow
  <1>3. CASE ClearRow(t)
    <2>1. <<EmptyRow>> \in Seq(Row)
      BY EmptyRowType
    <2> QED BY <1>3, <2>1, RerenderIInv DEF ClearRow
  <1>4. CASE AddRow(t)
    <2>1. Append(r, EmptyRow) \in Seq(Row)
      BY <1>1, EmptyRowType
    <2> QED BY <2>1, <1>4, RerenderIInv DEF AddRow
  <1> QED BY <1>2, <1>3, <1>4

LEMMA SendIInv ==
    ASSUME IInv, NEW t \in Tab, NEW at \in {"saving", "updating"},
           NEW rows \in Seq(Row), NEW put \in PutData, Send(t, at, rows, put),
           FormOK([Away EXCEPT !.at = at, !.rows = rows, !.put = put], list)
    PROVE  IInv'
  <1> DEFINE f == [Away EXCEPT !.at = at, !.rows = rows, !.put = put]
  <1>1. forms' = [forms EXCEPT ![t] = f] /\ UNCHANGED <<list, late>>
    BY DEF Send
  <1>2. puts' \in 0..MaxPuts
    BY StepsAssumption DEF IInv, Send
  <1> HIDE DEF f
  <1>3. FormOK(f, list)
    BY DEF f
  <1> QED BY <1>1, <1>2, <1>3, OneForm DEF IInv

LEMMA SaveStepsIInv == ASSUME IInv, NEW t \in Tab, SaveSteps(t) PROVE IInv'
  <1> DEFINE r == forms[t].rows
             steps == [i \in DOMAIN r |->
                          [text |-> r[i].text, status |-> r[i].status, since |-> 0]]
             put == [round |-> 0, steps |-> steps]
             f == [Away EXCEPT !.at = "saving", !.rows = <<>>, !.put = put]
  <1>1. /\ r \in Seq(Row) /\ Len(r) \in Nat /\ DOMAIN r = 1..Len(r)
        /\ \A i \in DOMAIN r : r[i] \in Row
    BY RowsType
  <1>2. \A i \in 1..Len(r) : r[i].text # Blank
    BY <1>1 DEF SaveSteps, Filled
  <1>3. \A i \in 1..Len(r) : steps[i] \in Step /\ steps[i].since = 0
    BY <1>1, <1>2 DEF Row, Step
  <1>4. steps = [i \in 1..Len(r) |-> steps[i]]
    BY <1>1
  <1>5. Send(t, "saving", <<>>, put)
    BY DEF SaveSteps
  <1> HIDE DEF steps
  <1>6. steps \in Seq(Step) /\ DOMAIN steps = 1..Len(r)
    BY <1>1, <1>3, <1>4, SeqByPlace
  <1>7. put \in PutData /\ put.steps = steps /\ put.round = 0
    BY <1>6 DEF PutData
  <1>8. InRounds(put.steps, put.round)
    BY <1>3, <1>6, <1>7 DEF InRounds, BySince
  <1> HIDE DEF put
  <1>9. /\ f \in Form /\ f.id = 0 /\ f.at = "saving" /\ f.put = put
    <2>1. <<>> \in Seq(Row) /\ put \in PutData
      BY <1>7, EmptyList
    <2> QED BY <2>1, AwayType DEF Away, Form
  <1> HIDE DEF f
  <1>10. FormOK(f, list)
    BY <1>8, <1>9 DEF FormOK, IInv, StepList
  <1> QED BY <1>5, <1>7, <1>10, EmptyList, SendIInv DEF f

LEMMA GetUpdateIInv == ASSUME IInv, NEW t \in Tab, GetUpdate(t) PROVE IInv'
  <1> DEFINE f == [Away EXCEPT !.at = "update", !.id = list.id,
                               !.rows = ListedRows]
  <1>1. list.id \in Nat
    BY DEF IInv, StepList
  <1>2. /\ f \in Form /\ f.id = list.id /\ f.put = NoPut /\ f.at = "update"
        /\ f.rows = ListedRows
    BY <1>1, AwayType, RowsOfList DEF Away, Form, IInv
  <1>3. forms' = [forms EXCEPT ![t] = f] /\ UNCHANGED <<list, late, puts>>
    BY DEF GetUpdate
  <1> HIDE DEF f
  <1>4. ShowsList(f, list)
    BY <1>2, RowsOfList DEF ShowsList, IInv
  <1>5. InRounds(f.put.steps, f.put.round)
    BY <1>2, EmptyList DEF NoPut, InRounds, BySince
  <1>6. FormOK(f, list)
    BY <1>1, <1>2, <1>4, <1>5 DEF FormOK
  <1> QED BY <1>3, <1>6, FormOnly

LEMMA SubmitUpdateIInv ==
    ASSUME IInv, NEW t \in Tab, NEW statuses \in [DOMAIN forms[t].rows -> Choice],
           SubmitUpdate(t, statuses)
    PROVE  IInv'
  <1> DEFINE e == forms[t]
             r == e.rows
             rows == [i \in DOMAIN r |-> [r[i] EXCEPT !.status = statuses[i]]]
             f == [e EXCEPT !.at = "read", !.rows = rows]
  <1>1. /\ e \in Form /\ r \in Seq(Row) /\ Len(r) \in Nat
        /\ DOMAIN r = 1..Len(r) /\ \A i \in DOMAIN r : r[i] \in Row
        /\ e.at = "update" /\ FormOK(e, list)
    BY RowsType DEF SubmitUpdate, IInv
  <1>2. \A i \in 1..Len(r) : rows[i] \in Row /\ rows[i].text = r[i].text
    BY <1>1, StepsAssumption DEF Row
  <1>3. rows = [i \in 1..Len(r) |-> rows[i]]
    BY <1>1
  <1>4. forms' = [forms EXCEPT ![t] = f] /\ UNCHANGED <<list, late, puts>>
    <2>1. forms' = [forms EXCEPT ![t].at = "read", ![t].rows = rows]
      BY DEF SubmitUpdate
    <2> HIDE DEF rows
    <2>2. forms' = [forms EXCEPT ![t] = f]
      BY <2>1 DEF IInv
    <2> QED BY <2>2 DEF SubmitUpdate
  <1> HIDE DEF rows
  <1>5. rows \in Seq(Row) /\ DOMAIN rows = DOMAIN r
    BY <1>1, <1>2, <1>3, SeqByPlace
  <1>6. /\ f \in Form /\ f.id = e.id /\ f.put = e.put /\ f.at = "read"
        /\ f.rows = rows
    BY <1>1, <1>5 DEF Form
  <1> HIDE DEF f, e
  <1>7. f.id = list.id => ShowsList(f, list)
    BY <1>1, <1>2, <1>5, <1>6 DEF FormOK, ShowsList
  <1>8. FormOK(f, list)
    BY <1>1, <1>6, <1>7 DEF FormOK
  <1> QED BY <1>4, <1>8, FormOnly

\* The page after an update that is saved, or that there was nothing to save of.
LEMMA RedirectIInv ==
    ASSUME IInv, NEW t \in Tab, Redirect(t), UNCHANGED <<list, late, puts>>,
           forms[t].at = "updating" \/ forms[t].at = "saving" \/
           forms[t].put = NoPut
    PROVE  IInv'
  <1> DEFINE e == forms[t]
             f == [e EXCEPT !.at = "confirm", !.landed = FALSE]
  <1>1. FormOK(e, list) /\ e \in Form
    BY DEF IInv
  <1>2. /\ f \in Form /\ f.id = e.id /\ f.put = e.put /\ f.at = "confirm"
        /\ f.rows = e.rows
    BY <1>1 DEF Form
  <1>3. \/ forms' = [forms EXCEPT ![t] = Away]
        \/ /\ forms' = [forms EXCEPT ![t] = f]
           /\ e.at # "saving" /\ AllCompleted(e)
    BY DEF Redirect, IInv
  <1>4. CASE forms' = [forms EXCEPT ![t] = Away]
    BY <1>4, AwayOK, FormOnly DEF IInv
  <1>5. CASE /\ forms' = [forms EXCEPT ![t] = f]
             /\ e.at # "saving" /\ AllCompleted(e)
    <2> HIDE DEF f
    <2>1. e.put.steps # <<>> => PutFitsRows(e)
      BY <1>1, <1>5, EmptyList DEF FormOK, NoPut
    <2>2. f.put.steps # <<>> => PutFitsRows(f)
      BY <2>1, <1>2 DEF PutFitsRows
    <2>3. PutCompleted(f)
      <3>1. CASE f.put.steps = <<>>
        BY <3>1, EmptyList DEF PutCompleted
      <3>2. CASE f.put.steps # <<>>
        <4>1. PICK p \in Orders(Len(f.rows)) :
                  /\ Len(f.put.steps) = Len(f.rows)
                  /\ \A i \in DOMAIN p :
                        f.put.steps[i].status = f.rows[p[i]].status
          BY <2>2, <3>2 DEF PutFitsRows
        <4>2. /\ Len(f.rows) \in Nat /\ DOMAIN f.rows = 1..Len(f.rows)
              /\ DOMAIN f.put.steps = 1..Len(f.put.steps)
          BY <1>2, SeqFacts DEF Form, PutData
        <4>3. \A i \in 1..Len(f.rows) : f.rows[i].status = "COMPLETED"
          BY <4>2, <1>2, <1>5 DEF AllCompleted
        <4>4. p \in [1..Len(f.rows) -> 1..Len(f.rows)]
          BY <4>1 DEF Orders
        <4> QED BY <4>1, <4>2, <4>3, <4>4 DEF PutCompleted
      <3> QED BY <3>1, <3>2
    <2>4. FormOK(f, list)
      BY <2>2, <2>3, <1>1, <1>2 DEF FormOK
    <2> QED BY <2>4, <1>5, FormOnly
  <1> QED BY <1>3, <1>4, <1>5

LEMMA ReadGoalIInv == ASSUME IInv, NEW t \in Tab, ReadGoal(t) PROVE IInv'
  <1> DEFINE e == forms[t]
  <1>1. /\ e \in Form /\ e.rows \in Seq(Row) /\ FormOK(e, list)
        /\ e.at = "read" /\ e.put = NoPut
    BY RowsType DEF ReadGoal, IInv, FormOK
  <1>2. list \in StepList /\ list.round \in Nat /\ list.id \in Nat
    BY DEF IInv, StepList
  <1>3. CASE forms' = [forms EXCEPT ![t] = Away] /\ UNCHANGED <<list, late, puts>>
    BY <1>2, <1>3, AwayOK, FormOnly
  <1>4. CASE Redirect(t) /\ UNCHANGED <<list, late, puts>>
    BY <1>1, <1>4, RedirectIInv
  <1>5. ASSUME SameSteps(e), NEW steps \in SortSteps(e.rows),
               Send(t, "updating", e.rows,
                    [round |-> list.round + 1, steps |-> steps])
        PROVE  IInv'
    <2> DEFINE put == [round |-> list.round + 1, steps |-> steps]
               f == [Away EXCEPT !.at = "updating", !.rows = e.rows, !.put = put]
    <2>1. \A i \in DOMAIN list.steps : i \in DOMAIN e.rows /\ e.id = list.id
      BY <1>5 DEF SameSteps
    <2>2. /\ steps \in Seq(Step) /\ Len(steps) = Len(list.steps)
      BY <1>1, <1>2, <2>1, SortedSteps
    <2>3. put \in PutData /\ put.steps = steps /\ put.round = list.round + 1
      BY <1>2, <2>2 DEF PutData
    <2>4. InRounds(put.steps, put.round)
      BY <1>1, <1>2, <2>1, <2>3, SortedInRounds DEF IInv
    <2> HIDE DEF put
    <2>5. /\ f \in Form /\ f.id = 0 /\ f.at = "updating" /\ f.put = put
          /\ f.rows = e.rows
      BY <1>1, <2>3, AwayType DEF Away, Form
    <2> HIDE DEF f
    <2>6. ASSUME steps # <<>> PROVE PutFitsRows(f)
      <3>1. Len(list.steps) \in Nat /\ DOMAIN list.steps = 1..Len(list.steps)
        BY <1>2, SeqFacts DEF StepList
      <3>2. Len(steps) # 0
        BY <2>2, <2>6
      <3>3. 1 \in DOMAIN list.steps
        BY <3>1, <3>2, <2>2
      <3>4. ShowsList(e, list)
        BY <3>3, <2>1, <1>1 DEF FormOK
      <3>5. ShowsList(f, list)
        BY <3>4, <2>5 DEF ShowsList
      <3> QED BY <3>5, <2>3, <2>5, <1>1, <1>2, SortedFits
    <2>7. FormOK(f, list)
      BY <1>2, <2>3, <2>4, <2>5, <2>6 DEF FormOK
    <2> QED BY <1>1, <1>5, <2>3, <2>7, SendIInv DEF f, put
  <1> QED BY <1>3, <1>4, <1>5 DEF ReadGoal

LEMMA LandIInv == ASSUME IInv, NEW t \in Tab, Land(t) PROVE IInv'
  <1> DEFINE put == forms[t].put
             new == [id |-> list.id + 1, round |-> put.round, steps |-> put.steps]
             f == [forms[t] EXCEPT !.landed = TRUE]
  <1>1. /\ list \in StepList /\ FormOK(forms[t], list) /\ put \in PutData
        /\ InRounds(put.steps, put.round)
    BY DEF IInv, Form, FormOK
  <1>2. list' = new /\ forms' = [forms EXCEPT ![t] = f] /\ UNCHANGED <<late, puts>>
    BY DEF Land, Replace, IInv
  <1>3. new \in StepList /\ new.steps = put.steps /\ new.round = put.round
    BY <1>1 DEF StepList, PutData
  <1>4. FormOK(f, new)
    BY <1>1, <1>3, OlderForm, LandedForm
  <1> HIDE DEF f, new
  <1>5. \A u \in Tab : u # t => FormOK(forms[u], new)
    BY <1>1, OlderForm DEF IInv, new
  <1>6. \A u \in Tab : forms'[u] = IF u = t THEN f ELSE forms[u]
    BY <1>2 DEF IInv
  <1>7. forms' \in [Tab -> Form]
    BY <1>2, <1>4 DEF IInv, FormOK
  <1> QED BY <1>1, <1>2, <1>3, <1>4, <1>5, <1>6, <1>7 DEF IInv

LEMMA AnswerIInv == ASSUME IInv, NEW t \in Tab, Answer(t) PROVE IInv'
  BY RedirectIInv DEF Answer

LEMMA GiveUpIInv == ASSUME IInv, NEW t \in Tab, GiveUp(t) PROVE IInv'
  <1>1. FormOK(Away, list)
    BY AwayOK DEF IInv
  <1>2. /\ forms' \in [Tab -> Form]
        /\ \A u \in Tab : FormOK(forms'[u], list')
    BY <1>1, OneForm DEF GiveUp
  <1>3. /\ forms[t].put \in PutData
        /\ InRounds(forms[t].put.steps, forms[t].put.round)
    BY DEF IInv, FormOK, Form
  <1>4. late' \subseteq PutData /\ \A put \in late' : InRounds(put.steps, put.round)
    BY <1>3 DEF IInv, GiveUp
  <1> QED BY <1>2, <1>4 DEF IInv, GiveUp

LEMMA LandLateIInv == ASSUME IInv, LandLate PROVE IInv'
  <1>1. PICK put \in late : Replace(put) /\ late' = late \ {put}
                            /\ UNCHANGED <<forms, puts>>
    BY DEF LandLate
  <1> DEFINE new == [id |-> list.id + 1, round |-> put.round, steps |-> put.steps]
  <1>2. list \in StepList /\ put \in PutData /\ InRounds(put.steps, put.round)
    BY DEF IInv
  <1>3. new \in StepList /\ new.steps = put.steps /\ new.round = put.round
    BY <1>2 DEF StepList, PutData
  <1>4. list' = new
    BY <1>1 DEF Replace
  <1>5. \A u \in Tab : FormOK(forms[u], new)
    BY <1>2, OlderForm DEF IInv
  <1> HIDE DEF new
  <1> QED BY <1>1, <1>2, <1>3, <1>4, <1>5 DEF IInv

LEMMA NextIInv == IInv /\ [StepsNext]_stepsVars => IInv'
  <1> SUFFICES ASSUME IInv, [StepsNext]_stepsVars PROVE IInv'
    OBVIOUS
  <1>1. CASE LandLate
    BY <1>1, LandLateIInv
  <1>2. ASSUME NEW t \in Tab, ServeSteps(t) PROVE IInv'
    BY <1>2, ReadGoalIInv, LandIInv, AnswerIInv, GiveUpIInv DEF ServeSteps
  <1>3. ASSUME NEW t \in Tab, EditSteps(t) PROVE IInv'
    <2>1. CASE \/ \E i \in 1..MaxSteps : RemoveRow(t, i)
               \/ ClearRow(t)
               \/ AddRow(t)
      BY <2>1, ButtonsIInv
    <2>2. CASE GetChange(t) \/ SaveSteps(t) \/ GetUpdate(t)
      BY <2>2, GetChangeIInv, SaveStepsIInv, GetUpdateIInv
    <2>3. CASE \E i \in 1..MaxSteps, text \in Text : FillRow(t, i, text)
      BY <2>3, FillRowIInv
    <2>4. CASE \E statuses \in [DOMAIN forms[t].rows -> Choice] :
                  SubmitUpdate(t, statuses)
      BY <2>4, SubmitUpdateIInv
    <2> QED BY <1>3, <2>1, <2>2, <2>3, <2>4 DEF EditSteps
  <1>4. CASE UNCHANGED stepsVars
    BY <1>4 DEF stepsVars, IInv
  <1> QED BY <1>1, <1>2, <1>3, <1>4 DEF StepsNext

-----------------------------------------------------------------------------
(* The theorems.                                                           *)

LEMMA Invariance == StepsSpec => []IInv
  BY InitIInv, NextIInv, PTL DEF StepsSpec

(***************************************************************************)
(* The steps, the forms and what is sent have their types: no step is      *)
(* without text and no status is outside StepStatus (AddStepsController    *)
(* and UpdateGoalController).                                              *)
(***************************************************************************)
THEOREM TypeCorrect == StepsSpec => []StepsTypeOK
  <1>1. IInv => StepsTypeOK
    BY DEF IInv, StepsTypeOK
  <1> QED BY <1>1, Invariance, PTL

(***************************************************************************)
(* An update writes what its user saw and chose, whatever other tabs do    *)
(* (updateSteps in UpdateGoalController).                                  *)
(***************************************************************************)
THEOREM UpdatesFitForms == StepsSpec => []UpdateFitsForm
  <1>1. IInv => UpdateFitsForm
    BY DEF IInv, FormOK, PutFitsRows, UpdateFitsForm
  <1> QED BY <1>1, Invariance, PTL

(***************************************************************************)
(* Steps of one status are in the order in which they got it, as sortSteps *)
(* promises, also after many updates.                                      *)
(***************************************************************************)
THEOREM SectionsStayInOrder == StepsSpec => []SectionsInOrder
  <1>1. IInv => SectionsInOrder
    BY DEF IInv, FormOK, InRounds, SectionsInOrder
  <1> QED BY <1>1, Invariance, PTL

(***************************************************************************)
(* Users are asked whether a goal is achieved after an update that wrote   *)
(* completed steps only (saveAndRedirect in UpdateGoalController).         *)
(***************************************************************************)
THEOREM AskedOnlyWhenCompleted == StepsSpec => []AskedWhenCompleted
  <1>1. IInv => AskedWhenCompleted
    BY DEF IInv, FormOK, PutCompleted, AskedWhenCompleted
  <1> QED BY <1>1, Invariance, PTL
=============================================================================
