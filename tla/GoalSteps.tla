----------------------------- MODULE GoalSteps -----------------------------
(***************************************************************************)
(* The steps of one goal, and the tabs in which they are written           *)
(* (AddStepsController) and their statuses updated (UpdateGoalController). *)
(*                                                                         *)
(* Either form is sent to the API as the whole new list, which takes the   *)
(* place of the old one.  Covered: forms that are older than the list, a   *)
(* list that is replaced between a handler's read and its write, a write   *)
(* whose answer is lost, and a write that the UI has given up and that     *)
(* takes effect all the same, later.  Not covered: what becomes of the     *)
(* goal, which is the subject of SentencePlan.                             *)
(*                                                                         *)
(* Not this repository's code: the API keeps the list in the order it is   *)
(* sent, and gives the steps of a new list new uuids, since none is sent   *)
(* with them (stepsService.ts, type NewStep).                              *)
(***************************************************************************)
EXTENDS Integers, Sequences, SequencesExt

CONSTANTS
    Tab,        \* browser tabs
    Text,       \* what a step says: its actor and description
    Blank,      \* a row that is not filled in
    Choice,     \* the statuses users choose
    MaxSteps,   \* the most rows a form gets
    MaxPuts     \* the most lists that are sent to the API

\* The members of StepStatus, in their order.
StatusIndex == [NOT_STARTED |-> 0, IN_PROGRESS |-> 1, CANNOT_BE_DONE_YET |-> 2,
                NO_LONGER_NEEDED |-> 3, COMPLETED |-> 4]
StepStatus == DOMAIN StatusIndex

ASSUME StepsAssumption == /\ Blank \notin Text
                          /\ Choice \subseteq StepStatus
                          /\ MaxSteps \in Nat
                          /\ MaxPuts \in Nat

VARIABLES
    list,    \* the steps in the API
    forms,   \* what each tab shows or waits for
    late,    \* lists on their way to the API whose sender has given up
    puts     \* how many lists have been sent

stepsVars == <<list, forms, late, puts>>

-----------------------------------------------------------------------------
(***************************************************************************)
(* A row of a form, and a step.  "since" is history: the update that gave  *)
(* the step its status, counted from when the steps were last written.     *)
(***************************************************************************)
Row == [text: Text \cup {Blank}, status: StepStatus]
Step == [text: Text, status: StepStatus, since: Nat]

\* The uuid of the i-th step is <<id, i>>.
StepList == [id: Nat, round: Nat, steps: Seq(Step)]

\* A list that is sent: how many updates there were, and the steps.
PutData == [round: Nat, steps: Seq(Step)]

(***************************************************************************)
(* "change" is the page that adds and changes steps, "update" the one that *)
(* updates their statuses; "read" a submitted update that awaits the goal; *)
(* "saving" and "updating" await the API's answer to "put"; "confirm" is   *)
(* the page that asks whether the goal is achieved.                        *)
(***************************************************************************)
Form == [at: {"away", "change", "update", "read", "saving", "updating",
              "confirm"},
         id: Nat,              \* the list an update page was rendered from
         rows: Seq(Row),       \* what the page shows, or what was submitted
         put: PutData,
         landed: BOOLEAN]      \* the API has taken the put

NoPut == [round |-> 0, steps |-> <<>>]
Away == [at |-> "away", id |-> 0, rows |-> <<>>, put |-> NoPut,
         landed |-> FALSE]

StepsInit ==
    /\ list = [id |-> 0, round |-> 0, steps |-> <<>>]
    /\ forms = [t \in Tab |-> Away]
    /\ late = {}
    /\ puts = 0

Resting(t) == forms[t].at \notin {"read", "saving", "updating"}

-----------------------------------------------------------------------------
(***************************************************************************)
(* Adding and changing steps.                                              *)
(***************************************************************************)
EmptyRow == [text |-> Blank, status |-> "NOT_STARTED"]

\* What the pages show of the steps.
ListedRows == [i \in DOMAIN list.steps |->
                  [text |-> list.steps[i].text, status |-> list.steps[i].status]]

\* Of a page from which nothing can be sent any more nothing is to be learnt.
Open(t) == Resting(t) /\ puts < MaxPuts

\* render: the steps as they are, or one empty row.
GetChange(t) ==
    /\ Open(t)
    /\ forms' = [forms EXCEPT ![t] =
          [Away EXCEPT !.at = "change",
              !.rows = IF list.steps = <<>> THEN <<EmptyRow>> ELSE ListedRows]]
    /\ UNCHANGED <<list, late, puts>>

\* The user writes into a row; the server hears of it with the next button.
FillRow(t, i, text) ==
    /\ forms[t].at = "change"
    /\ i \in DOMAIN forms[t].rows
    /\ forms' = [forms EXCEPT ![t].rows[i].text = text]
    /\ UNCHANGED <<list, late, puts>>

Rerender(t, rows) ==
    /\ forms[t].at = "change"
    /\ forms' = [forms EXCEPT ![t].rows = rows]
    /\ UNCHANGED <<list, late, puts>>

\* handleRemoveStep: the page has this button when there are several rows.
RemoveRow(t, i) ==
    /\ Len(forms[t].rows) > 1
    /\ i \in DOMAIN forms[t].rows
    /\ Rerender(t, RemoveAt(forms[t].rows, i))

\* handleClearStep: and this one when there is one row.
ClearRow(t) ==
    /\ Len(forms[t].rows) = 1
    /\ Rerender(t, <<EmptyRow>>)

\* handleAddStep
AddRow(t) ==
    /\ Len(forms[t].rows) < MaxSteps
    /\ Rerender(t, Append(forms[t].rows, EmptyRow))

\* Mutant: a row that is filled is enough.
FilledSome(rows) == \E i \in DOMAIN rows : rows[i].text # Blank

Filled(rows) == \A i \in DOMAIN rows : rows[i].text # Blank

Send(t, at, rows, put) ==
    /\ puts < MaxPuts
    /\ puts' = puts + 1
    /\ forms' = [forms EXCEPT
          ![t] = [Away EXCEPT !.at = at, !.rows = rows, !.put = put]]
    /\ UNCHANGED <<list, late>>

(***************************************************************************)
(* saveAndRedirect, up to saveAllSteps.  A form with an empty row is       *)
(* rendered again instead.  The statuses are those the page was rendered   *)
(* with, and the order is the user's from here on.                         *)
(***************************************************************************)
SaveSteps(t) ==
    /\ forms[t].at = "change"
    /\ Filled(forms[t].rows)
    /\ Send(t, "saving", <<>>,
            [round |-> 0,
             steps |-> [i \in DOMAIN forms[t].rows |->
                           [text |-> forms[t].rows[i].text,
                            status |-> forms[t].rows[i].status, since |-> 0]]])

-----------------------------------------------------------------------------
(***************************************************************************)
(* Updating statuses.                                                      *)
(***************************************************************************)
GetUpdate(t) ==
    /\ Open(t)
    /\ forms' = [forms EXCEPT ![t] =
          [Away EXCEPT !.at = "update", !.id = list.id, !.rows = ListedRows]]
    /\ UNCHANGED <<list, late, puts>>

SubmitUpdate(t, statuses) ==
    /\ forms[t].at = "update"
    /\ forms' = [forms EXCEPT
          ![t].at = "read",
          ![t].rows = [i \in DOMAIN @ |->
                          [@[i] EXCEPT !.status = statuses[i]]]]
    /\ UNCHANGED <<list, late, puts>>

\* Mutant: only the number of steps is compared.
SameNumber(form) == Len(form.rows) = Len(list.steps)

\* updateSteps: each step of the goal is the form's step of the same place.
SameSteps(form) ==
    \A i \in DOMAIN list.steps :
        i \in DOMAIN form.rows /\ <<form.id, i>> = <<list.id, i>>

\* What "updated" tells of a step, besides its new status.
Updated(i, rows) ==
    IF list.steps[i].status = rows[i].status THEN 0 ELSE 1

UpdatedSteps(rows) ==
    [i \in DOMAIN list.steps |->
        [text |-> list.steps[i].text,
         status |-> rows[i].status,
         since |-> IF Updated(i, rows) = 1 THEN list.round + 1
                                           ELSE list.steps[i].since]]

\* Mutant: steps are in order of their status only.
CompareStatus(i, j, rows) == StatusIndex[rows[i].status] - StatusIndex[rows[j].status]

\* The comparison of sortSteps; || takes the second difference if the first
\* is zero.
Compare(i, j, rows) ==
    LET byStatus == StatusIndex[rows[i].status] - StatusIndex[rows[j].status]
    IN  IF byStatus # 0 THEN byStatus
                        ELSE Updated(i, rows) - Updated(j, rows)

\* The orders of 1..n, each as what stands at each place.
Orders(n) == {p \in [1..n -> 1..n] :
                 \A i, j \in 1..n : p[i] = p[j] => i = j}

\* Array.prototype.sort keeps the order of what compares equal.
InOrder(p, rows) ==
    \A i, j \in DOMAIN p :
        i < j => \/ Compare(p[i], p[j], rows) < 0
                 \/ /\ Compare(p[i], p[j], rows) = 0
                    /\ p[i] < p[j]

SortSteps(rows) == {[i \in DOMAIN p |-> UpdatedSteps(rows)[p[i]]] :
    p \in {q \in Orders(Len(list.steps)) : InOrder(q, rows)}}

\* Mutant: one completed step is enough.
SomeCompleted(form) == \E i \in DOMAIN form.rows : form.rows[i].status = "COMPLETED"

(***************************************************************************)
(* The page after an update: to achieve or remove the goal if that was the *)
(* button, the plan if a step of the form is left to do, else the page     *)
(* that asks whether the goal is achieved.                                 *)
(***************************************************************************)
AllCompleted(form) ==
    /\ Len(form.rows) # 0
    /\ \A i \in DOMAIN form.rows : form.rows[i].status = "COMPLETED"

Redirect(t) ==
    \E button \in {"save", "mark-as-achieved", "remove"} :
        forms' = [forms EXCEPT ![t] =
            IF forms[t].at # "saving" /\ button = "save" /\ AllCompleted(@)
            THEN [@ EXCEPT !.at = "confirm", !.landed = FALSE]
            ELSE Away]

\* saveAndRedirect: getGoal, and then without an await up to saveAllSteps.
ReadGoal(t) ==
    /\ forms[t].at = "read"
    /\ \/ /\ ~SameSteps(forms[t])              \* different steps were submitted
          /\ forms' = [forms EXCEPT ![t] = Away]
          /\ UNCHANGED <<list, late, puts>>
       \/ /\ SameSteps(forms[t])               \* no step and no note to save
          /\ list.steps = <<>>
          /\ Redirect(t)
          /\ UNCHANGED <<list, late, puts>>
       \/ /\ SameSteps(forms[t])               \* steps, or else a note alone
          /\ \E steps \in SortSteps(forms[t].rows) :
                Send(t, "updating", forms[t].rows,
                     [round |-> list.round + 1, steps |-> steps])

-----------------------------------------------------------------------------
(***************************************************************************)
(* saveAllSteps.                                                           *)
(***************************************************************************)
Replace(put) ==
    list' = [id |-> list.id + 1, round |-> put.round, steps |-> put.steps]

Land(t) ==
    /\ forms[t].at \in {"saving", "updating"}
    /\ ~forms[t].landed
    /\ Replace(forms[t].put)
    /\ forms' = [forms EXCEPT ![t].landed = TRUE]
    /\ UNCHANGED <<late, puts>>

Answer(t) ==
    /\ forms[t].at \in {"saving", "updating"}
    /\ forms[t].landed
    /\ Redirect(t)
    /\ UNCHANGED <<list, late, puts>>

\* The call fails or runs into its timeout, and the user gets the error page.
\* If the list has not been taken yet it may have got lost, or not.
GiveUp(t) ==
    /\ forms[t].at \in {"read", "saving", "updating"}
    /\ forms' = [forms EXCEPT ![t] = Away]
    /\ \/ late' = late
       \/ /\ forms[t].at # "read" /\ ~forms[t].landed
          /\ late' = late \cup {forms[t].put}
    /\ UNCHANGED <<list, puts>>

LandLate ==
    \E put \in late :
        /\ Replace(put)
        /\ late' = late \ {put}
        /\ UNCHANGED <<forms, puts>>

ServeSteps(t) == ReadGoal(t) \/ Land(t) \/ Answer(t) \/ GiveUp(t)

EditSteps(t) ==
    \/ GetChange(t) \/ ClearRow(t) \/ AddRow(t) \/ SaveSteps(t) \/ GetUpdate(t)
    \/ \E i \in 1..MaxSteps : RemoveRow(t, i)
    \/ \E i \in 1..MaxSteps, text \in Text : FillRow(t, i, text)
    \/ \E statuses \in [DOMAIN forms[t].rows -> Choice] :
          SubmitUpdate(t, statuses)

StepsNext == LandLate \/ \E t \in Tab : ServeSteps(t) \/ EditSteps(t)

StepsSpec == StepsInit /\ [][StepsNext]_stepsVars

-----------------------------------------------------------------------------
StepsTypeOK ==
    /\ list \in StepList
    /\ forms \in [Tab -> Form]
    /\ late \subseteq PutData
    /\ puts \in 0..MaxPuts

(***************************************************************************)
(* An update writes what its user saw and chose: the form's steps, each    *)
(* with the status chosen for it, in whatever order -- however many times  *)
(* other tabs have replaced the list since the form was rendered.  (If the *)
(* goal has lost its steps, nothing is written for any.)                   *)
(***************************************************************************)
UpdateFitsForm ==
    \A t \in Tab :
        (forms[t].at \in {"updating", "confirm"} /\ forms[t].put.steps # <<>>) =>
            \E p \in Orders(Len(forms[t].rows)) :
                /\ Len(forms[t].put.steps) = Len(forms[t].rows)
                /\ \A i \in DOMAIN p :
                      LET step == forms[t].put.steps[i]
                          row == forms[t].rows[p[i]]
                      IN  step.text = row.text /\ step.status = row.status

(***************************************************************************)
(* Among the steps of one status, those that got it by an earlier update   *)
(* stand above those that got it by a later one (utils.ts:118-129), also   *)
(* after many updates, and in lists that take effect late.                 *)
(***************************************************************************)
BySince(steps) ==
    \A i, j \in DOMAIN steps :
        (i < j /\ steps[i].status = steps[j].status) =>
            steps[i].since <= steps[j].since

SectionsInOrder ==
    /\ BySince(list.steps)
    /\ \A t \in Tab : BySince(forms[t].put.steps)
    /\ \A put \in late : BySince(put.steps)

(***************************************************************************)
(* Whoever is asked whether the goal is achieved has left no step of it to *)
(* do: all the steps that the update wrote are completed.                  *)
(***************************************************************************)
AskedWhenCompleted ==
    \A t \in Tab : forms[t].at = "confirm" =>
        \A i \in DOMAIN forms[t].put.steps :
            forms[t].put.steps[i].status = "COMPLETED"
=============================================================================
