----------------------------- MODULE GoalDates -----------------------------
(***************************************************************************)
(* The target date of a goal, and the form in which it is chosen when the  *)
(* goal is created, changed or added again (goalTargetDateUtils and the    *)
(* controllers that use it), while days go by.                             *)
(*                                                                         *)
(* A day begins at once for the server's clock, which is London's, and in  *)
(* UTC.  Left out is what is rendered or compared in the hour after a      *)
(* London midnight in summer, or then in winter with an option that falls  *)
(* on a summer day: toISOString gives the day before.  An option is stored *)
(* as the form sends it; that it is one that was offered is the browser's. *)
(***************************************************************************)
EXTENDS Integers

CONSTANTS
    FirstDay,     \* days on which it may all begin
    TypedDate,    \* dates that users may enter on any day
    MaxNights     \* how many days follow

-----------------------------------------------------------------------------
(***************************************************************************)
(* Dates: a year, a month and a day.                                       *)
(***************************************************************************)
Leap(y) == y % 4 = 0 /\ (y % 100 # 0 \/ y % 400 = 0)

DaysIn(y, m) == IF m = 2 THEN (IF Leap(y) THEN 29 ELSE 28)
                ELSE IF m \in {4, 6, 9, 11} THEN 30 ELSE 31

IsDate(date) == /\ date \in Nat \X (1..12) \X (1..31)
                /\ date[3] <= DaysIn(date[1], date[2])

NoDate == <<0, 0, 0>>

ASSUME DatesAssumption == /\ \A date \in FirstDay \cup TypedDate : IsDate(date)
                          /\ MaxNights \in Nat

Earlier(a, b) == \/ a[1] < b[1]
                 \/ a[1] = b[1] /\ a[2] < b[2]
                 \/ a[1] = b[1] /\ a[2] = b[2] /\ a[3] < b[3]

\* Months are counted from the year 0.
Months(date) == 12 * date[1] + date[2] - 1

\* Mutant: the day stays.
NoOverflow(month, day) == <<month \div 12, (month % 12) + 1, day>>

\* A day of a month that may be too short for it: the days that are too many
\* fall into the next month.
Overflow(month, day) ==
    LET y == month \div 12
        m == (month % 12) + 1
    IN  IF day <= DaysIn(y, m) THEN <<y, m, day>>
        ELSE <<(month + 1) \div 12, ((month + 1) % 12) + 1, day - DaysIn(y, m)>>

NextDay(date) == Overflow(Months(date), date[3] + 1)

\* Mutant: the year stays.
AddMonthsInYear(date, n) ==
    Overflow(12 * date[1] + ((date[2] - 1 + n) % 12), date[3])

\* Date.setMonth
AddMonths(date, n) == Overflow(Months(date) + n, date[3])

\* getDateOptions
OptionMonths == <<3, 6, 12>>
DateOptions(date) == [i \in 1..3 |-> AddMonths(date, OptionMonths[i])]

Among(date, options) == \E i \in 1..3 : options[i] = date

\* The date picker's text: DD/MM/YYYY.
FormatShort(date) == <<date[3], date[2], date[1]>>
DateToISOFormat(text) == <<text[3], text[2], text[1]>>

-----------------------------------------------------------------------------
VARIABLES
    today,
    nights,       \* how many days have gone by
    targetDate,   \* of the goal the user is at; NoDate for a future goal
    form

datesVars == <<today, nights, targetDate, form>>

(***************************************************************************)
(* "reading" is a change page that awaits the goal.  What is offered, and  *)
(* the picker's minimum, are those of the day on which it was rendered.    *)
(* "touched" is history: the user has chosen something.                    *)
(***************************************************************************)
DateForm(date) == [at: {"none", "reading", "shown"},
               rendered: date,
               start: {"none", "yes", "no"},           \* start-working-goal-radio
               radio: {"none", "option", "custom"},    \* date-selection-radio
               option: date,                           \* the value of "option"
               custom: {FormatShort(d) : d \in date},  \* date-selection-custom
               touched: BOOLEAN]

NoForm == [at |-> "none", rendered |-> NoDate, start |-> "none", radio |-> "none",
           option |-> NoDate, custom |-> FormatShort(NoDate), touched |-> FALSE]

DatesInit ==
    /\ today \in FirstDay
    /\ nights = 0
    /\ targetDate = NoDate
    /\ form = NoForm

Midnight ==
    /\ nights < MaxNights
    /\ nights' = nights + 1
    /\ today' = NextDay(today)
    /\ UNCHANGED <<targetDate, form>>

-----------------------------------------------------------------------------
\* The page to create a goal or to add it again: nothing is chosen.
GetBlank ==
    /\ form.at # "reading"
    /\ form' = [NoForm EXCEPT !.at = "shown", !.rendered = today]
    /\ UNCHANGED <<today, nights, targetDate>>

\* ChangeGoalController.render, up to getGoal, ...
OpenChange ==
    /\ form.at # "reading"
    /\ form' = [NoForm EXCEPT !.at = "reading", !.rendered = today]
    /\ UNCHANGED <<today, nights, targetDate>>

\* A radio button is selected if there is one with the form's value.
Selected(f) ==
    IF f.radio = "option" /\ ~Among(f.option, DateOptions(f.rendered))
    THEN [f EXCEPT !.radio = "none", !.option = NoDate] ELSE f

\* Mutant: the option of the same month is selected.
MapGoalToMonth(f) ==
    LET same == {i \in 1..3 : Months(DateOptions(today)[i]) = Months(targetDate)}
    IN  IF same = {} THEN [f EXCEPT !.start = "no"]
        ELSE [f EXCEPT !.start = "yes", !.radio = "option",
                       !.option = DateOptions(today)[CHOOSE i \in same : TRUE]]

\* ... and mapGoalToForm, which asks for today's date once more.
MapGoalToForm(f) ==
    IF targetDate = NoDate THEN [f EXCEPT !.start = "no"]
    ELSE IF Among(targetDate, DateOptions(today))
    THEN [f EXCEPT !.start = "yes", !.radio = "option", !.option = targetDate]
    ELSE [f EXCEPT !.start = "yes", !.radio = "custom",
                   !.custom = FormatShort(targetDate)]

ShowChange ==
    /\ form.at = "reading"
    /\ form' = Selected(MapGoalToForm([form EXCEPT !.at = "shown"]))
    /\ UNCHANGED <<today, nights, targetDate>>

-----------------------------------------------------------------------------
Touch(f) ==
    /\ form.at = "shown"
    /\ form' = [f EXCEPT !.touched = TRUE]
    /\ UNCHANGED <<today, nights, targetDate>>

ChooseStart == \E start \in {"yes", "no"} : Touch([form EXCEPT !.start = start])

ChooseOption ==
    \E i \in 1..3 : Touch([form EXCEPT !.radio = "option",
                              !.option = DateOptions(form.rendered)[i]])

\* The picker offers its minimum and what follows, but users type, too.
EnterCustom ==
    \E date \in {form.rendered} \cup TypedDate :
        Touch([form EXCEPT !.radio = "custom", !.option = NoDate,
                           !.custom = FormatShort(date)])

\* Mutant: what is entered has to be a date.
GoalDateMustBeThere(text) == text # FormatShort(NoDate)

(***************************************************************************)
(* The models' validation of the dates, when the form is submitted.        *)
(***************************************************************************)
GoalDateMustBeTodayOrFuture(text) ==
    /\ text # FormatShort(NoDate)
    /\ ~Earlier(DateToISOFormat(text), today)

Valid ==
    \/ form.start = "no"
    \/ form.start = "yes" /\ form.radio = "option"
    \/ /\ form.start = "yes" /\ form.radio = "custom"
       /\ GoalDateMustBeTodayOrFuture(form.custom)

\* getGoalTargetDate; null for a future goal.
GetGoalTargetDate ==
    IF form.start = "no" THEN NoDate
    ELSE IF form.radio = "custom" THEN DateToISOFormat(form.custom)
    ELSE form.option

\* saveAndRedirect
Save ==
    /\ form.at = "shown"
    /\ Valid
    /\ targetDate' = GetGoalTargetDate
    /\ form' = NoForm
    /\ UNCHANGED <<today, nights>>

\* handleValidationErrors: the form is rendered again, with today's options.
RenderAgain ==
    /\ form.at = "shown"
    /\ ~Valid
    /\ form' = Selected([form EXCEPT !.rendered = today])
    /\ UNCHANGED <<today, nights, targetDate>>

DatesNext ==
    \/ Midnight \/ GetBlank \/ OpenChange \/ ShowChange
    \/ ChooseStart \/ ChooseOption \/ EnterCustom \/ Save \/ RenderAgain

DatesSpec == DatesInit /\ [][DatesNext]_datesVars

-----------------------------------------------------------------------------
(***************************************************************************)
(* All dates that are offered or stored are in the calendar, however short *)
(* the months are that they fall in.                                       *)
(***************************************************************************)
DatesTypeOK ==
    /\ IsDate(today)
    /\ nights \in 0..MaxNights
    /\ targetDate = NoDate \/ IsDate(targetDate)
    /\ form \in DateForm({today, targetDate, form.rendered, form.option,
                      DateToISOFormat(form.custom)})
    /\ form.at # "none" =>
          /\ IsDate(form.rendered)
          /\ \A i \in 1..3 : IsDate(DateOptions(form.rendered)[i])

(***************************************************************************)
(* "In 3 months" is the same day three months on, or, when that month is   *)
(* too short for it, one of the first three days of the next one; and the  *)
(* dates offered are in order.                                             *)
(***************************************************************************)
OptionIsMonthsOn ==
    form.at # "none" =>
        /\ \A i \in 1..3 :
              LET option == DateOptions(form.rendered)[i]
                  late == Months(option) - Months(form.rendered) - OptionMonths[i]
              IN  \/ late = 0 /\ option[3] = form.rendered[3]
                  \/ late = 1 /\ option[3] \in 1..3 /\ form.rendered[3] > 28
        /\ \A i, j \in 1..3 : i < j =>
              Earlier(DateOptions(form.rendered)[i], DateOptions(form.rendered)[j])

(***************************************************************************)
(* The target date of a goal changes only if the user chooses another:     *)
(* saving a change page untouched leaves it alone, or is refused, even if  *)
(* the day that decides which button stands for the date ends meanwhile.   *)
(* This is of one form in one tab: a date that another tab gave the goal   *)
(* since the page was rendered is overwritten by saving it untouched.      *)
(***************************************************************************)
UntouchedKeepsDate == [][targetDate' # targetDate => form.touched]_datesVars

(***************************************************************************)
(* No date is saved that has passed, although a form may be older than the *)
(* day and what it offers was worked out when it was rendered.             *)
(***************************************************************************)
NoDateInThePast ==
    [][(targetDate' # targetDate /\ targetDate' # NoDate)
          => ~Earlier(targetDate', today)]_datesVars
=============================================================================
