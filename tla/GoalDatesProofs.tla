-------------------------- MODULE GoalDatesProofs --------------------------
(***************************************************************************)
(* Proofs about target dates, for all first days, typed dates and any      *)
(* number of nights.                                                       *)
(*                                                                         *)
(* The invariant says of a form that the user has not touched what saving  *)
(* it would do: nothing, or store the date that the goal has.              *)
(*                                                                         *)
(* A date that has passed can only be saved from options that a page of an *)
(* earlier day offered.  Counted in days, that page is ninety nights old   *)
(* at least.                                                               *)
(***************************************************************************)
EXTENDS GoalDates, TLAPS

-----------------------------------------------------------------------------
(* The calendar.                                                           *)

LEMMA DaysInMonth ==
    ASSUME NEW y, NEW m PROVE DaysIn(y, m) \in 28..31
  BY DEF DaysIn

LEMMA MonthParts ==
    ASSUME NEW k \in Nat
    PROVE  /\ k \div 12 \in Nat /\ k % 12 \in 0..11
           /\ 12 * (k \div 12) + (k % 12) = k
  OBVIOUS

LEMMA DateFields ==
    ASSUME NEW d, IsDate(d)
    PROVE  /\ d = <<d[1], d[2], d[3]>>
           /\ d[1] \in Nat /\ d[2] \in 1..12 /\ d[3] \in 1..31
           /\ d[3] <= DaysIn(d[1], d[2])
           /\ Months(d) \in Nat
  BY DEF IsDate, Months

\* A day at most three past the end of a month: where it falls.
LEMMA OverflowIsDate ==
    ASSUME NEW k \in Nat, NEW day \in 1..32
    PROVE  /\ IsDate(Overflow(k, day))
           /\ \/ /\ Months(Overflow(k, day)) = k
                 /\ Overflow(k, day)[3] = day
              \/ /\ Months(Overflow(k, day)) = k + 1
                 /\ day > 28
                 /\ Overflow(k, day)[3] <= day - 28
  <1> DEFINE y == k \div 12
             m == (k % 12) + 1
             n == DaysIn(y, m)
             y2 == (k + 1) \div 12
             m2 == ((k + 1) % 12) + 1
  <1>1. /\ y \in Nat /\ m \in 1..12 /\ 12 * y + m - 1 = k
        /\ y2 \in Nat /\ m2 \in 1..12 /\ 12 * y2 + m2 - 1 = k + 1
    BY MonthParts
  <1>2. n \in 28..31 /\ DaysIn(y2, m2) \in 28..31
    BY DaysInMonth
  <1>3. Overflow(k, day) = IF day <= n THEN <<y, m, day>> ELSE <<y2, m2, day - n>>
    BY DEF Overflow
  <1> HIDE DEF y, m, y2, m2
  <1>4. CASE day <= n
    BY <1>1, <1>2, <1>3, <1>4 DEF IsDate, Months
  <1>5. CASE day > n
    BY <1>1, <1>2, <1>3, <1>5 DEF IsDate, Months
  <1> QED BY <1>2, <1>4, <1>5

LEMMA NextDayIsDate ==
    ASSUME NEW d, IsDate(d) PROVE IsDate(NextDay(d))
  <1>1. Months(d) \in Nat /\ d[3] \in 1..31
    BY DateFields
  <1>2. d[3] + 1 \in 1..32
    BY <1>1
  <1> QED BY <1>1, <1>2, OverflowIsDate DEF NextDay

\* What each option is.
LEMMA OptionsOfDay ==
    ASSUME NEW d, IsDate(d), NEW i \in 1..3
    PROVE  /\ IsDate(DateOptions(d)[i])
           /\ \/ /\ Months(DateOptions(d)[i]) = Months(d) + OptionMonths[i]
                 /\ DateOptions(d)[i][3] = d[3]
              \/ /\ Months(DateOptions(d)[i]) = Months(d) + OptionMonths[i] + 1
                 /\ d[3] > 28 /\ DateOptions(d)[i][3] <= d[3] - 28
  <1> DEFINE n == OptionMonths[i]
             option == DateOptions(d)[i]
  <1>1. n \in Nat
    BY DEF OptionMonths
  <1>2. Months(d) + n \in Nat /\ d[3] \in 1..32
    BY <1>1, DateFields
  <1>3. option = Overflow(Months(d) + n, d[3])
    BY DEF DateOptions, AddMonths
  <1> HIDE DEF n, option
  <1>4. /\ IsDate(option)
        /\ \/ Months(option) = Months(d) + n /\ option[3] = d[3]
           \/ /\ Months(option) = Months(d) + n + 1
              /\ d[3] > 28 /\ option[3] <= d[3] - 28
    BY <1>2, <1>3, OverflowIsDate
  <1> QED BY <1>4 DEF n, option

LEMMA MonthsOrder ==
    ASSUME NEW a, IsDate(a), NEW b, IsDate(b), Months(a) < Months(b)
    PROVE  Earlier(a, b)
  BY DateFields DEF Months, Earlier

(***************************************************************************)
(* What getDateOptions offers on any day: the same day three, six and      *)
(* twelve months on, or one of the first three days of the month after, if *)
(* the month is too short; and in order.                                   *)
(***************************************************************************)
LEMMA OptionsAreInOrder ==
    ASSUME NEW d, IsDate(d)
    PROVE  \A i, j \in 1..3 : i < j => Earlier(DateOptions(d)[i], DateOptions(d)[j])
  <1> SUFFICES ASSUME NEW i \in 1..3, NEW j \in 1..3, i < j
               PROVE  Earlier(DateOptions(d)[i], DateOptions(d)[j])
    OBVIOUS
  <1>1. OptionMonths[1] = 3 /\ OptionMonths[2] = 6 /\ OptionMonths[3] = 12
    BY DEF OptionMonths
  <1>2. OptionMonths[i] \in Nat /\ OptionMonths[j] \in Nat /\
        OptionMonths[i] + 1 < OptionMonths[j]
    BY <1>1
  <1> DEFINE a == DateOptions(d)[i]
             b == DateOptions(d)[j]
  <1>3. /\ IsDate(a) /\ Months(a) <= Months(d) + OptionMonths[i] + 1
        /\ IsDate(b) /\ Months(b) >= Months(d) + OptionMonths[j]
    <2>1. Months(d) \in Nat
      BY DateFields
    <2>2. /\ IsDate(a)
          /\ Months(a) = Months(d) + OptionMonths[i] \/
             Months(a) = Months(d) + OptionMonths[i] + 1
      BY OptionsOfDay
    <2>3. /\ IsDate(b)
          /\ Months(b) = Months(d) + OptionMonths[j] \/
             Months(b) = Months(d) + OptionMonths[j] + 1
      BY OptionsOfDay
    <2> HIDE DEF a, b
    <2> QED BY <2>1, <2>2, <2>3, <1>2
  <1> HIDE DEF a, b
  <1>4. Months(a) < Months(b)
    <2>1. Months(d) \in Nat /\ Months(a) \in Nat /\ Months(b) \in Nat
      BY <1>3, DateFields
    <2> QED BY <2>1, <1>2, <1>3
  <1>5. Earlier(a, b)
    BY <1>3, <1>4, MonthsOrder
  <1> QED BY <1>5 DEF a, b

-----------------------------------------------------------------------------
(* The invariant.                                                          *)

Day(d) == d = NoDate \/ IsDate(d)

\* A text of the picker stands for the date that it says.
IsText(text) == text = FormatShort(DateToISOFormat(text))

FormWith(rendered, option, custom) ==
    [at: {"none", "reading", "shown"}, rendered: {rendered},
     start: {"none", "yes", "no"}, radio: {"none", "option", "custom"},
     option: {option}, custom: {custom}, touched: BOOLEAN]

FormOK(f) ==
    /\ f \in FormWith(f.rendered, f.option, f.custom)
    /\ Day(f.option) /\ Day(DateToISOFormat(f.custom)) /\ IsText(f.custom)
    /\ f.at # "none" => IsDate(f.rendered)
    /\ f.radio = "option" => IsDate(f.option)

\* Saving the form as it is would keep the date d, or be refused.
Keeps(f, d) ==
    \/ f.start = "none"
    \/ f.start = "no" /\ d = NoDate
    \/ f.start = "yes" /\ f.radio = "none"
    \/ f.start = "yes" /\ f.radio = "option" /\ f.option = d
    \/ f.start = "yes" /\ f.radio = "custom" /\ DateToISOFormat(f.custom) = d

IInv ==
    /\ IsDate(today)
    /\ nights \in 0..MaxNights
    /\ Day(targetDate)
    /\ FormOK(form)
    /\ form.at = "reading" => form.start = "none" /\ form.radio = "none"
    /\ form.touched = TRUE \/ Keeps(form, targetDate)

LEMMA DayText ==
    ASSUME NEW d, Day(d)
    PROVE  DateToISOFormat(FormatShort(d)) = d /\ IsText(FormatShort(d))
  <1>1. d = <<d[1], d[2], d[3]>>
    BY DateFields DEF Day, NoDate
  <1> QED BY <1>1 DEF DateToISOFormat, FormatShort, IsText

LEMMA NoFormOK ==
    FormOK(NoForm) /\ NoForm.start = "none" /\ NoForm.radio = "none"
  <1>1. Day(NoDate)
    BY DEF Day
  <1>2. /\ DateToISOFormat(FormatShort(NoDate)) = NoDate
        /\ IsText(FormatShort(NoDate))
    BY <1>1, DayText
  <1> QED BY <1>1, <1>2 DEF FormOK, FormWith, NoForm

LEMMA InitIInv == DatesInit => IInv
  <1> SUFFICES ASSUME DatesInit PROVE IInv
    OBVIOUS
  <1>1. IsDate(today) /\ nights \in 0..MaxNights /\ Day(targetDate)
    BY DatesAssumption DEF DatesInit, Day
  <1>2. form = NoForm
    BY DEF DatesInit
  <1>3. FormOK(form) /\ form.start = "none" /\ form.radio = "none"
    BY <1>2, NoFormOK
  <1> QED BY <1>1, <1>3 DEF IInv, Keeps

LEMMA MidnightIInv == ASSUME IInv, Midnight PROVE IInv'
  <1>1. IsDate(today')
    BY NextDayIsDate DEF IInv, Midnight
  <1>2. nights' \in 0..MaxNights
    BY DatesAssumption DEF IInv, Midnight
  <1> QED BY <1>1, <1>2 DEF IInv, Midnight

\* A form that is new.
LEMMA FreshForm ==
    ASSUME IInv, NEW at \in {"reading", "shown"},
           form' = [NoForm EXCEPT !.at = at, !.rendered = today],
           UNCHANGED <<today, nights, targetDate>>
    PROVE  IInv'
  <1> DEFINE f == [NoForm EXCEPT !.at = at, !.rendered = today]
  <1>1. /\ f.at = at /\ f.rendered = today /\ f.start = "none"
        /\ f.radio = "none" /\ f.option = NoForm.option
        /\ f.custom = NoForm.custom /\ f.touched = FALSE
        /\ f \in FormWith(today, NoForm.option, NoForm.custom)
    BY DEF NoForm, FormWith
  <1>2. form' = f
    OBVIOUS
  <1> HIDE DEF f
  <1>3. FormOK(f)
    BY <1>1, NoFormOK DEF FormOK, IInv
  <1> QED BY <1>1, <1>2, <1>3 DEF IInv, Keeps

\* What the buttons of a page show is left, or nothing.
LEMMA SelectedOK ==
    ASSUME NEW f, FormOK(f)
    PROVE  /\ FormOK(Selected(f))
           /\ Selected(f).at = f.at /\ Selected(f).start = f.start
           /\ Selected(f).rendered = f.rendered
           /\ Selected(f).touched = f.touched
           /\ \A d : Keeps(f, d) => Keeps(Selected(f), d)
  <1> DEFINE g == [f EXCEPT !.radio = "none", !.option = NoDate]
  <1>1. /\ g.at = f.at /\ g.rendered = f.rendered /\ g.start = f.start
        /\ g.radio = "none" /\ g.option = NoDate /\ g.custom = f.custom
        /\ g.touched = f.touched
        /\ g \in FormWith(f.rendered, NoDate, f.custom)
    BY DEF FormOK, FormWith
  <1>2. Selected(f) = f \/ Selected(f) = g
    BY DEF Selected
  <1> HIDE DEF g
  <1>3. FormOK(g)
    BY <1>1 DEF FormOK, Day
  <1>4. \A d : Keeps(f, d) => Keeps(g, d)
    BY <1>1 DEF Keeps, FormOK
  <1> QED BY <1>1, <1>2, <1>3, <1>4

-----------------------------------------------------------------------------
(* The actions.                                                            *)

\* The form of a goal keeps the goal's date.
LEMMA MapGoalOK ==
    ASSUME IInv, NEW f, FormOK(f), f.start = "none", f.radio = "none"
    PROVE  /\ FormOK(MapGoalToForm(f)) /\ MapGoalToForm(f).at = f.at
           /\ Keeps(MapGoalToForm(f), targetDate)
  <1> DEFINE no == [f EXCEPT !.start = "no"]
             option == [f EXCEPT !.start = "yes", !.radio = "option",
                                 !.option = targetDate]
             text == FormatShort(targetDate)
             custom == [f EXCEPT !.start = "yes", !.radio = "custom",
                                 !.custom = text]
  <1>1. CASE targetDate = NoDate
    <2>1. /\ no.at = f.at /\ no.rendered = f.rendered /\ no.start = "no"
          /\ no.radio = f.radio /\ no.option = f.option /\ no.custom = f.custom
          /\ no \in FormWith(f.rendered, f.option, f.custom)
      BY DEF FormOK, FormWith
    <2>2. MapGoalToForm(f) = no
      BY <1>1 DEF MapGoalToForm
    <2> HIDE DEF no
    <2>3. FormOK(no) /\ Keeps(no, targetDate)
      BY <1>1, <2>1 DEF FormOK, Keeps
    <2> QED BY <2>1, <2>2, <2>3
  <1>2. CASE targetDate # NoDate /\ Among(targetDate, DateOptions(today))
    <2>1. /\ option.at = f.at /\ option.rendered = f.rendered
          /\ option.start = "yes" /\ option.radio = "option"
          /\ option.option = targetDate /\ option.custom = f.custom
          /\ option \in FormWith(f.rendered, targetDate, f.custom)
      BY DEF FormOK, FormWith
    <2>2. MapGoalToForm(f) = option
      BY <1>2 DEF MapGoalToForm
    <2> HIDE DEF option
    <2>3. FormOK(option) /\ Keeps(option, targetDate)
      BY <1>2, <2>1 DEF FormOK, Keeps, IInv, Day
    <2> QED BY <2>1, <2>2, <2>3
  <1>3. CASE targetDate # NoDate /\ ~Among(targetDate, DateOptions(today))
    <2>1. MapGoalToForm(f) = custom
      BY <1>3 DEF MapGoalToForm
    <2>2. DateToISOFormat(text) = targetDate /\ IsText(text)
      BY DayText DEF IInv
    <2> HIDE DEF text
    <2>3. /\ custom.at = f.at /\ custom.rendered = f.rendered
          /\ custom.start = "yes" /\ custom.radio = "custom"
          /\ custom.option = f.option /\ custom.custom = text
          /\ custom \in FormWith(f.rendered, f.option, text)
      BY DEF FormOK, FormWith
    <2> HIDE DEF custom
    <2>4. FormOK(custom) /\ Keeps(custom, targetDate)
      BY <2>2, <2>3 DEF FormOK, Keeps, IInv
    <2> QED BY <2>1, <2>3, <2>4
  <1> QED BY <1>1, <1>2, <1>3

LEMMA ShowChangeIInv == ASSUME IInv, ShowChange PROVE IInv'
  <1> DEFINE f == [form EXCEPT !.at = "shown"]
             m == MapGoalToForm(f)
             g == Selected(m)
  <1>1. FormOK(form) /\ form.at = "reading"
        /\ form.start = "none" /\ form.radio = "none"
    BY DEF IInv, ShowChange
  <1>2. /\ f.at = "shown" /\ f.rendered = form.rendered /\ f.start = "none"
        /\ f.radio = "none" /\ f.option = form.option /\ f.custom = form.custom
        /\ f \in FormWith(form.rendered, form.option, form.custom)
    BY <1>1 DEF FormOK, FormWith
  <1>3. form' = g /\ UNCHANGED <<today, nights, targetDate>>
    BY DEF ShowChange
  <1> HIDE DEF f
  <1>4. FormOK(f)
    BY <1>1, <1>2 DEF FormOK
  <1>5. FormOK(m) /\ m.at = "shown" /\ Keeps(m, targetDate)
    BY <1>2, <1>4, MapGoalOK
  <1> HIDE DEF m
  <1>6. FormOK(g) /\ g.at = "shown" /\ Keeps(g, targetDate)
    BY <1>5, SelectedOK
  <1> HIDE DEF g
  <1> QED BY <1>3, <1>6 DEF IInv

LEMMA TouchIInv ==
    ASSUME IInv, NEW f, FormOK(f), f.at = "shown", Touch(f) PROVE IInv'
  <1> DEFINE g == [f EXCEPT !.touched = TRUE]
  <1>1. /\ g.at = "shown" /\ g.rendered = f.rendered /\ g.radio = f.radio
        /\ g.option = f.option /\ g.custom = f.custom /\ g.touched = TRUE
        /\ g \in FormWith(f.rendered, f.option, f.custom)
    BY DEF FormOK, FormWith
  <1>2. form' = g /\ UNCHANGED <<today, nights, targetDate>>
    BY DEF Touch
  <1> HIDE DEF g
  <1>3. FormOK(g)
    BY <1>1 DEF FormOK
  <1> QED BY <1>1, <1>2, <1>3 DEF IInv

LEMMA ChooseIInv ==
    ASSUME IInv, ChooseStart \/ ChooseOption \/ EnterCustom PROVE IInv'
  <1>1. FormOK(form)
    BY DEF IInv
  <1>2. CASE ChooseStart
    <2>1. PICK start \in {"yes", "no"} : Touch([form EXCEPT !.start = start])
      BY <1>2 DEF ChooseStart
    <2> DEFINE f == [form EXCEPT !.start = start]
    <2>2. /\ f.at = form.at /\ f.rendered = form.rendered /\ f.radio = form.radio
          /\ f.option = form.option /\ f.custom = form.custom
          /\ f \in FormWith(form.rendered, form.option, form.custom)
      BY <1>1 DEF FormOK, FormWith
    <2>3. Touch(f)
      BY <2>1
    <2> HIDE DEF f
    <2>4. FormOK(f) /\ f.at = "shown"
      BY <1>1, <2>2, <2>3 DEF FormOK, Touch
    <2> QED BY <2>3, <2>4, TouchIInv
  <1>3. CASE ChooseOption
    <2>1. PICK i \in 1..3 :
              Touch([form EXCEPT !.radio = "option",
                                 !.option = DateOptions(form.rendered)[i]])
      BY <1>3 DEF ChooseOption
    <2> DEFINE date == DateOptions(form.rendered)[i]
               f == [form EXCEPT !.radio = "option", !.option = date]
    <2>2. IsDate(date)
      BY <1>1, <2>1, OptionsOfDay DEF FormOK, Touch
    <2>3. Touch(f)
      BY <2>1
    <2> HIDE DEF date
    <2>4. /\ f.at = form.at /\ f.rendered = form.rendered /\ f.radio = "option"
          /\ f.option = date /\ f.custom = form.custom
          /\ f \in FormWith(form.rendered, date, form.custom)
      BY <1>1 DEF FormOK, FormWith
    <2> HIDE DEF f
    <2>5. FormOK(f) /\ f.at = "shown"
      BY <1>1, <2>2, <2>3, <2>4 DEF FormOK, Day, Touch
    <2> QED BY <2>3, <2>5, TouchIInv
  <1>4. CASE EnterCustom
    <2>1. PICK date \in {form.rendered} \cup TypedDate :
              Touch([form EXCEPT !.radio = "custom", !.option = NoDate,
                                 !.custom = FormatShort(date)])
      BY <1>4 DEF EnterCustom
    <2> DEFINE text == FormatShort(date)
               f == [form EXCEPT !.radio = "custom", !.option = NoDate,
                                 !.custom = text]
    <2>2. IsDate(date)
      BY <1>1, <2>1, DatesAssumption DEF FormOK, Touch
    <2>3. Day(DateToISOFormat(text)) /\ IsText(text)
      BY <2>2, DayText DEF Day
    <2>4. Touch(f)
      BY <2>1
    <2> HIDE DEF text
    <2>5. /\ f.at = form.at /\ f.rendered = form.rendered /\ f.radio = "custom"
          /\ f.option = NoDate /\ f.custom = text
          /\ f \in FormWith(form.rendered, NoDate, text)
      BY <1>1 DEF FormOK, FormWith
    <2> HIDE DEF f
    <2>6. FormOK(f) /\ f.at = "shown"
      BY <1>1, <2>3, <2>4, <2>5 DEF FormOK, Day, Touch
    <2> QED BY <2>4, <2>6, TouchIInv
  <1> QED BY <1>2, <1>3, <1>4

LEMMA SaveIInv == ASSUME IInv, Save PROVE IInv'
  <1>1. FormOK(form) /\ Valid /\ targetDate' = GetGoalTargetDate
    BY DEF IInv, Save
  <1>2. Day(targetDate')
    <2>1. CASE form.start = "no"
      BY <1>1, <2>1 DEF GetGoalTargetDate, Day
    <2>2. CASE form.start = "yes" /\ form.radio = "option"
      BY <1>1, <2>2 DEF GetGoalTargetDate, Day, FormOK
    <2>3. CASE form.start = "yes" /\ form.radio = "custom"
      BY <1>1, <2>3 DEF GetGoalTargetDate, FormOK
    <2> QED BY <1>1, <2>1, <2>2, <2>3 DEF Valid
  <1>3. FormOK(form') /\ form'.start = "none" /\ form'.radio = "none"
    BY NoFormOK DEF Save
  <1> QED BY <1>2, <1>3 DEF IInv, Save, Keeps

LEMMA RenderAgainIInv == ASSUME IInv, RenderAgain PROVE IInv'
  <1> DEFINE f == [form EXCEPT !.rendered = today]
             g == Selected(f)
  <1>1. /\ FormOK(form) /\ form.at = "shown" /\ IsDate(today)
        /\ form.touched = TRUE \/ Keeps(form, targetDate)
    BY DEF IInv, RenderAgain
  <1>2. /\ f.at = "shown" /\ f.rendered = today /\ f.start = form.start
        /\ f.radio = form.radio /\ f.option = form.option
        /\ f.custom = form.custom /\ f.touched = form.touched
        /\ f \in FormWith(today, form.option, form.custom)
    BY <1>1 DEF FormOK, FormWith
  <1>3. form' = g /\ UNCHANGED <<today, nights, targetDate>>
    BY DEF RenderAgain
  <1> HIDE DEF f
  <1>4. FormOK(f)
    BY <1>1, <1>2 DEF FormOK
  <1>5. f.touched = TRUE \/ Keeps(f, targetDate)
    BY <1>1, <1>2 DEF Keeps
  <1>6. /\ FormOK(g) /\ g.at = "shown"
        /\ g.touched = TRUE \/ Keeps(g, targetDate)
    BY <1>2, <1>4, <1>5, SelectedOK
  <1> HIDE DEF g
  <1> QED BY <1>3, <1>6 DEF IInv

LEMMA NextIInv == IInv /\ [DatesNext]_datesVars => IInv'
  <1> SUFFICES ASSUME IInv, [DatesNext]_datesVars PROVE IInv'
    OBVIOUS
  <1>1. CASE GetBlank
    BY <1>1, FreshForm DEF GetBlank
  <1>2. CASE OpenChange
    BY <1>2, FreshForm DEF OpenChange
  <1>3. CASE UNCHANGED datesVars
    BY <1>3 DEF datesVars, IInv
  <1> QED BY <1>1, <1>2, <1>3, MidnightIInv, ShowChangeIInv, ChooseIInv, SaveIInv,
             RenderAgainIInv DEF DatesNext

-----------------------------------------------------------------------------
(* The theorems.                                                           *)

LEMMA Invariance == DatesSpec => []IInv
  BY InitIInv, NextIInv, PTL DEF DatesSpec

(***************************************************************************)
(* All dates that the pages offer and store are in the calendar            *)
(* (getDateOptions, getGoalTargetDate).                                    *)
(***************************************************************************)
THEOREM DatesAreInCalendar == DatesSpec => []DatesTypeOK
  <1>1. IInv => DatesTypeOK
    <2> SUFFICES ASSUME IInv PROVE DatesTypeOK
      OBVIOUS
    <2> DEFINE text == DateToISOFormat(form.custom)
               dates == {today, targetDate, form.rendered, form.option, text}
    <2>1. form \in FormWith(form.rendered, form.option, form.custom)
      BY DEF IInv, FormOK
    <2>2. /\ form.rendered \in dates /\ form.option \in dates
          /\ text \in dates /\ form.custom = FormatShort(text)
      BY DEF IInv, FormOK, IsText
    <2> HIDE DEF dates, text
    <2>3. form.custom \in {FormatShort(d) : d \in dates}
      BY <2>2
    <2>4. form \in DateForm(dates)
      BY <2>1, <2>2, <2>3 DEF FormWith, DateForm
    <2>5. form.at # "none" =>
              /\ IsDate(form.rendered)
              /\ \A i \in 1..3 : IsDate(DateOptions(form.rendered)[i])
      BY OptionsOfDay DEF IInv, FormOK
    <2> QED BY <2>4, <2>5 DEF IInv, Day, DatesTypeOK, dates, text
  <1> QED BY <1>1, Invariance, PTL

(***************************************************************************)
(* "In 3 months" is what it says on every day of every year, and the dates *)
(* offered are in order (getAchieveDate and setMonth).                     *)
(***************************************************************************)
THEOREM OptionsAreMonthsOn == DatesSpec => []OptionIsMonthsOn
  <1>1. IInv => OptionIsMonthsOn
    <2> SUFFICES ASSUME IInv, form.at # "none" PROVE OptionIsMonthsOn
      BY DEF OptionIsMonthsOn
    <2> DEFINE d == form.rendered
    <2>1. IsDate(d)
      BY DEF IInv, FormOK
    <2>2. ASSUME NEW i \in 1..3
          PROVE  LET option == DateOptions(d)[i]
                     late == Months(option) - Months(d) - OptionMonths[i]
                 IN  \/ late = 0 /\ option[3] = d[3]
                     \/ late = 1 /\ option[3] \in 1..3 /\ d[3] > 28
      <3> DEFINE option == DateOptions(d)[i]
                 n == OptionMonths[i]
      <3>1. n \in Nat
        BY DEF OptionMonths
      <3>2. /\ IsDate(option)
            /\ \/ Months(option) = Months(d) + n /\ option[3] = d[3]
               \/ /\ Months(option) = Months(d) + n + 1
                  /\ d[3] > 28 /\ option[3] <= d[3] - 28
        BY <2>1, OptionsOfDay
      <3>3. Months(d) \in Nat /\ d[3] \in 1..31
        BY <2>1, DateFields
      <3>4. Months(option) \in Nat /\ option[3] \in 1..31
        BY <3>2, DateFields
      <3> HIDE DEF option, n, d
      <3>5. LET late == Months(option) - Months(d) - n
            IN  \/ late = 0 /\ option[3] = d[3]
                \/ late = 1 /\ option[3] \in 1..3 /\ d[3] > 28
        BY <3>1, <3>2, <3>3, <3>4
      <3> QED BY <3>5 DEF option, n
    <2>3. \A i, j \in 1..3 : i < j => Earlier(DateOptions(d)[i], DateOptions(d)[j])
      BY <2>1, OptionsAreInOrder
    <2> QED BY <2>2, <2>3 DEF OptionIsMonthsOn
  <1> QED BY <1>1, Invariance, PTL

(***************************************************************************)
(* Saving a form that its user has not touched leaves the goal's target    *)
(* date alone, on whichever days the page was opened, shown and saved      *)
(* (mapGoalToForm and saveAndRedirect in ChangeGoalController).            *)
(***************************************************************************)
THEOREM UntouchedFormsKeepDate == DatesSpec => UntouchedKeepsDate
  <1>1. IInv /\ [DatesNext]_datesVars =>
            (targetDate' # targetDate => form.touched)
    <2> SUFFICES ASSUME IInv, Save, form.touched # TRUE
                 PROVE  targetDate' = targetDate
      BY DEF IInv, DatesNext, datesVars, Midnight, GetBlank, OpenChange,
             ShowChange, ChooseStart, ChooseOption, EnterCustom, Touch,
             RenderAgain
    <2>1. Keeps(form, targetDate)
      BY DEF IInv
    <2> QED BY <2>1 DEF Keeps, Save, Valid, GetGoalTargetDate
  <1> QED BY <1>1, Invariance, PTL DEF DatesSpec, UntouchedKeepsDate

-----------------------------------------------------------------------------
(* Dates that have passed.                                                 *)

\* The buttons of a form stand for what was worked out when it was rendered.
Offered(f) == f.radio = "option" => Among(f.option, DateOptions(f.rendered))

LEMMA SelectedIsOffered == ASSUME NEW f, FormOK(f) PROVE Offered(Selected(f))
  <1> DEFINE g == [f EXCEPT !.radio = "none", !.option = NoDate]
  <1>1. g.radio = "none"
    BY DEF FormOK, FormWith
  <1>2. \/ Selected(f) = g
        \/ /\ Selected(f) = f
           /\ ~(f.radio = "option" /\ ~Among(f.option, DateOptions(f.rendered)))
    BY DEF Selected
  <1> QED BY <1>1, <1>2 DEF Offered

LEMMA OfferedStep == ASSUME IInv, Offered(form), [DatesNext]_datesVars PROVE Offered(form)'
  <1>1. FormOK(form)
    BY DEF IInv
  <1>2. CASE form' = form
    BY <1>2 DEF Offered
  <1>3. CASE GetBlank \/ OpenChange \/ Save
    <2>1. /\ NoForm.radio = "none"
          /\ \A at : [NoForm EXCEPT !.at = at, !.rendered = today].radio = "none"
      BY DEF NoForm
    <2> QED BY <1>3, <2>1 DEF GetBlank, OpenChange, Save, Offered
  <1>4. CASE ShowChange
    <2> DEFINE f == [form EXCEPT !.at = "shown"]
    <2>1. /\ f.start = "none" /\ f.radio = "none"
          /\ f.option = form.option /\ f.custom = form.custom
          /\ f.rendered = form.rendered /\ f.at = "shown"
          /\ f \in FormWith(form.rendered, form.option, form.custom)
      BY <1>1, <1>4 DEF FormOK, FormWith, IInv, ShowChange
    <2>2. form' = Selected(MapGoalToForm(f))
      BY <1>4 DEF ShowChange
    <2>3. form.at = "reading"
      BY <1>4 DEF ShowChange
    <2> HIDE DEF f
    <2>4. FormOK(f)
      BY <1>1, <2>1, <2>3 DEF FormOK
    <2>5. FormOK(MapGoalToForm(f))
      BY <2>1, <2>4, MapGoalOK
    <2> QED BY <2>2, <2>5, SelectedIsOffered
  <1>5. CASE ChooseStart
    <2>1. PICK start \in {"yes", "no"} :
              form' = [[form EXCEPT !.start = start] EXCEPT !.touched = TRUE]
      BY <1>5 DEF ChooseStart, Touch
    <2>2. /\ form'.radio = form.radio /\ form'.option = form.option
          /\ form'.rendered = form.rendered
      BY <1>1, <2>1 DEF FormOK, FormWith
    <2> QED BY <2>2 DEF Offered
  <1>6. CASE ChooseOption
    <2>1. PICK i \in 1..3 :
              form' = [[form EXCEPT !.radio = "option",
                            !.option = DateOptions(form.rendered)[i]]
                          EXCEPT !.touched = TRUE]
      BY <1>6 DEF ChooseOption, Touch
    <2>2. /\ form'.option = DateOptions(form.rendered)[i]
          /\ form'.rendered = form.rendered
      BY <1>1, <2>1 DEF FormOK, FormWith
    <2> QED BY <2>2 DEF Offered, Among
  <1>7. CASE EnterCustom
    <2>1. PICK date \in {form.rendered} \cup TypedDate :
              form' = [[form EXCEPT !.radio = "custom", !.option = NoDate,
                            !.custom = FormatShort(date)]
                          EXCEPT !.touched = TRUE]
      BY <1>7 DEF EnterCustom, Touch
    <2>2. form'.radio = "custom"
      BY <1>1, <2>1 DEF FormOK, FormWith
    <2> QED BY <2>2 DEF Offered
  <1>8. CASE RenderAgain
    <2> DEFINE f == [form EXCEPT !.rendered = today]
    <2>1. form' = Selected(f)
      BY <1>8 DEF RenderAgain
    <2>2. /\ f.at = form.at /\ f.rendered = today /\ f.start = form.start
          /\ f.radio = form.radio /\ f.option = form.option
          /\ f.custom = form.custom
          /\ f \in FormWith(today, form.option, form.custom)
      BY <1>1 DEF FormOK, FormWith
    <2> HIDE DEF f
    <2>3. FormOK(f)
      BY <1>1, <2>2 DEF FormOK, IInv
    <2> QED BY <2>1, <2>3, SelectedIsOffered
  <1> QED BY <1>2, <1>3, <1>4, <1>5, <1>6, <1>7, <1>8
          DEF DatesNext, Midnight, datesVars

LEMMA OfferedAlways == DatesSpec => []Offered(form)
  <1>1. DatesInit => Offered(form)
    BY DEF DatesInit, NoForm, Offered
  <1> QED BY <1>1, OfferedStep, Invariance, PTL DEF DatesSpec

\* The day t is later than n months after d.
LaterThanMonths(d, t, n) ==
    \/ Months(t) > Months(d) + n
    \/ Months(t) = Months(d) + n /\ t[3] > d[3]

LEMMA PastOption ==
    ASSUME NEW d, IsDate(d), NEW t, IsDate(t), NEW i \in 1..3,
           Earlier(DateOptions(d)[i], t)
    PROVE  LaterThanMonths(d, t, 3)
  <1> DEFINE n == OptionMonths[i]
             option == DateOptions(d)[i]
  <1>1. n \in Nat /\ n >= 3
    BY DEF OptionMonths
  <1>2. /\ IsDate(option)
        /\ \/ Months(option) = Months(d) + n /\ option[3] = d[3]
           \/ Months(option) = Months(d) + n + 1
    BY OptionsOfDay
  <1>3. /\ Months(d) \in Nat /\ Months(t) \in Nat /\ Months(option) \in Nat
        /\ d[3] \in 1..31 /\ t[3] \in 1..31 /\ option[3] \in 1..31
    BY <1>2, DateFields
  <1>4. Earlier(option, t)
    OBVIOUS
  <1> HIDE DEF n, option
  <1>5. \/ Months(option) < Months(t)
        \/ Months(option) = Months(t) /\ option[3] < t[3]
    <2>1. /\ option[1] \in Nat /\ option[2] \in 1..12
          /\ t[1] \in Nat /\ t[2] \in 1..12
      BY <1>2, DateFields
    <2> QED BY <1>3, <1>4, <2>1 DEF Earlier, Months
  <1> QED BY <1>1, <1>2, <1>3, <1>5 DEF LaterThanMonths

\* A step that saves a date which has passed saves one of the form's options.
LEMMA PastDateStep ==
    ASSUME IInv, Offered(form), [DatesNext]_datesVars,
           targetDate' # targetDate, targetDate' # NoDate, Earlier(targetDate', today)
    PROVE  form.at = "shown" /\ LaterThanMonths(form.rendered, today, 3)
  <1>1. Save
    BY DEF DatesNext, datesVars, Midnight, GetBlank, OpenChange, ShowChange,
           ChooseStart, ChooseOption, EnterCustom, Touch, RenderAgain
  <1>2. form.at = "shown" /\ Valid /\ targetDate' = GetGoalTargetDate
    BY <1>1 DEF Save
  <1>3. form.start # "no"
    BY <1>2 DEF GetGoalTargetDate
  <1>4. form.radio # "custom"
    BY <1>2, <1>3 DEF Valid, GetGoalTargetDate, GoalDateMustBeTodayOrFuture
  <1>5. form.radio = "option" /\ targetDate' = form.option
    BY <1>2, <1>3, <1>4 DEF Valid, GetGoalTargetDate
  <1>6. PICK i \in 1..3 : DateOptions(form.rendered)[i] = form.option
    BY <1>5 DEF Offered, Among
  <1>7. IsDate(form.rendered) /\ IsDate(today)
    BY <1>2 DEF IInv, FormOK
  <1> QED BY <1>2, <1>5, <1>6, <1>7, PastOption

(***************************************************************************)
(* A date that has passed is saved only from a form that was rendered more *)
(* than three months ago: dates that are typed are compared with the day   *)
(* on which they are sent (GoalDateMustBeTodayOrFuture), and the buttons,  *)
(* which are not, stand for dates three months on or more.                 *)
(***************************************************************************)
THEOREM PastDatesAreOfOldForms ==
    DatesSpec => [][(/\ targetDate' # targetDate /\ targetDate' # NoDate
                     /\ Earlier(targetDate', today))
                       => LaterThanMonths(form.rendered, today, 3)]_datesVars
  BY PastDateStep, OfferedAlways, Invariance, PTL DEF DatesSpec

-----------------------------------------------------------------------------
(* How many nights go by until then.                                       *)

\* The days of a month that is counted from the year 0.
Length(k) == DaysIn(k \div 12, (k % 12) + 1)

LEMMA LengthOfMonth ==
    ASSUME NEW k \in Nat
    PROVE  /\ Length(k) \in 28..31
           /\ k % 12 # 1 => Length(k) >= 30
           /\ k % 12 \in {0, 2, 4, 6, 7, 9, 11} => Length(k) = 31
  <1>1. k % 12 \in 0..11
    BY MonthParts
  <1> QED BY <1>1 DEF Length, DaysIn

\* February is the one short month, and has a long one on either side.
LEMMA MonthsInARow ==
    ASSUME NEW k \in Nat
    PROVE  /\ Length(k) + Length(k + 1) + Length(k + 2) >= 89
           /\ Length(k) + Length(k + 1) + Length(k + 2) + Length(k + 3) >= 120
  <1> DEFINE a == Length(k)
             b == Length(k + 1)
             c == Length(k + 2)
             d == Length(k + 3)
  <1>1. /\ k + 1 \in Nat /\ k + 2 \in Nat /\ k + 3 \in Nat
        /\ k % 12 \in 0..11
        /\ (k + 1) % 12 = ((k % 12) + 1) % 12
        /\ (k + 2) % 12 = ((k % 12) + 2) % 12
        /\ (k + 3) % 12 = ((k % 12) + 3) % 12
    OBVIOUS
  <1>2. /\ a \in 28..31 /\ (k % 12 # 1 => a >= 30)
        /\ k % 12 \in {0, 2, 4, 6, 7, 9, 11} => a = 31
    BY LengthOfMonth
  <1>3. /\ b \in 28..31 /\ ((k + 1) % 12 # 1 => b >= 30)
        /\ (k + 1) % 12 \in {0, 2, 4, 6, 7, 9, 11} => b = 31
    BY <1>1, LengthOfMonth
  <1>4. /\ c \in 28..31 /\ ((k + 2) % 12 # 1 => c >= 30)
        /\ (k + 2) % 12 \in {0, 2, 4, 6, 7, 9, 11} => c = 31
    BY <1>1, LengthOfMonth
  <1>5. /\ d \in 28..31 /\ ((k + 3) % 12 # 1 => d >= 30)
        /\ (k + 3) % 12 \in {0, 2, 4, 6, 7, 9, 11} => d = 31
    BY <1>1, LengthOfMonth
  <1> HIDE DEF a, b, c, d
  <1>6. a + b + c >= 89 /\ a + b + c + d >= 120
    <2>1. CASE k % 12 = 0
      BY <1>1, <1>2, <1>3, <1>4, <1>5, <2>1
    <2>2. CASE k % 12 = 1
      BY <1>1, <1>2, <1>3, <1>4, <1>5, <2>2
    <2>3. CASE k % 12 = 11
      BY <1>1, <1>2, <1>3, <1>4, <1>5, <2>3
    <2>4. CASE k % 12 = 10
      BY <1>1, <1>2, <1>3, <1>4, <1>5, <2>4
    <2>5. CASE k % 12 \in 2..9
      <3>1. (k + 1) % 12 # 1 /\ (k + 2) % 12 # 1 /\ (k + 3) % 12 # 1
        BY <1>1, <2>5
      <3>2. a >= 30 /\ b >= 30 /\ c >= 30 /\ d >= 30
        BY <1>2, <1>3, <1>4, <1>5, <2>5, <3>1
      <3> QED BY <1>2, <1>3, <1>4, <1>5, <3>2
    <2> QED BY <1>1, <2>1, <2>2, <2>3, <2>4, <2>5
  <1> QED BY <1>6 DEF a, b, c, d

LEMMA NextDayCases ==
    ASSUME NEW t, IsDate(t)
    PROVE  \/ /\ t[3] < Length(Months(t))
              /\ Months(NextDay(t)) = Months(t) /\ NextDay(t)[3] = t[3] + 1
           \/ /\ t[3] = Length(Months(t))
              /\ Months(NextDay(t)) = Months(t) + 1 /\ NextDay(t)[3] = 1
  <1> DEFINE k == Months(t)
             y == k \div 12
             m == (k % 12) + 1
             n == DaysIn(y, m)
             y2 == (k + 1) \div 12
             m2 == ((k + 1) % 12) + 1
  <1>1. k \in Nat /\ t[1] \in Nat /\ t[2] \in 1..12 /\ t[3] \in 1..31
    BY DateFields
  <1>2. y = t[1] /\ m = t[2]
    BY <1>1 DEF Months
  <1>3. t[3] <= n
    BY <1>2, DateFields
  <1>4. /\ y \in Nat /\ m \in 1..12 /\ 12 * y + m - 1 = k
        /\ y2 \in Nat /\ m2 \in 1..12 /\ 12 * y2 + m2 - 1 = k + 1
    BY <1>1, MonthParts
  <1>5. n \in 28..31
    BY DaysInMonth
  <1>6. /\ NextDay(t) = Overflow(k, t[3] + 1)
        /\ \A day : Overflow(k, day) = IF day <= n THEN <<y, m, day>>
                                                   ELSE <<y2, m2, day - n>>
    BY DEF NextDay, Overflow
  <1>7. n = Length(k)
    BY DEF Length
  <1> HIDE DEF y, m, y2, m2, n
  <1>8. CASE t[3] < n
    <2>1. NextDay(t) = <<y, m, t[3] + 1>>
      BY <1>1, <1>5, <1>6, <1>8
    <2>2. Months(NextDay(t)) = k /\ NextDay(t)[3] = t[3] + 1
      BY <2>1, <1>4 DEF Months
    <2> QED BY <1>7, <1>8, <2>2
  <1>9. CASE t[3] = n
    <2>1. NextDay(t) = <<y2, m2, 1>>
      BY <1>1, <1>5, <1>6, <1>9
    <2>2. Months(NextDay(t)) = k + 1 /\ NextDay(t)[3] = 1
      BY <2>1, <1>4 DEF Months
    <2> QED BY <1>7, <1>9, <2>2
  <1> QED BY <1>1, <1>3, <1>5, <1>8, <1>9

\* That at least n nights have gone by from d to t, as far as the months tell.
Nights(d, t, n) ==
    LET k == Months(d)
        m == Months(t) - Months(d)
        days == t[3] - d[3]
    IN  /\ m >= 0
        /\ m = 0 => days <= n
        /\ m = 1 => Length(k) + days <= n
        /\ m = 2 => Length(k) + Length(k + 1) + days <= n
        /\ m = 3 => Length(k) + Length(k + 1) + Length(k + 2) + days <= n
        /\ m >= 4 => n >= 90

LEMMA NightsGrow ==
    ASSUME NEW d, IsDate(d), NEW t, IsDate(t), NEW n \in Nat, Nights(d, t, n)
    PROVE  Nights(d, NextDay(t), n + 1)
  <1> DEFINE k == Months(d)
             m == Months(t)
             u == NextDay(t)
             a == Length(k)
             b == Length(k + 1)
             c == Length(k + 2)
             e == Length(k + 3)
  <1>1. k \in Nat /\ m \in Nat /\ d[3] \in 1..31 /\ t[3] \in 1..31
    BY DateFields
  <1>2. \/ /\ t[3] < Length(m) /\ Months(u) = m /\ u[3] = t[3] + 1
        \/ /\ t[3] = Length(m) /\ Months(u) = m + 1 /\ u[3] = 1
    BY NextDayCases
  <1>3. a + b + c >= 89 /\ a + b + c + e >= 120
    BY <1>1, MonthsInARow
  <1>4. a \in Nat /\ b \in Nat /\ c \in Nat /\ e \in Nat
    BY <1>1, LengthOfMonth
  <1>5. /\ m >= k
        /\ m = k => t[3] - d[3] <= n
        /\ m = k + 1 => a + (t[3] - d[3]) <= n
        /\ m = k + 2 => a + b + (t[3] - d[3]) <= n
        /\ m = k + 3 => a + b + c + (t[3] - d[3]) <= n
        /\ m >= k + 4 => n >= 90
    BY <1>1 DEF Nights
  <1>6. /\ m = k => Length(m) = a
        /\ m = k + 1 => Length(m) = b
        /\ m = k + 2 => Length(m) = c
        /\ m = k + 3 => Length(m) = e
    OBVIOUS
  <1>7. k + 1 \in Nat /\ Months(u) \in Nat /\ u[3] \in Nat
    BY <1>1, <1>2
  <1> HIDE DEF k, m, u, a, b, c, e
  <1>8. /\ Months(u) - k >= 0
        /\ Months(u) - k = 0 => u[3] - d[3] <= n + 1
        /\ Months(u) - k = 1 => a + (u[3] - d[3]) <= n + 1
        /\ Months(u) - k = 2 => a + b + (u[3] - d[3]) <= n + 1
        /\ Months(u) - k = 3 => a + b + c + (u[3] - d[3]) <= n + 1
        /\ Months(u) - k >= 4 => n + 1 >= 90
    <2>1. CASE Months(u) = m /\ u[3] = t[3] + 1
      <3>1. CASE m = k
        BY <1>1, <1>5, <2>1, <3>1
      <3>2. CASE m = k + 1
        BY <1>1, <1>4, <1>5, <2>1, <3>2
      <3>3. CASE m = k + 2
        BY <1>1, <1>4, <1>5, <2>1, <3>3
      <3>4. CASE m = k + 3
        BY <1>1, <1>4, <1>5, <2>1, <3>4
      <3>5. CASE m >= k + 4
        BY <1>1, <1>5, <2>1, <3>5
      <3> QED BY <1>1, <1>5, <3>1, <3>2, <3>3, <3>4, <3>5
    <2>2. CASE t[3] = Length(m) /\ Months(u) = m + 1 /\ u[3] = 1
      <3>1. CASE m = k
        BY <1>1, <1>4, <1>5, <1>6, <2>2, <3>1
      <3>2. CASE m = k + 1
        BY <1>1, <1>4, <1>5, <1>6, <2>2, <3>2
      <3>3. CASE m = k + 2
        BY <1>1, <1>4, <1>5, <1>6, <2>2, <3>3
      <3>4. CASE m = k + 3
        BY <1>1, <1>3, <1>4, <1>5, <1>6, <2>2, <3>4
      <3>5. CASE m >= k + 4
        BY <1>1, <1>5, <2>2, <3>5
      <3> QED BY <1>1, <1>5, <3>1, <3>2, <3>3, <3>4, <3>5
    <2> QED BY <1>2, <2>1, <2>2
  <1> QED BY <1>8 DEF Nights, k, m, u, a, b, c, e

\* How old the form is.
FormAge == form.at # "none" => Nights(form.rendered, today, nights)

LEMMA NewForm == ASSUME NEW d, IsDate(d), NEW n \in Nat PROVE Nights(d, d, n)
  <1>1. Months(d) \in Nat /\ d[3] \in 1..31
    BY DateFields
  <1> QED BY <1>1 DEF Nights

\* No step but those of the pages makes a form, and midnight makes it older.
LEMMA FormAgeStep == ASSUME IInv, FormAge, [DatesNext]_datesVars PROVE FormAge'
  <1>1. IsDate(today) /\ nights \in Nat /\ FormOK(form)
    BY DEF IInv
  <1>2. CASE Midnight
    <2>1. today' = NextDay(today) /\ nights' = nights + 1 /\ form' = form
      BY <1>2 DEF Midnight
    <2>2. form.at # "none" => IsDate(form.rendered)
      BY <1>1 DEF FormOK
    <2> QED BY <1>1, <2>1, <2>2, NightsGrow DEF FormAge
  <1>3. CASE UNCHANGED <<today, nights>> /\ (form'.at = "none" \/ form'.rendered = today)
    BY <1>1, <1>3, NewForm DEF FormAge
  <1>4. CASE /\ UNCHANGED <<today, nights>>
             /\ form'.rendered = form.rendered /\ form.at # "none"
    BY <1>4 DEF FormAge
  <1>5. CASE GetBlank \/ OpenChange \/ Save
    <2>1. /\ NoForm.at = "none"
          /\ \A at : [NoForm EXCEPT !.at = at, !.rendered = today].rendered = today
      BY DEF NoForm
    <2> QED BY <1>3, <1>5, <2>1 DEF GetBlank, OpenChange, Save
  <1>6. CASE ShowChange
    <2> DEFINE f == [form EXCEPT !.at = "shown"]
    <2>1. /\ f.start = "none" /\ f.radio = "none"
          /\ f.option = form.option /\ f.custom = form.custom
          /\ f.rendered = form.rendered /\ f.at = "shown"
          /\ f \in FormWith(form.rendered, form.option, form.custom)
      BY <1>1, <1>6 DEF FormOK, FormWith, IInv, ShowChange
    <2>2. /\ form' = Selected(MapGoalToForm(f)) /\ form.at = "reading"
          /\ UNCHANGED <<today, nights>>
      BY <1>6 DEF ShowChange
    <2> HIDE DEF f
    <2>3. FormOK(f)
      BY <1>1, <2>1, <2>2 DEF FormOK
    <2>4. FormOK(MapGoalToForm(f))
      BY <2>1, <2>3, MapGoalOK
    <2>5. MapGoalToForm(f).rendered = f.rendered
      BY <2>3 DEF MapGoalToForm, FormOK, FormWith
    <2>6. form'.rendered = form.rendered
      BY <2>1, <2>2, <2>4, <2>5, SelectedOK
    <2> QED BY <1>4, <2>2, <2>6
  <1>7. CASE ChooseStart \/ ChooseOption \/ EnterCustom
    <2> USE <1>1 DEF FormOK, FormWith
    <2>1. CASE ChooseStart
      <3>1. PICK start \in {"yes", "no"} : Touch([form EXCEPT !.start = start])
        BY <2>1 DEF ChooseStart
      <3> QED BY <1>4, <3>1 DEF Touch
    <2>2. CASE ChooseOption
      <3>1. PICK i \in 1..3 :
               Touch([form EXCEPT !.radio = "option",
                                  !.option = DateOptions(form.rendered)[i]])
        BY <2>2 DEF ChooseOption
      <3> DEFINE option == DateOptions(form.rendered)[i]
      <3> HIDE DEF option
      <3> QED BY <1>4, <3>1 DEF Touch
    <2>3. CASE EnterCustom
      <3>1. PICK date \in {form.rendered} \cup TypedDate :
               Touch([form EXCEPT !.radio = "custom", !.option = NoDate,
                                  !.custom = FormatShort(date)])
        BY <2>3 DEF EnterCustom
      <3> QED BY <1>4, <3>1 DEF Touch
    <2> QED BY <1>7, <2>1, <2>2, <2>3
  <1>8. CASE RenderAgain
    <2> DEFINE f == [form EXCEPT !.rendered = today]
    <2>1. form' = Selected(f) /\ UNCHANGED <<today, nights>>
      BY <1>8 DEF RenderAgain
    <2>2. /\ f.at = form.at /\ f.rendered = today /\ f.start = form.start
          /\ f.radio = form.radio /\ f.option = form.option
          /\ f.custom = form.custom
          /\ f \in FormWith(today, form.option, form.custom)
      BY <1>1 DEF FormOK, FormWith
    <2> HIDE DEF f
    <2>3. FormOK(f)
      BY <1>1, <2>2 DEF FormOK
    <2>4. form'.rendered = today
      BY <2>1, <2>2, <2>3, SelectedOK
    <2> QED BY <1>3, <2>1, <2>4
  <1>9. CASE UNCHANGED datesVars
    BY <1>9 DEF datesVars, FormAge
  <1> QED BY <1>2, <1>5, <1>6, <1>7, <1>8, <1>9 DEF DatesNext

(***************************************************************************)
(* No date is saved that has passed in 89 nights, which is longer than any *)
(* form's session lasts: three months on is 89 days on at least, from      *)
(* whichever day.  (It can be no more nights than that: from 1 February of *)
(* most years it is 1 May, 89 days later, which has passed a night later.) *)
(***************************************************************************)
THEOREM NoPastDateForMonths ==
    ASSUME MaxNights <= 89 PROVE DatesSpec => NoDateInThePast
  <1>1. DatesInit => FormAge
    BY DEF DatesInit, NoForm, FormAge
  <1>2. ASSUME IInv, FormAge, Offered(form), [DatesNext]_datesVars,
               targetDate' # targetDate, targetDate' # NoDate
        PROVE  ~Earlier(targetDate', today)
    <2> SUFFICES ASSUME Earlier(targetDate', today) PROVE FALSE
      OBVIOUS
    <2> DEFINE d == form.rendered
               k == Months(d)
    <2>1. form.at = "shown" /\ LaterThanMonths(d, today, 3)
      BY <1>2, PastDateStep
    <2>2. IsDate(d) /\ IsDate(today) /\ nights \in 0..MaxNights
      BY <1>2, <2>1 DEF IInv, FormOK
    <2>3. /\ k \in Nat /\ Months(today) \in Nat
          /\ d[3] \in 1..31 /\ today[3] \in 1..31
      BY <2>2, DateFields
    <2>4. Length(k) + Length(k + 1) + Length(k + 2) >= 89
      BY <2>3, MonthsInARow
    <2>5. Length(k) \in Nat /\ Length(k + 1) \in Nat /\ Length(k + 2) \in Nat
      BY <2>3, LengthOfMonth
    <2>6. Nights(d, today, nights)
      BY <1>2, <2>1 DEF FormAge
    <2> HIDE DEF d
    <2>7. nights >= 90
      BY <2>1, <2>2, <2>3, <2>4, <2>5, <2>6, DatesAssumption DEF Nights, LaterThanMonths
    <2> QED BY <2>2, <2>7, DatesAssumption
  <1>3. DatesSpec => []FormAge
    BY <1>1, FormAgeStep, Invariance, PTL DEF DatesSpec
  <1> QED BY <1>2, <1>3, OfferedAlways, Invariance, PTL DEF DatesSpec, NoDateInThePast
=============================================================================
