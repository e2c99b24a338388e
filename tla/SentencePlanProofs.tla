------------------------- MODULE SentencePlanProofs -------------------------
(***************************************************************************)
(* The safety properties of SentencePlan, proved for any number of tabs    *)
(* and goals: the invariants, what a step may do to what is settled, the   *)
(* refinement, and that a chain of redirects is short.                     *)
(***************************************************************************)
EXTENDS SentencePlan, Naturals, TLAPS

USE NoGoalAssumption

\* The states a tab can be put in are well formed.
LEMMA TabStates ==
    ASSUME NEW p \in Page, NEW g \in Goal \cup {NoGoal}, NEW a \in Arg
    PROVE  /\ Idle \in TabState /\ PlanOverview \in TabState
           /\ Request(p, g) \in TabState
           /\ Shown(p, g, a) \in TabState
           /\ Posted(p, g, a) \in TabState
  BY DEF Idle, PlanOverview, Request, Shown, Posted, TabState, Page, GoalPage, Arg

\* Writing one field of a goal leaves a well-formed goal.
LEMMA GoalUpdates ==
    ASSUME goals \in [Goal -> GoalRecord], NEW g \in Goal \cup {NoGoal}, NEW b \in BOOLEAN
    PROVE  /\ [goals EXCEPT ![g].steps = b] \in [Goal -> GoalRecord]
           /\ \A s \in GoalStatus :
                 [goals EXCEPT ![g].status = s, ![g].dated = b] \in [Goal -> GoalRecord]
  BY DEF GoalRecord

\* Every action that writes the goals writes goal records.
LEMMA GoalsTyped == TypeOK /\ TabStep => goals' \in [Goal -> GoalRecord]
  <1> SUFFICES ASSUME TypeOK, NEW t \in Tab, Serve(t) \/ Act(t)
               PROVE  goals' \in [Goal -> GoalRecord]
    BY DEF TabStep
  <1>1. goals \in [Goal -> GoalRecord]
    BY DEF TypeOK
  <1>2. CASE SaveUpdate(t)
    <2>1. PICK b \in BOOLEAN : goals' = goals \/ goals' = [goals EXCEPT ![tabs[t].goal].steps = b]
      BY <1>2 DEF SaveUpdate
    <2>2. tabs[t].goal \in Goal \cup {NoGoal}
      BY DEF TypeOK, TabState
    <2> QED
      BY <1>1, <2>1, <2>2, GoalUpdates
  <1>3. CASE Serve(t) /\ ~SaveUpdate(t)
    BY <1>1, <1>3 DEF Serve, GetPlan, GetAgree, GetUpdateAgree, GetCreateGoal, GetGoalPage,
         GetView, GetReAdd, GetUpdate, GetRemove, PostPlan, AgreePlan, ChangeGoalRedirect, ReadChangedGoal
  <1>4. CASE CreateGoal(t)
    BY <1>1, <1>4 DEF CreateGoal, GoalRecord, GoalStatus
  <1>5. CASE ChangeGoal(t)
    <2> DEFINE g == tabs[t].goal
    <2>1. g \in Goal /\ goals[g].status \in GoalStatus
      BY <1>5 DEF ChangeGoal, InPlan
    <2>2. PICK dated \in BOOLEAN :
             \E status \in StatusAfterChange(goals[g].status, dated) :
                goals' = [goals EXCEPT ![g].status = status, ![g].dated = dated]
      BY <1>5 DEF ChangeGoal
    <2>3. PICK status \in StatusAfterChange(goals[g].status, dated) :
             goals' = [goals EXCEPT ![g].status = status, ![g].dated = dated]
      BY <2>2
    <2>4. status \in GoalStatus
      BY <2>1, <2>3 DEF StatusAfterChange, GoalStatus
    <2> QED
      BY <1>1, <2>1, <2>3, <2>4, GoalUpdates
  <1>6. CASE AddSteps(t)
    BY <1>1, <1>6 DEF AddSteps, GoalRecord
  <1>7. CASE AchieveGoal(t)
    BY <1>1, <1>7 DEF AchieveGoal, GoalRecord, GoalStatus
  <1>8. CASE RemoveGoal(t)
    BY <1>1, <1>8 DEF RemoveGoal, GoalRecord, GoalStatus
  <1>9. CASE ReAddGoal(t)
    <2>1. PICK dated \in BOOLEAN :
             goals' = [goals EXCEPT ![tabs[t].goal].status = IF dated THEN "ACTIVE" ELSE "FUTURE",
                                    ![tabs[t].goal].dated = dated]
      BY <1>9 DEF ReAddGoal
    <2>2. /\ tabs[t].goal \in Goal \cup {NoGoal}
          /\ (IF dated THEN "ACTIVE" ELSE "FUTURE") \in GoalStatus
      BY DEF TypeOK, TabState, GoalStatus
    <2> QED
      BY <1>1, <2>1, <2>2, GoalUpdates
  <1>10. CASE UNCHANGED goals
    BY <1>1, <1>10
  <1> QED
    BY <1>2, <1>3, <1>4, <1>5, <1>6, <1>7, <1>8, <1>9, <1>10
    DEF Act, FollowLink, PressAgreePlan, FollowLinkFromGoal, SubmitInvalid, Abandon,
        SubmitAgree, SubmitUpdateAgree, SubmitUpdate, DeclineAchieve

\* Every action leaves each tab in a well-formed state.
LEMMA TabsTyped == TypeOK /\ TabStep => tabs' \in [Tab -> TabState]
  <1> SUFFICES ASSUME TypeOK, NEW t \in Tab, Serve(t) \/ Act(t)
               PROVE  tabs' \in [Tab -> TabState]
    BY DEF TabStep
  <1> DEFINE g == tabs[t].goal
  <1>1. /\ tabs \in [Tab -> TabState]
        /\ tabs[t].page \in Page /\ g \in Goal \cup {NoGoal} /\ NoGoal \in Goal \cup {NoGoal}
        /\ returnLink \in Link
    BY DEF TypeOK, TabState
  <1>2. \A state \in TabState : Becomes(t, state) => tabs' \in [Tab -> TabState]
    BY <1>1 DEF Becomes
  <1>3. SUFFICES \E state \in TabState : Becomes(t, state)
    BY <1>2
  <1>4. /\ Idle \in TabState /\ PlanOverview \in TabState
        /\ \A p \in Page, h \in Goal \cup {NoGoal} : Request(p, h) \in TabState
        /\ \A p \in Page, h \in Goal \cup {NoGoal}, a \in Arg :
              Shown(p, h, a) \in TabState /\ Posted(p, h, a) \in TabState
    BY TabStates, "none" \in Arg, "plan" \in Page DEF Arg, Page
  <1> USE <1>1, <1>4
  <1>5. CASE Serve(t)
    <2>1. CASE GetPlan(t) \/ GetAgree(t) \/ GetUpdateAgree(t) \/ GetCreateGoal(t)
      BY <2>1 DEF GetPlan, GetAgree, GetUpdateAgree, GetCreateGoal, Page, Arg
    <2>2. CASE GetGoalPage(t) \/ GetView(t) \/ GetReAdd(t) \/ GetUpdate(t) \/ GetRemove(t)
      BY <2>2 DEF GetGoalPage, GetView, GetReAdd, GetUpdate, GetRemove, Page, GoalPage, Arg
    <2>3. CASE PostPlan(t) \/ AgreePlan(t) \/ ChangeGoalRedirect(t) \/ ReadChangedGoal(t) \/ SaveUpdate(t)
      BY <2>3 DEF PostPlan, AgreePlan, ChangeGoalRedirect, ReadChangedGoal, SaveUpdate, Page, GoalPage, Arg
    <2> QED
      BY <1>5, <2>1, <2>2, <2>3 DEF Serve
  <1>6. CASE Act(t)
    <2>1. CASE FollowLink(t) \/ PressAgreePlan(t) \/ FollowLinkFromGoal(t) \/ SubmitInvalid(t)
      BY <2>1 DEF FollowLink, PressAgreePlan, FollowLinkFromGoal, SubmitInvalid, Page, GoalPage, Arg
    <2>2. CASE Abandon(t) \/ SubmitAgree(t) \/ SubmitUpdateAgree(t) \/ DeclineAchieve(t)
      BY <2>2 DEF Abandon, SubmitAgree, SubmitUpdateAgree, DeclineAchieve, Page, Arg
    <2>3. CASE CreateGoal(t) \/ ChangeGoal(t) \/ SubmitUpdate(t)
      BY <2>3 DEF CreateGoal, ChangeGoal, SubmitUpdate, Page, GoalPage, Arg
    <2>4. CASE AddSteps(t)
      BY <2>4 DEF AddSteps, AfterAddSteps, Link, Page, GoalPage
    <2>5. CASE AchieveGoal(t) \/ RemoveGoal(t) \/ ReAddGoal(t)
      BY <2>5 DEF AchieveGoal, RemoveGoal, ReAddGoal
    <2> QED
      BY <1>6, <2>1, <2>2, <2>3, <2>4, <2>5 DEF Act
  <1> QED
    BY <1>5, <1>6

-----------------------------------------------------------------------------
(* The inductive invariant.                                                *)

LEMMA InitIInv == Init => IInv
  <1> SUFFICES ASSUME Init PROVE IInv
    OBVIOUS
  <1>0. returnLink \in Link /\ heldLink \in Link
    BY DEF Init, Link, LinkTo
  <1>1. TypeOK
    BY <1>0, TabStates DEF Init, TypeOK, Idle, TabState, Page, Arg, GoalRecord,
                           PlanAgreementStatus
  <1>2. DraftGoalsAreLive /\ FutureGoalsAreUndated
    BY DEF Init, DraftGoalsAreLive, FutureGoalsAreUndated
  <1>3. PagesFitDraft /\ AnswersFitPage /\ UpdateFollowsCouldNotAnswer
    BY DEF Init, PagesFitDraft, AgreedOnlyPage, AnswersFitPage, Waits, Idle, LinkTo,
           UpdateFollowsCouldNotAnswer, UpdatedAnswer
  <1> QED
    BY <1>1, <1>2, <1>3 DEF IInv

\* Only AgreePlan writes the agreement, with an answer its page offers.
LEMMA AgreementStep ==
    ASSUME IInv, NEW t \in Tab, Serve(t) \/ Act(t)
    PROVE  \/ ~AgreePlan(t) /\ UNCHANGED <<agreement, couldNotAnswer>>
           \/ /\ AgreePlan(t)
              /\ \/ tabs[t].page = "agree" /\ agreement' \in FirstAnswer
                 \/ tabs[t].page = "updateAgree" /\ agreement' \in UpdatedAnswer /\ couldNotAnswer
              /\ couldNotAnswer' = (couldNotAnswer \/ agreement' = "COULD_NOT_ANSWER")
  <1>1. CASE AgreePlan(t)
    BY <1>1 DEF AgreePlan, IInv, AnswersFitPage, Waits
  <1>2. CASE Serve(t) /\ ~AgreePlan(t)
    BY <1>2 DEF Serve, GetPlan, GetAgree, GetUpdateAgree, GetCreateGoal, GetGoalPage,
         GetView, GetReAdd, GetUpdate, GetRemove, PostPlan, ChangeGoalRedirect, ReadChangedGoal, SaveUpdate
  <1>3. CASE Act(t) /\ ~AgreePlan(t)
    BY <1>3 DEF Act, FollowLink, PressAgreePlan, FollowLinkFromGoal, SubmitInvalid, Abandon,
         SubmitAgree, SubmitUpdateAgree, CreateGoal, ChangeGoal, AddSteps, SubmitUpdate,
         AchieveGoal, DeclineAchieve, RemoveGoal, ReAddGoal
  <1> QED
    BY <1>1, <1>2, <1>3

\* The session's return link stays a link, and leads to a page of an
\* agreed plan only when a tab asked for that page.
LEMMA ReturnLinkStep ==
    ASSUME TypeOK, NEW t \in Tab, Serve(t) \/ Act(t)
    PROVE  /\ returnLink' \in Link /\ heldLink' = heldLink
           /\ \/ returnLink' = returnLink
              \/ returnLink'.page \notin AgreedOnlyPage
              \/ tabs[t].page \in {"update", "view"}
  <1>1. returnLink \in Link /\ tabs[t].goal \in Goal \cup {NoGoal} /\ heldLink' = heldLink
    BY DEF TypeOK, TabState, Serve, Act
  <1>2. CASE Serve(t)
    BY <1>1, <1>2 DEF Serve, GetPlan, GetAgree, GetUpdateAgree, GetCreateGoal, GetGoalPage,
         GetView, GetReAdd, GetUpdate, GetRemove, PostPlan, AgreePlan, ChangeGoalRedirect, ReadChangedGoal, SaveUpdate,
         LinkTo, Link, AgreedOnlyPage, Waits
  <1>3. CASE CreateGoal(t)
    BY <1>1, <1>3 DEF CreateGoal, LinkTo, Link, AgreedOnlyPage
  <1>4. CASE Act(t) /\ ~CreateGoal(t)
    BY <1>1, <1>4 DEF Act, FollowLink, PressAgreePlan, FollowLinkFromGoal, SubmitInvalid,
         Abandon, SubmitAgree, SubmitUpdateAgree, ChangeGoal, AddSteps, SubmitUpdate,
         AchieveGoal, DeclineAchieve, RemoveGoal, ReAddGoal
  <1> QED
    BY <1>2, <1>3, <1>4

LEMMA TypeStep == IInv /\ TabStep => TypeOK'
  <1> SUFFICES ASSUME IInv, NEW t \in Tab, Serve(t) \/ Act(t) PROVE TypeOK'
    BY DEF TabStep
  <1>1. TypeOK /\ TabStep
    BY DEF IInv, TabStep
  <1>2. agreement' \in PlanAgreementStatus
    BY <1>1, AgreementStep DEF TypeOK, PlanAgreementStatus
  <1>3. couldNotAnswer' \in BOOLEAN
    BY <1>1, AgreementStep DEF TypeOK
  <1> QED
    BY <1>1, <1>2, <1>3, GoalsTyped, TabsTyped, ReturnLinkStep DEF TypeOK

\* A step changes one tab only.
LEMMA OtherTabs ==
    ASSUME TypeOK, NEW t \in Tab, Serve(t) \/ Act(t)
    PROVE  \A u \in Tab \ {t} : tabs'[u] = tabs[u]
  <1> USE DEF TypeOK, Becomes
  <1>1. CASE Serve(t)
    BY <1>1 DEF Serve, GetPlan, GetAgree, GetUpdateAgree, GetCreateGoal, GetGoalPage,
         GetView, GetReAdd, GetUpdate, GetRemove, PostPlan, AgreePlan, ChangeGoalRedirect, ReadChangedGoal, SaveUpdate
  <1>2. CASE FollowLink(t) \/ PressAgreePlan(t) \/ FollowLinkFromGoal(t) \/ SubmitInvalid(t) \/ Abandon(t)
    BY <1>2 DEF FollowLink, PressAgreePlan, FollowLinkFromGoal, SubmitInvalid, Abandon
  <1>3. CASE SubmitAgree(t) \/ SubmitUpdateAgree(t) \/ CreateGoal(t) \/ ChangeGoal(t) \/ AddSteps(t)
    BY <1>3 DEF SubmitAgree, SubmitUpdateAgree, CreateGoal, ChangeGoal, AddSteps
  <1>4. CASE SubmitUpdate(t) \/ DeclineAchieve(t) \/ AchieveGoal(t) \/ RemoveGoal(t) \/ ReAddGoal(t)
    BY <1>4 DEF SubmitUpdate, DeclineAchieve, AchieveGoal, RemoveGoal, ReAddGoal
  <1> QED
    BY <1>1, <1>2, <1>3, <1>4 DEF Act

\* Where the forms that write a goal lead.
LEMMA GoalFormsLead ==
    ASSUME NEW t \in Tab
    PROVE  /\ CreateGoal(t) =>
                 \E g \in Goal : \/ Becomes(t, PlanOverview)
                                 \/ Becomes(t, Request("addSteps", g))
           /\ ChangeGoal(t) =>
                 \E a \in {"current", "future", "newCurrent", "newFuture"} :
                    Becomes(t, Posted("change", tabs[t].goal, a))
           /\ AddSteps(t) =>
                 \/ Becomes(t, Idle) \/ Becomes(t, PlanOverview)
                 \/ Becomes(t, Request(returnLink.page, returnLink.goal))
  <1>1. CreateGoal(t) => \E g \in Goal : Becomes(t, PlanOverview) \/ Becomes(t, Request("addSteps", g))
    BY ZenonT(30) DEF CreateGoal
  <1>2. ASSUME ChangeGoal(t)
        PROVE  \E a \in {"current", "future", "newCurrent", "newFuture"} :
                  Becomes(t, Posted("change", tabs[t].goal, a))
    <2> DEFINE new == returnLink = LinkTo("change", tabs[t].goal)
    <2>1. PICK dated \in BOOLEAN :
             Becomes(t, Posted("change", tabs[t].goal,
                               IF dated THEN IF new THEN "newCurrent" ELSE "current"
                                        ELSE IF new THEN "newFuture" ELSE "future"))
      BY <1>2 DEF ChangeGoal
    <2> HIDE DEF new
    <2> QED
      BY <2>1
  <1>3. ASSUME AddSteps(t)
        PROVE  \/ Becomes(t, Idle) \/ Becomes(t, PlanOverview)
               \/ Becomes(t, Request(returnLink.page, returnLink.goal))
    <2>1. Becomes(t, AfterAddSteps(tabs[t].goal))
      BY <1>3 DEF AddSteps
    <2> QED
      BY <2>1 DEF AfterAddSteps
  <1> QED
    BY <1>1, <1>2, <1>3

\* While the plan is a draft no request, page or return link is one that only
\* an agreed plan leads to.
LEMMA PagesStep == IInv /\ TabStep => PagesFitDraft'
  <1> SUFFICES ASSUME IInv, NEW t \in Tab, Serve(t) \/ Act(t), agreement' = "DRAFT"
               PROVE  /\ \A u \in Tab : /\ tabs'[u].page \notin AgreedOnlyPage
                                        /\ tabs'[u].arg \notin {"remove", "agreed"}
                      /\ {returnLink'.page, heldLink'.page} \cap AgreedOnlyPage = {}
    BY DEF TabStep, PagesFitDraft
  <1>1. agreement = "DRAFT" /\ ~AgreePlan(t)
    BY AgreementStep DEF FirstAnswer, UpdatedAnswer
  <1>2. /\ TypeOK
        /\ \A u \in Tab : tabs[u].page \notin AgreedOnlyPage /\ tabs[u].arg \notin {"remove", "agreed"}
        /\ returnLink.page \notin AgreedOnlyPage /\ heldLink.page \notin AgreedOnlyPage
        /\ \A h \in Goal : goals[h].status \notin {"REMOVED", "ACHIEVED"}
    BY <1>1 DEF IInv, PagesFitDraft, DraftGoalsAreLive
  <1>3. tabs[t].page \in Page
    BY <1>2 DEF TypeOK, TabState
  <1>4. returnLink'.page \notin AgreedOnlyPage /\ heldLink'.page \notin AgreedOnlyPage
    BY <1>2, ReturnLinkStep DEF AgreedOnlyPage
  <1>5. returnLink.page \in {"plan", "none", "change", "update", "remove", "view"}
    BY <1>2 DEF TypeOK, Link
  <1>6. tabs'[t].page \notin AgreedOnlyPage /\ tabs'[t].arg \notin {"remove", "agreed"}
    <2>0. tabs \in [Tab -> TabState]
      BY <1>2 DEF TypeOK
    <2> USE <1>1, <1>2, <1>3, <2>0 DEF Becomes, AgreedOnlyPage, Idle, PlanOverview, Request, Shown, Posted
    <2>1. CASE GetPlan(t) \/ GetAgree(t) \/ GetUpdateAgree(t) \/ GetCreateGoal(t)
      BY <2>1 DEF GetPlan, GetAgree, GetUpdateAgree, GetCreateGoal
    <2>2. CASE GetGoalPage(t) \/ GetView(t) \/ GetReAdd(t) \/ GetUpdate(t) \/ GetRemove(t)
      BY <2>2 DEF GetGoalPage, GetView, GetReAdd, GetUpdate, GetRemove, Waits
    <2>3. CASE PostPlan(t) \/ ChangeGoalRedirect(t) \/ ReadChangedGoal(t) \/ SaveUpdate(t)
      BY <2>3 DEF PostPlan, ChangeGoalRedirect, ReadChangedGoal, SaveUpdate, Waits
    <2>4. CASE FollowLink(t)
      BY <2>4 DEF FollowLink, LinkOffered, UpdatedAnswer
    <2>5. CASE PressAgreePlan(t) \/ FollowLinkFromGoal(t) \/ SubmitInvalid(t) \/ Abandon(t)
      BY <2>5 DEF PressAgreePlan, FollowLinkFromGoal, SubmitInvalid, Abandon, Waits
    <2>6. CASE SubmitAgree(t) \/ SubmitUpdateAgree(t) \/ DeclineAchieve(t) \/ SubmitUpdate(t)
      BY <2>6 DEF SubmitAgree, SubmitUpdateAgree, DeclineAchieve, SubmitUpdate, FirstAnswer, Waits
    <2>7. CASE CreateGoal(t) \/ ChangeGoal(t)
      BY <2>7, GoalFormsLead
    <2>8. CASE AddSteps(t)
      BY <1>5, <2>8, GoalFormsLead
    <2>9. CASE AchieveGoal(t) \/ RemoveGoal(t) \/ ReAddGoal(t)
      BY <2>9 DEF AchieveGoal, RemoveGoal, ReAddGoal
    <2> QED
      BY <1>1, <2>1, <2>2, <2>3, <2>4, <2>5, <2>6, <2>7, <2>8, <2>9 DEF Serve, Act
  <1> QED
    <2>1. \A u \in Tab \ {t} : tabs'[u] = tabs[u]
      BY <1>2, OtherTabs
    <2> QED
      BY <1>2, <1>4, <1>6, <2>1

\* Only a tab that was reading and validating the plan starts to record an
\* answer.
LEMMA NewAnswer ==
    ASSUME TypeOK, NEW t \in Tab, Serve(t) \/ Act(t)
    PROVE  /\ Waits(t, "post", "agree")' =>
                 SubmitAgree(t) /\ tabs'[t].arg \in FirstAnswer
           /\ Waits(t, "post", "updateAgree")' =>
                 SubmitUpdateAgree(t) /\ tabs'[t].arg \in UpdatedAnswer
  <1>0. tabs \in [Tab -> TabState]
    BY DEF TypeOK
  <1> USE <1>0 DEF Waits, Becomes, Idle, PlanOverview, Request, Shown, Posted
  <1>1. CASE GetPlan(t) \/ GetAgree(t) \/ GetUpdateAgree(t) \/ GetCreateGoal(t)
    BY <1>1 DEF GetPlan, GetAgree, GetUpdateAgree, GetCreateGoal
  <1>2. CASE GetGoalPage(t) \/ GetView(t) \/ GetReAdd(t) \/ GetUpdate(t) \/ GetRemove(t)
    BY <1>2 DEF GetGoalPage, GetView, GetReAdd, GetUpdate, GetRemove
  <1>3. CASE PostPlan(t) \/ AgreePlan(t) \/ ChangeGoalRedirect(t) \/ ReadChangedGoal(t) \/ SaveUpdate(t)
    BY <1>3 DEF PostPlan, AgreePlan, ChangeGoalRedirect, ReadChangedGoal, SaveUpdate
  <1>4. CASE FollowLink(t) \/ PressAgreePlan(t) \/ FollowLinkFromGoal(t) \/ SubmitInvalid(t) \/ Abandon(t)
    BY <1>4 DEF FollowLink, PressAgreePlan, FollowLinkFromGoal, SubmitInvalid, Abandon
  <1>5. CASE SubmitAgree(t) \/ SubmitUpdateAgree(t)
    BY <1>5 DEF SubmitAgree, SubmitUpdateAgree
  <1>6. CASE CreateGoal(t) \/ ChangeGoal(t) \/ AddSteps(t)
    BY <1>6, GoalFormsLead
  <1>7. CASE SubmitUpdate(t) \/ DeclineAchieve(t) \/ AchieveGoal(t) \/ RemoveGoal(t) \/ ReAddGoal(t)
    BY <1>7 DEF SubmitUpdate, DeclineAchieve, AchieveGoal, RemoveGoal, ReAddGoal
  <1> QED
    BY <1>1, <1>2, <1>3, <1>4, <1>5, <1>6, <1>7 DEF Serve, Act

\* What a tab is about to record fits its page, and the history knows of every
\* COULD_NOT_ANSWER.
LEMMA AnswersStep == IInv /\ TabStep => AnswersFitPage' /\ UpdateFollowsCouldNotAnswer'
  <1> SUFFICES ASSUME IInv, NEW t \in Tab, Serve(t) \/ Act(t)
               PROVE  AnswersFitPage' /\ UpdateFollowsCouldNotAnswer'
    BY DEF TabStep
  <1>1. TypeOK /\ AnswersFitPage /\ UpdateFollowsCouldNotAnswer
    BY DEF IInv
  <1>2. /\ couldNotAnswer => couldNotAnswer'
        /\ agreement' = "COULD_NOT_ANSWER" => couldNotAnswer'
        /\ agreement' \in UpdatedAnswer => couldNotAnswer'
    BY <1>1, AgreementStep DEF AnswersFitPage, UpdateFollowsCouldNotAnswer, FirstAnswer, UpdatedAnswer
  <1>3. /\ Waits(t, "post", "agree")' => tabs'[t].arg \in FirstAnswer
        /\ Waits(t, "post", "updateAgree")' =>
              SubmitUpdateAgree(t) /\ tabs'[t].arg \in UpdatedAnswer
    BY <1>1, NewAnswer
  <1>4. SubmitUpdateAgree(t) => couldNotAnswer'
    BY <1>1, <1>2 DEF SubmitUpdateAgree, AnswersFitPage
  <1>5. \A u \in Tab \ {t} : tabs'[u] = tabs[u]
    BY <1>1, OtherTabs
  <1> QED
    BY <1>1, <1>2, <1>3, <1>4, <1>5 DEF AnswersFitPage, UpdateFollowsCouldNotAnswer, Waits

\* What a step can do to one goal: nothing but to its steps, or one of the
\* writes the handlers make.
LEMMA GoalWrites ==
    ASSUME TypeOK, NEW t \in Tab, Serve(t) \/ Act(t), NEW g \in Goal
    PROVE  \/ goals'[g].status = goals[g].status /\ goals'[g].dated = goals[g].dated
           \/ goals'[g].status = "ACTIVE"
           \/ goals'[g].status = "DELETED" /\ tabs[t].arg = "delete"
           \/ goals'[g].status = "FUTURE" /\ goals'[g].dated = FALSE
           \/ goals'[g].status = goals[g].status /\ goals[g].status # "FUTURE"
           \/ goals'[g].status = "REMOVED" /\ tabs[t].arg = "remove"
           \/ goals'[g].status = "ACHIEVED" /\ tabs[t].page \in {"achieve", "confirmAchieve"}
  <1>1. goals \in [Goal -> GoalRecord] /\ goals[g] \in GoalRecord
    BY DEF TypeOK
  <1> USE <1>1 DEF GoalRecord
  <1>2. CASE SaveUpdate(t)
    <2>1. PICK b \in BOOLEAN : goals' = goals \/ goals' = [goals EXCEPT ![tabs[t].goal].steps = b]
      BY <1>2 DEF SaveUpdate
    <2> QED
      BY <2>1
  <1>3. CASE Serve(t) /\ ~SaveUpdate(t)
    <2>1. goals' = goals
      BY <1>3 DEF Serve, GetPlan, GetAgree, GetUpdateAgree, GetCreateGoal, GetGoalPage,
           GetView, GetReAdd, GetUpdate, GetRemove, PostPlan, AgreePlan, ChangeGoalRedirect, ReadChangedGoal
    <2> QED
      BY <2>1
  <1>4. CASE CreateGoal(t)
    <2>1. PICK h \in Goal, dated \in BOOLEAN :
             goals' = [goals EXCEPT ![h] = [status |-> IF dated THEN "ACTIVE" ELSE "FUTURE",
                                            dated |-> dated, steps |-> FALSE]]
      BY <1>4 DEF CreateGoal
    <2>2. CASE g = h
      BY <2>1, <2>2
    <2>3. CASE g # h
      BY <2>1, <2>3
    <2> QED
      BY <2>2, <2>3
  <1>5. CASE ChangeGoal(t)
    <2>1. PICK dated \in BOOLEAN :
             \E status \in StatusAfterChange(goals[tabs[t].goal].status, dated) :
                goals' = [goals EXCEPT ![tabs[t].goal].status = status, ![tabs[t].goal].dated = dated]
      BY <1>5 DEF ChangeGoal
    <2>2. PICK status \in StatusAfterChange(goals[tabs[t].goal].status, dated) :
             goals' = [goals EXCEPT ![tabs[t].goal].status = status, ![tabs[t].goal].dated = dated]
      BY <2>1
    <2>3. CASE g = tabs[t].goal
      <3>1. goals'[g].status = status /\ goals'[g].dated = dated
        BY <2>2, <2>3
      <3>2. \/ status = "ACTIVE"
            \/ status = "FUTURE" /\ dated = FALSE
            \/ status = goals[g].status /\ goals[g].status # "FUTURE"
        BY <2>2, <2>3 DEF StatusAfterChange
      <3> QED
        BY <3>1, <3>2
    <2>4. CASE g # tabs[t].goal
      BY <2>2, <2>4
    <2> QED
      BY <2>3, <2>4
  <1>6. CASE AddSteps(t)
    <2>1. goals' = [goals EXCEPT ![tabs[t].goal].steps = TRUE]
      BY <1>6 DEF AddSteps
    <2> QED
      BY <2>1
  <1>7. CASE AchieveGoal(t) \/ RemoveGoal(t)
    BY <1>7 DEF AchieveGoal, RemoveGoal, Waits
  <1>8. CASE ReAddGoal(t)
    <2>1. PICK dated \in BOOLEAN :
             goals' = [goals EXCEPT ![tabs[t].goal].status = IF dated THEN "ACTIVE" ELSE "FUTURE",
                                    ![tabs[t].goal].dated = dated]
      BY <1>8 DEF ReAddGoal
    <2>2. CASE g = tabs[t].goal
      BY <2>1, <2>2
    <2>3. CASE g # tabs[t].goal
      BY <2>1, <2>3
    <2> QED
      BY <2>2, <2>3
  <1>9. CASE UNCHANGED goals
    BY <1>9
  <1> QED
    BY <1>2, <1>3, <1>4, <1>5, <1>6, <1>7, <1>8, <1>9
    DEF Act, FollowLink, PressAgreePlan, FollowLinkFromGoal, SubmitInvalid, Abandon,
        SubmitAgree, SubmitUpdateAgree, SubmitUpdate, DeclineAchieve

\* No goal of a draft becomes removed or achieved, and no future goal dated.
LEMMA GoalsStep == IInv /\ TabStep => DraftGoalsAreLive' /\ FutureGoalsAreUndated'
  <1> SUFFICES ASSUME IInv, NEW t \in Tab, Serve(t) \/ Act(t), NEW g \in Goal
               PROVE  /\ agreement' = "DRAFT" => goals'[g].status \notin {"REMOVED", "ACHIEVED"}
                      /\ goals'[g].status = "FUTURE" => ~goals'[g].dated
    BY DEF TabStep, DraftGoalsAreLive, FutureGoalsAreUndated
  <1>1. /\ TypeOK
        /\ goals[g].status = "FUTURE" => ~goals[g].dated
    BY DEF IInv, FutureGoalsAreUndated
  <1>2. ASSUME agreement' = "DRAFT"
        PROVE  /\ goals[g].status \notin {"REMOVED", "ACHIEVED"}
               /\ tabs[t].arg # "remove"
               /\ tabs[t].page \notin {"achieve", "confirmAchieve"}
    BY <1>2, AgreementStep
    DEF IInv, DraftGoalsAreLive, PagesFitDraft, AgreedOnlyPage, FirstAnswer, UpdatedAnswer
  <1> QED
    BY <1>1, <1>2, GoalWrites

\* Another request has no part in anything but the session.
LEMMA SessionOnly == HoldSession \/ WriteSessionBack => UNCHANGED <<agreement, goals, tabs>>
  BY DEF HoldSession, WriteSessionBack

\* A return link that is brought back was one before, of a plan that has not been
\* a draft again since.
LEMMA SessionStep == IInv /\ (HoldSession \/ WriteSessionBack) => IInv'
  BY DEF HoldSession, WriteSessionBack, IInv, TypeOK, DraftGoalsAreLive, PagesFitDraft,
         AnswersFitPage, Waits, FutureGoalsAreUndated, UpdateFollowsCouldNotAnswer

\* The pages, requests and return links of every tab always fit the plan's
\* agreement status, for any number of tabs and goals: IInv holds in every
\* reachable state.
THEOREM InductiveInvariant == Spec => []IInv
  <1>1. IInv /\ [Next]_vars => IInv'
    <2>1. CASE Next
      BY <2>1, TypeStep, PagesStep, AnswersStep, GoalsStep, SessionStep DEF IInv, Next
    <2>2. CASE UNCHANGED vars
      BY <2>2 DEF vars, IInv, TypeOK, DraftGoalsAreLive, PagesFitDraft, AnswersFitPage, Waits,
                  FutureGoalsAreUndated, UpdateFollowsCouldNotAnswer
    <2> QED
      BY <2>1, <2>2
  <1> QED
    BY <1>1, InitIInv, PTL DEF Spec

-----------------------------------------------------------------------------
(* What follows from it.                                                   *)

\* The plan, its goals, the tabs and the session's return link stay well typed.
THEOREM TypeCorrect == Spec => []TypeOK
  <1>1. IInv => TypeOK
    BY DEF IInv
  <1> QED
    BY <1>1, InductiveInvariant, PTL

\* No interleaving of tabs gets a draft plan a removed or an achieved goal,
\* although the routes that remove and achieve never look at its status.
THEOREM DraftGoals == Spec => []DraftGoalsAreLive
  <1>1. IInv => DraftGoalsAreLive
    BY DEF IInv
  <1> QED
    BY <1>1, InductiveInvariant, PTL

\* A draft that passes the validation has a current goal with steps.
THEOREM ReadyDraft == Spec => []ReadyDraftHasCurrentGoal
  <1>1. IInv => ReadyDraftHasCurrentGoal
    <2> SUFFICES ASSUME IInv, agreement = "DRAFT", PlanReadyForAgreement
                 PROVE  \E g \in Goal : goals[g].status = "ACTIVE" /\ goals[g].steps
      BY DEF ReadyDraftHasCurrentGoal
    <2>1. PICK g \in Goal : InPlan(g) /\ goals[g].dated
      BY DEF PlanReadyForAgreement, AtLeastOneCurrentGoal
    <2>2. goals[g].status = "ACTIVE"
      BY <2>1 DEF IInv, InPlan, GoalStatus, DraftGoalsAreLive, FutureGoalsAreUndated
    <2>3. goals[g].steps
      BY <2>1, <2>2 DEF PlanReadyForAgreement, StepsAreThere
    <2> QED
      BY <2>2, <2>3
  <1> QED
    BY <1>1, InductiveInvariant, PTL

\* An agreement is only updated once the person could not answer.
THEOREM UpdateFollows == Spec => []UpdateFollowsCouldNotAnswer
  <1>1. IInv => UpdateFollowsCouldNotAnswer
    BY DEF IInv
  <1> QED
    BY <1>1, InductiveInvariant, PTL

\* Once the first answers under way have landed, nothing but an updated answer
\* replaces an agreement, however many old agree pages are still open.
THEOREM AgreementStaysSettled == Spec => SettledAgreement
  <1> DEFINE Keeps == AgreementSettled =>
                        /\ AgreementSettled'
                        /\ agreement' \in {agreement} \cup UpdatedAnswer
  <1>1. IInv /\ [Next]_vars => [Keeps]_vars
    <2>0. UNCHANGED <<agreement, tabs>> => Keeps
      BY DEF AgreementSettled, Waits
    <2> SUFFICES ASSUME IInv, NEW t \in Tab, Serve(t) \/ Act(t), AgreementSettled
                 PROVE  AgreementSettled' /\ agreement' \in {agreement} \cup UpdatedAnswer
      BY <2>0, SessionOnly DEF Next, TabStep
    <2>1. TypeOK /\ agreement # "DRAFT" /\ \A u \in Tab : ~Waits(u, "post", "agree")
      BY DEF IInv, AgreementSettled
    <2>2. AgreePlan(t) => tabs[t].page = "updateAgree"
      BY <2>1 DEF AgreePlan, Waits
    <2>3. agreement' \in {agreement} \cup UpdatedAnswer
      BY <2>2, AgreementStep
    <2>4. agreement' # "DRAFT"
      BY <2>1, <2>3 DEF UpdatedAnswer
    <2>5. ~Waits(t, "post", "agree")'
      BY <2>1, NewAnswer DEF SubmitAgree
    <2>6. \A u \in Tab \ {t} : ~Waits(u, "post", "agree")'
      BY <2>1, OtherTabs DEF Waits
    <2> QED
      BY <2>3, <2>4, <2>5, <2>6 DEF AgreementSettled
  <1> QED
    BY <1>1, InductiveInvariant, PTL DEF SettledAgreement, Spec

\* A delete page is only rendered for a draft plan.
LEMMA NewDeletePage ==
    ASSUME TypeOK, NEW t \in Tab, Serve(t) \/ Act(t), agreement # "DRAFT", tabs[t].arg # "delete"
    PROVE  tabs'[t].arg # "delete"
  <1>1. tabs \in [Tab -> TabState]
    BY DEF TypeOK
  <1> USE <1>1 DEF Becomes, Idle, PlanOverview, Request, Shown, Posted
  <1>2. CASE GetPlan(t) \/ GetAgree(t) \/ GetUpdateAgree(t) \/ GetCreateGoal(t)
    BY <1>2 DEF GetPlan, GetAgree, GetUpdateAgree, GetCreateGoal
  <1>3. CASE GetGoalPage(t) \/ GetView(t) \/ GetReAdd(t) \/ GetUpdate(t) \/ GetRemove(t)
    BY <1>3 DEF GetGoalPage, GetView, GetReAdd, GetUpdate, GetRemove
  <1>4. CASE PostPlan(t) \/ AgreePlan(t) \/ ChangeGoalRedirect(t) \/ ReadChangedGoal(t) \/ SaveUpdate(t)
    BY <1>4 DEF PostPlan, AgreePlan, ChangeGoalRedirect, ReadChangedGoal, SaveUpdate
  <1>5. CASE FollowLink(t) \/ PressAgreePlan(t) \/ FollowLinkFromGoal(t) \/ SubmitInvalid(t) \/ Abandon(t)
    BY <1>5 DEF FollowLink, PressAgreePlan, FollowLinkFromGoal, SubmitInvalid, Abandon
  <1>6. CASE SubmitAgree(t) \/ SubmitUpdateAgree(t)
    BY <1>6 DEF SubmitAgree, SubmitUpdateAgree, FirstAnswer, UpdatedAnswer
  <1>7. CASE CreateGoal(t) \/ ChangeGoal(t) \/ AddSteps(t)
    BY <1>7, GoalFormsLead
  <1>8. CASE SubmitUpdate(t) \/ DeclineAchieve(t) \/ AchieveGoal(t) \/ RemoveGoal(t) \/ ReAddGoal(t)
    BY <1>8 DEF SubmitUpdate, DeclineAchieve, AchieveGoal, RemoveGoal, ReAddGoal
  <1> QED
    BY <1>2, <1>3, <1>4, <1>5, <1>6, <1>7, <1>8 DEF Serve, Act

\* A goal leaves the plan only through a delete page.
LEMMA GoalsStay ==
    ASSUME TypeOK, NEW t \in Tab, Serve(t) \/ Act(t), tabs[t].arg # "delete",
           NEW g \in Goal, InPlan(g)
    PROVE  InPlan(g)'
  BY GoalWrites DEF InPlan, GoalStatus

\* Once an agreed plan has outlived the delete pages of its draft, no goal ever
\* leaves it for good.
THEOREM GoalsStaySettled == Spec => SettledGoals
  <1> DEFINE Keeps == NoDeletePending =>
                        /\ NoDeletePending'
                        /\ \A g \in Goal : InPlan(g) => InPlan(g)'
  <1>1. IInv /\ [Next]_vars => [Keeps]_vars
    <2>0. UNCHANGED <<agreement, goals, tabs>> => Keeps
      BY DEF NoDeletePending, InPlan
    <2> SUFFICES ASSUME IInv, NEW t \in Tab, Serve(t) \/ Act(t), NoDeletePending
                 PROVE  NoDeletePending' /\ \A g \in Goal : InPlan(g) => InPlan(g)'
      BY <2>0, SessionOnly DEF Next, TabStep
    <2>1. TypeOK /\ agreement # "DRAFT" /\ \A u \in Tab : tabs[u].arg # "delete"
      BY DEF IInv, NoDeletePending
    <2>2. agreement' # "DRAFT"
      BY <2>1, AgreementStep DEF FirstAnswer, UpdatedAnswer
    <2>3. \A u \in Tab : tabs'[u].arg # "delete"
      BY <2>1, NewDeletePage, OtherTabs
    <2>4. \A g \in Goal : InPlan(g) => InPlan(g)'
      BY <2>1, GoalsStay
    <2> QED
      BY <2>2, <2>3, <2>4 DEF NoDeletePending
  <1> QED
    BY <1>1, InductiveInvariant, PTL DEF SettledGoals, Spec

-----------------------------------------------------------------------------
(* Refinement.                                                             *)

\* The handlers implement AgreementLifecycle: submitting an agreement form
\* starts an answer, recording it lands one, giving up fails one, and every
\* other step of a tab leaves the agreement and the answers under way alone.
THEOREM LifecycleRefinement == Spec => ImplementsLifecycle
  <1> DEFINE answering == {u \in Tab : Waits(u, "post", "agree")}
             updating == {u \in Tab : Waits(u, "post", "updateAgree")}
  <1>1. Init => Lifecycle!Init
    BY DEF Init, Lifecycle!Init, Waits, Idle
  <1>2. IInv /\ [Next]_vars => [Lifecycle!Next]_(Lifecycle!vars)
    <2>1. ASSUME UNCHANGED <<agreement, tabs>>
          PROVE  UNCHANGED Lifecycle!vars
      BY <2>1 DEF Lifecycle!vars, Waits
    <2>2. ASSUME IInv, NEW t \in Tab, Serve(t) \/ Act(t)
          PROVE  Lifecycle!Next \/ UNCHANGED Lifecycle!vars
      <3>0. TypeOK
        BY <2>2 DEF IInv
      <3>1. \A u \in Tab \ {t} : Waits(u, "post", "agree")' = Waits(u, "post", "agree")
        BY <2>2, <3>0, OtherTabs DEF Waits
      <3>2. \A u \in Tab \ {t} : Waits(u, "post", "updateAgree")' = Waits(u, "post", "updateAgree")
        BY <2>2, <3>0, OtherTabs DEF Waits
      <3>3. CASE SubmitAgree(t)
        <4>1. agreement = "DRAFT" /\ agreement' = agreement /\ t \notin answering \cup updating
          BY <3>3 DEF SubmitAgree, Waits
        <4>2. Waits(t, "post", "agree")' /\ ~Waits(t, "post", "updateAgree")'
          BY <3>0, <3>3 DEF SubmitAgree, Becomes, Posted, Waits, TypeOK
        <4> QED
          BY <3>1, <3>2, <4>1, <4>2 DEF Lifecycle!Next, Lifecycle!StartAnswer
      <3>4. CASE SubmitUpdateAgree(t)
        <4>1. /\ agreement = "COULD_NOT_ANSWER" /\ agreement' = agreement
              /\ t \notin answering \cup updating
          BY <3>4 DEF SubmitUpdateAgree, Waits
        <4>2. Waits(t, "post", "updateAgree")' /\ ~Waits(t, "post", "agree")'
          BY <3>0, <3>4 DEF SubmitUpdateAgree, Becomes, Posted, Waits, TypeOK
        <4> QED
          BY <3>1, <3>2, <4>1, <4>2 DEF Lifecycle!Next, Lifecycle!StartUpdate
      <3>5. CASE ~SubmitAgree(t) /\ ~SubmitUpdateAgree(t)
        <4>1. ~Waits(t, "post", "agree")' /\ ~Waits(t, "post", "updateAgree")'
          BY <2>2, <3>0, <3>5, NewAnswer
        <4>2. answering' = answering \ {t} /\ updating' = updating \ {t}
          BY <3>1, <3>2, <4>1
        <4>3. CASE AgreePlan(t)
          <5>1. \/ t \in answering /\ t \notin updating /\ agreement' \in FirstAnswer
                \/ t \in updating /\ t \notin answering /\ agreement' \in UpdatedAnswer
            BY <2>2, <4>3, AgreementStep DEF AgreePlan, Waits
          <5> QED
            BY <4>2, <5>1 DEF Lifecycle!Next, Lifecycle!LandAnswer, Lifecycle!LandUpdate,
                              Lifecycle!First, Lifecycle!Updated, FirstAnswer, UpdatedAnswer
        <4>4. CASE ~AgreePlan(t)
          <5>1. agreement' = agreement
            BY <2>2, <4>4, AgreementStep
          <5> QED
            BY <4>2, <5>1 DEF Lifecycle!Next, Lifecycle!Fail, Lifecycle!vars
        <4> QED
          BY <4>3, <4>4
      <3> QED
        BY <3>3, <3>4, <3>5
    <2> QED
      BY <2>1, <2>2, SessionOnly DEF Next, TabStep, vars
  <1> QED
    BY <1>1, <1>2, InductiveInvariant, PTL DEF Spec, ImplementsLifecycle, Lifecycle!Spec

-----------------------------------------------------------------------------
(* Progress.                                                               *)

\* How many requests a tab has still to make before it shows a page, at most.
Hops(state) ==
    IF state.at \notin {"get", "post"} THEN 0
    ELSE IF state.at = "get"
         THEN IF state.page \in {"agree", "updateAgree"} THEN 2 ELSE 1
         ELSE IF state.page = "plan" \/ (state.page = "change" /\ state.arg # "agreed")
              THEN 3 ELSE 2

\* Each handler brings its tab closer to a page; nothing else but giving up does
\* anything to a tab that waits.
RedirectsGetOn ==
    [][\A t \in Tab :
           tabs[t].at \in {"get", "post"} =>
               /\ Serve(t) => Hops(tabs'[t]) < Hops(tabs[t])
               /\ ~Serve(t) => tabs'[t] \in {tabs[t], Idle}]_vars

LEMMA HopsOf ==
    /\ Hops(Idle) = 0 /\ Hops(PlanOverview) = 1
    /\ \A p, g, a : /\ Hops(Shown(p, g, a)) = 0
                    /\ Hops(Posted(p, g, a)) =
                          IF p = "plan" \/ (p = "change" /\ a # "agreed") THEN 3 ELSE 2
                    /\ Hops(Request(p, g)) =
                          IF p \in {"agree", "updateAgree"} THEN 2 ELSE 1
  BY DEF Hops, Idle, PlanOverview, Shown, Posted, Request

LEMMA HopsOfWaiting ==
    ASSUME NEW state
    PROVE  /\ Hops(state) \in 0..3
           /\ state.at = "get" => Hops(state) \in 1..2
           /\ state.at = "get" /\ state.page \in {"agree", "updateAgree"} => Hops(state) = 2
           /\ state.at = "post" => Hops(state) \in 2..3
           /\ state.at = "post" /\ state.page = "plan" => Hops(state) = 3
           /\ state.at = "post" /\ state.page = "change" /\ state.arg # "agreed" => Hops(state) = 3
  BY DEF Hops

\* Where a handler leads its tab.
LEMMA GetsOn ==
    ASSUME TypeOK, NEW t \in Tab,
           GetPlan(t) \/ GetCreateGoal(t) \/ GetGoalPage(t) \/ GetView(t) \/ GetReAdd(t)
              \/ GetUpdate(t) \/ GetRemove(t)
    PROVE  tabs[t].at = "get" /\ Hops(tabs'[t]) = 0
  <1>1. tabs \in [Tab -> TabState]
    BY DEF TypeOK
  <1>2. CASE GetPlan(t) \/ GetCreateGoal(t)
    BY <1>1, <1>2, HopsOf DEF GetPlan, GetCreateGoal, Becomes, Waits
  <1>3. CASE GetGoalPage(t) \/ GetView(t)
    BY <1>1, <1>3, HopsOf DEF GetGoalPage, GetView, Becomes, Waits
  <1>4. CASE GetReAdd(t) \/ GetUpdate(t)
    BY <1>1, <1>4, HopsOf DEF GetReAdd, GetUpdate, Becomes, Waits
  <1>5. CASE GetRemove(t)
    BY <1>1, <1>5, HopsOf DEF GetRemove, Becomes, Waits
  <1> QED
    BY <1>2, <1>3, <1>4, <1>5, Zenon

LEMMA ServeGetsOn ==
    ASSUME TypeOK, NEW t \in Tab, Serve(t) PROVE Hops(tabs'[t]) < Hops(tabs[t])
  <1>1. tabs \in [Tab -> TabState]
    BY DEF TypeOK
  <1>2. ASSUME tabs[t].at = "get", Hops(tabs'[t]) = 0
        PROVE  Hops(tabs'[t]) < Hops(tabs[t])
    BY <1>2, HopsOfWaiting
  <1>3. ASSUME GetAgree(t) \/ GetUpdateAgree(t)
        PROVE  Hops(tabs'[t]) \in 0..1 /\ Hops(tabs[t]) = 2
    <2>1. \/ tabs'[t] = PlanOverview
          \/ \E p : tabs'[t] = Shown(p, NoGoal, "none")
      BY <1>1, <1>3 DEF GetAgree, GetUpdateAgree, Becomes
    <2>2. tabs[t].at = "get" /\ tabs[t].page \in {"agree", "updateAgree"}
      BY <1>3 DEF GetAgree, GetUpdateAgree, Waits
    <2> QED
      BY <2>1, <2>2, HopsOf, HopsOfWaiting
  <1>4. ASSUME PostPlan(t)
        PROVE  Hops(tabs'[t]) \in 0..2 /\ Hops(tabs[t]) = 3
    <2>1. tabs'[t] \in {Idle, Request("agree", NoGoal)}
      BY <1>1, <1>4 DEF PostPlan, Becomes
    <2>2. Hops(Idle) = 0 /\ Hops(Request("agree", NoGoal)) = 2
      BY HopsOf
    <2>3. Hops(tabs[t]) = 3
      BY <1>4, HopsOfWaiting DEF PostPlan, Waits
    <2> QED
      BY <2>1, <2>2, <2>3
  <1>5. ASSUME AgreePlan(t) \/ ReadChangedGoal(t) \/ SaveUpdate(t)
        PROVE  Hops(tabs'[t]) \in 0..1 /\ Hops(tabs[t]) \in 2..3
    <2>1. \/ tabs'[t] \in {Idle, PlanOverview}
          \/ \E p \in {"addSteps", "update", "achieve", "remove", "confirmAchieve"} :
                \E g : tabs'[t] = Request(p, g)
      <3>1. CASE AgreePlan(t)
        BY <1>1, <3>1 DEF AgreePlan, Becomes
      <3>2. CASE ReadChangedGoal(t)
        BY <1>1, <3>2 DEF ReadChangedGoal, Becomes
      <3>3. CASE SaveUpdate(t)
        BY <1>1, <3>3 DEF SaveUpdate, Becomes
      <3> QED
        BY <1>5, <3>1, <3>2, <3>3
    <2>2. \A p \in {"addSteps", "update", "achieve", "remove", "confirmAchieve"} :
             \A g : Hops(Request(p, g)) = 1
      BY HopsOf
    <2>3. Hops(tabs'[t]) \in 0..1
      BY <2>1, <2>2, HopsOf
    <2>4. tabs[t].at = "post"
      BY <1>5 DEF AgreePlan, ReadChangedGoal, SaveUpdate, Waits
    <2> QED
      BY <2>3, <2>4, HopsOfWaiting
  <1>9. ASSUME ChangeGoalRedirect(t)
        PROVE  Hops(tabs'[t]) \in 0..2 /\ Hops(tabs[t]) = 3
    <2>1. \/ tabs'[t] = PlanOverview
          \/ \E p \in {"addSteps", "update"} : \E g : tabs'[t] = Request(p, g)
          \/ \E g : tabs'[t] = Posted("change", g, "agreed")
      BY <1>1, <1>9 DEF ChangeGoalRedirect, Becomes
    <2>2. Hops(tabs'[t]) \in 0..2
      BY <2>1, HopsOf
    <2>3. Hops(tabs[t]) = 3
      BY <1>9, HopsOfWaiting DEF ChangeGoalRedirect, Waits
    <2> QED
      BY <2>2, <2>3
  <1>6. ASSUME Hops(tabs'[t]) \in 0..1, Hops(tabs[t]) \in 2..3
        PROVE  Hops(tabs'[t]) < Hops(tabs[t])
    BY <1>6
  <1>7. ASSUME Hops(tabs'[t]) \in 0..2, Hops(tabs[t]) = 3
        PROVE  Hops(tabs'[t]) < Hops(tabs[t])
    BY <1>7
  <1>8. (Hops(tabs[t]) = 2) => Hops(tabs[t]) \in 2..3
    OBVIOUS
  <1> QED
    BY <1>2, <1>3, <1>4, <1>5, <1>6, <1>7, <1>8, <1>9, GetsOn, Zenon DEF Serve

\* A chain of redirects is of three requests at the most, whatever other tabs do
\* to the plan in the middle of it (the redirects of the controllers): with it,
\* all that RedirectsEnd needs is that each request is served.
THEOREM RedirectsAreFew == Spec => RedirectsGetOn
  <1>1. ASSUME TypeOK, [Next]_vars, NEW t \in Tab, tabs[t].at \in {"get", "post"}
        PROVE  /\ Serve(t) => Hops(tabs'[t]) < Hops(tabs[t])
               /\ ~Serve(t) => tabs'[t] \in {tabs[t], Idle}
    <2>1. tabs \in [Tab -> TabState]
      BY <1>1 DEF TypeOK
    <2>2. ASSUME NEW u \in Tab, u # t, Serve(u) \/ Act(u)
          PROVE  tabs'[t] = tabs[t]
      <3>1. \A v \in Tab \ {u} : tabs'[v] = tabs[v]
        BY <1>1, <2>2, OtherTabs, Zenon
      <3>2. t \in Tab \ {u}
        BY <1>1, <2>2
      <3> QED
        BY <3>1, <3>2
    <2>3. UNCHANGED vars => tabs'[t] = tabs[t]
      BY DEF vars
    <2>4. tabs'[t] \in {tabs[t], Idle} \/ Serve(t)
      <3>1. CASE Act(t)
        <4>1. Abandon(t)
          BY <1>1, <3>1 DEF Act, FollowLink, PressAgreePlan, FollowLinkFromGoal,
               SubmitInvalid, SubmitAgree, SubmitUpdateAgree, CreateGoal, ChangeGoal,
               AddSteps, SubmitUpdate, AchieveGoal, DeclineAchieve, RemoveGoal,
               ReAddGoal, Waits
        <4> QED
          BY <2>1, <4>1 DEF Abandon, Becomes
      <3> QED
        BY <1>1, <2>2, <2>3, <3>1, SessionOnly DEF Next, TabStep
    <2> QED
      BY <1>1, <2>4, ServeGetsOn
  <1>2. IInv /\ [Next]_vars =>
            [\A t \in Tab :
                tabs[t].at \in {"get", "post"} =>
                    /\ Serve(t) => Hops(tabs'[t]) < Hops(tabs[t])
                    /\ ~Serve(t) => tabs'[t] \in {tabs[t], Idle}]_vars
    BY <1>1 DEF IInv
  <1> QED
    BY <1>2, InductiveInvariant, PTL DEF Spec, RedirectsGetOn
=============================================================================
