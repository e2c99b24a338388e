---------------------------- MODULE SentencePlan ----------------------------
(***************************************************************************)
(* One sentence plan, kept by the Sentence Plan API, and the browser tabs  *)
(* through which a practitioner with READ_WRITE access works on it.        *)
(*                                                                         *)
(* A tab is the unit of concurrency.  It shows a page, which stays on the  *)
(* screen for as long as the user likes while other tabs change the plan,  *)
(* or it waits for a GET or a POST handler.  A handler that makes one      *)
(* backend call that matters is one step.  A handler that reads the plan,  *)
(* decides, and then writes is two steps, because Node serves the other    *)
(* tabs' requests while it awaits the API.                                 *)
(*                                                                         *)
(* The tabs belong to one Express session, whose returnLink they share.    *)
(* A request works on a copy of the session, which is written back as a    *)
(* whole in a new minute, or when the token was fetched anew: a request    *)
(* that takes long brings back the return link that it found, whatever was *)
(* set meanwhile.  At most one of these copies is old at a time.           *)
(* The goal's texts, areas of need, notes and dates are left out, except   *)
(* whether it has a target date; of its steps the model keeps whether      *)
(* there are any.                                                          *)
(***************************************************************************)
CONSTANTS
    Goal,      \* the uuids the API can give to goals
    Tab,       \* browser tabs
    NoGoal,    \* the goal of a page that is about no goal in particular
    HeldPage   \* the pages a return link must be of to be brought back (a bound)

ASSUME NoGoalAssumption == NoGoal \notin Goal

VARIABLES
    agreement,       \* agreementStatus of the plan, in the API
    goals,           \* the plan's goals, in the API
    tabs,            \* what each tab shows or waits for
    returnLink,      \* session.returnLink
    heldLink,        \* the same, in the copy that a request under way has
    couldNotAnswer   \* history: the plan has been COULD_NOT_ANSWER

vars == <<agreement, goals, tabs, returnLink, heldLink, couldNotAnswer>>

-----------------------------------------------------------------------------
FirstAnswer == {"AGREED", "DO_NOT_AGREE", "COULD_NOT_ANSWER"}
UpdatedAnswer == {"UPDATED_AGREED", "UPDATED_DO_NOT_AGREE"}
PlanAgreementStatus == {"DRAFT"} \cup FirstAnswer \cup UpdatedAnswer

GoalStatus == {"ACTIVE", "FUTURE", "REMOVED", "ACHIEVED"}

\* A uuid that no goal has yet, and one whose goal was deleted for good.
GoalRecord == [status: GoalStatus \cup {"UNUSED", "DELETED"},
               dated: BOOLEAN,
               steps: BOOLEAN]

GoalPage == {"change", "addSteps", "update", "remove", "achieve",
             "confirmAchieve", "view", "reAdd"}
Page == {"plan", "agree", "updateAgree", "create"} \cup GoalPage

\* What a tab carries besides its page: the hidden action of the remove page,
\* the answer being recorded, whether the update page listed steps ("emptied":
\* it did, but the goal has none by now), or the list a changed goal will be in
\* ("new...": the request found the return link that creating the goal left;
\* "agreed": it is the current one, of a plan that was read to be AGREED).
Arg == {"none", "delete", "remove", "steps", "noSteps", "emptied",
        "current", "future", "newCurrent", "newFuture", "agreed"}
         \cup FirstAnswer \cup UpdatedAnswer

TabState == [at: {"idle", "get", "page", "post"},
             page: Page,
             goal: Goal \cup {NoGoal},
             arg: Arg]

\* "plan" is the overview, the about page or the plan history: each makes
\* itself the return link and depends on nothing the model keeps.  "none" is
\* a return link that was set to null.
Link == [page: {"plan", "none", "change", "update", "remove", "view"},
         goal: Goal \cup {NoGoal}]

Idle == [at |-> "idle", page |-> "plan", goal |-> NoGoal, arg |-> "none"]
Request(p, g) == [at |-> "get", page |-> p, goal |-> g, arg |-> "none"]
Shown(p, g, a) == [at |-> "page", page |-> p, goal |-> g, arg |-> a]
Posted(p, g, a) == [at |-> "post", page |-> p, goal |-> g, arg |-> a]
PlanOverview == Request("plan", NoGoal)
LinkTo(p, g) == [page |-> p, goal |-> g]

Becomes(t, state) == tabs' = [tabs EXCEPT ![t] = state]
Waits(t, at, p) == tabs[t].at = at /\ tabs[t].page = p

InPlan(g) == g \in Goal /\ goals[g].status \in GoalStatus

-----------------------------------------------------------------------------
(* The checks a plan must pass before it can be agreed.                    *)

\* Mutant: any goal counts.
AnyGoalIsCurrent == \E g \in Goal : InPlan(g)

AtLeastOneCurrentGoal == \E g \in Goal : InPlan(g) /\ goals[g].dated

StepsAreThere(g) ==
    goals[g].dated /\ goals[g].status = "ACTIVE" => goals[g].steps

PlanReadyForAgreement ==
    /\ AtLeastOneCurrentGoal
    /\ \A g \in Goal : InPlan(g) => StepsAreThere(g)

-----------------------------------------------------------------------------
TypeOK ==
    /\ agreement \in PlanAgreementStatus
    /\ goals \in [Goal -> GoalRecord]
    /\ tabs \in [Tab -> TabState]
    /\ {returnLink, heldLink} \subseteq Link
    /\ couldNotAnswer \in BOOLEAN

Init ==
    /\ agreement = "DRAFT"
    /\ goals = [g \in Goal |-> [status |-> "UNUSED", dated |-> FALSE, steps |-> FALSE]]
    /\ tabs = [t \in Tab |-> Idle]
    /\ returnLink = LinkTo("plan", NoGoal)
    /\ heldLink = returnLink
    /\ couldNotAnswer = FALSE

-----------------------------------------------------------------------------
(* What the user does with the page in front of them.                      *)

\* The links of the plan overview and of the plan history.  An overview that was
\* rendered while the plan was a draft, or COULD_NOT_ANSWER, may still be on the
\* screen (the browser's Back button leads to it), and so may a history.
LinkOffered(p, g) ==
    \/ p = "create" /\ g = NoGoal
    \/ p = "updateAgree" /\ g = NoGoal /\ agreement # "DRAFT" /\ couldNotAnswer
    \/ InPlan(g) /\ p \in {"change", "addSteps", "remove"}
    \/ /\ agreement # "DRAFT"
       /\ InPlan(g)
       /\ p = IF goals[g].status \in {"ACTIVE", "FUTURE"} THEN "update" ELSE "view"

FollowLink(t) ==
    /\ tabs[t].at = "idle"
    /\ \E p \in Page, g \in Goal \cup {NoGoal} :
          LinkOffered(p, g) /\ Becomes(t, Request(p, g))
    /\ UNCHANGED <<agreement, goals, returnLink, couldNotAnswer>>

\* "Agree plan" on the overview of a draft plan, which again may be an old one,
\* posts to /plan.
PressAgreePlan(t) ==
    /\ tabs[t].at = "idle"
    /\ Becomes(t, Posted("plan", NoGoal, "none"))
    /\ UNCHANGED <<agreement, goals, returnLink, couldNotAnswer>>

\* The update page links to the goal's change and add-steps pages, the page of
\* a removed goal to the one that adds it back.
FollowLinkFromGoal(t) ==
    /\ tabs[t].at = "page"
    /\ \E p \in {"change", "addSteps", "reAdd"} :
          /\ tabs[t].page = IF p = "reAdd" THEN "view" ELSE "update"
          /\ Becomes(t, Request(p, tabs[t].goal))
    /\ UNCHANGED <<agreement, goals, returnLink, couldNotAnswer>>

\* A form whose body does not validate, and every press of a row button of
\* the add-steps page, renders the page again: it reads the plan afresh.  The
\* delete form has nothing to validate.
SubmitInvalid(t) ==
    /\ tabs[t].at = "page"
    /\ tabs[t].page \in {"create"} \cup (GoalPage \ {"view"})
    /\ tabs[t].arg # "delete"
    /\ Becomes(t, Request(tabs[t].page, tabs[t].goal))
    /\ UNCHANGED <<agreement, goals, returnLink, couldNotAnswer>>

\* The user goes back to the overview, or a backend call fails, before or
\* after it took effect, and the handler answers with the error page.
Abandon(t) ==
    /\ tabs[t].at # "idle"
    /\ Becomes(t, Idle)
    /\ UNCHANGED <<agreement, goals, returnLink, couldNotAnswer>>

-----------------------------------------------------------------------------
(* GET handlers.                                                           *)

GetPlan(t) ==
    /\ Waits(t, "get", "plan")
    /\ returnLink' = LinkTo("plan", NoGoal)
    /\ Becomes(t, Idle)
    /\ UNCHANGED <<agreement, goals, couldNotAnswer>>

\* Mutant: a plan that cannot be agreed is sent to this page again.
GetAgreeAgain(t) ==
    /\ Waits(t, "get", "agree")
    /\ Becomes(t, IF agreement = "DRAFT" /\ PlanReadyForAgreement
                  THEN Shown("agree", NoGoal, "none")
                  ELSE Request("agree", NoGoal))
    /\ UNCHANGED <<agreement, goals, returnLink, couldNotAnswer>>

GetAgree(t) ==
    /\ Waits(t, "get", "agree")
    /\ Becomes(t, IF agreement = "DRAFT" /\ PlanReadyForAgreement
                  THEN Shown("agree", NoGoal, "none")
                  ELSE PlanOverview)
    /\ UNCHANGED <<agreement, goals, returnLink, couldNotAnswer>>

GetUpdateAgree(t) ==
    /\ Waits(t, "get", "updateAgree")
    /\ Becomes(t, IF agreement = "COULD_NOT_ANSWER" /\ PlanReadyForAgreement
                  THEN Shown("updateAgree", NoGoal, "none")
                  ELSE PlanOverview)
    /\ UNCHANGED <<agreement, goals, returnLink, couldNotAnswer>>

GetCreateGoal(t) ==
    /\ Waits(t, "get", "create")
    /\ returnLink' = LinkTo("none", NoGoal)
    /\ Becomes(t, Shown("create", NoGoal, "none"))
    /\ UNCHANGED <<agreement, goals, couldNotAnswer>>

\* The pages that read the goal and leave the session alone.
GetGoalPage(t) ==
    /\ tabs[t].at = "get"
    /\ tabs[t].page \in {"change", "addSteps", "achieve", "confirmAchieve"}
    /\ Becomes(t, IF InPlan(tabs[t].goal)
                  THEN Shown(tabs[t].page, tabs[t].goal, "none")
                  ELSE Idle)
    /\ UNCHANGED <<agreement, goals, returnLink, couldNotAnswer>>

GetReAdd(t) ==
    /\ Waits(t, "get", "reAdd")
    /\ IF InPlan(tabs[t].goal)
       THEN /\ returnLink' = LinkTo("plan", NoGoal)
            /\ Becomes(t, Shown("reAdd", tabs[t].goal, "none"))
       ELSE Becomes(t, Idle) /\ UNCHANGED returnLink
    /\ UNCHANGED <<agreement, goals, couldNotAnswer>>

\* The details of a goal that is achieved, where nothing leads on from, or
\* removed; the handler passes any other goal on to the not-found page.
GetView(t) ==
    LET g == tabs[t].goal IN
    /\ Waits(t, "get", "view")
    /\ IF InPlan(g) /\ goals[g].status = "REMOVED"
       THEN returnLink' = LinkTo("view", g) /\ Becomes(t, Shown("view", g, "none"))
       ELSE UNCHANGED returnLink /\ Becomes(t, Idle)
    /\ UNCHANGED <<agreement, goals, couldNotAnswer>>

GetUpdate(t) ==
    LET g == tabs[t].goal IN
    /\ Waits(t, "get", "update")
    /\ IF InPlan(g)
       THEN /\ returnLink' = LinkTo("update", g)
            /\ Becomes(t, Shown("update", g, IF goals[g].steps THEN "steps" ELSE "noSteps"))
       ELSE Becomes(t, Idle) /\ UNCHANGED returnLink
    /\ UNCHANGED <<agreement, goals, couldNotAnswer>>

\* Mutant: only an AGREED plan gets the page that removes.
GetRemoveUnlessAgreed(t) ==
    LET g == tabs[t].goal IN
    /\ Waits(t, "get", "remove")
    /\ InPlan(g)
    /\ Becomes(t, Shown("remove", g, IF agreement = "AGREED" THEN "remove" ELSE "delete"))
    /\ UNCHANGED <<agreement, goals, returnLink, couldNotAnswer>>

\* The page's hidden action is decided here and comes back with the form.
GetRemove(t) ==
    LET g == tabs[t].goal IN
    /\ Waits(t, "get", "remove")
    /\ \/ /\ ~InPlan(g)
          /\ Becomes(t, Idle)
          /\ UNCHANGED returnLink
       \/ /\ InPlan(g) /\ agreement = "DRAFT"
          /\ returnLink' = LinkTo("remove", g)
          /\ Becomes(t, Shown("remove", g, "delete"))
       \/ /\ InPlan(g) /\ agreement # "DRAFT"
          /\ Becomes(t, Shown("remove", g, "remove"))
          /\ UNCHANGED returnLink
    /\ UNCHANGED <<agreement, goals, couldNotAnswer>>

-----------------------------------------------------------------------------
(* POST handlers: the agreement.                                           *)

\* POST /plan: only a draft is validated; any other plan goes to /agree-plan.
PostPlan(t) ==
    /\ Waits(t, "post", "plan")
    /\ IF agreement = "DRAFT" /\ ~PlanReadyForAgreement
       THEN /\ returnLink' = LinkTo("plan", NoGoal)
            /\ Becomes(t, Idle)
       ELSE /\ Becomes(t, Request("agree", NoGoal))
            /\ UNCHANGED returnLink
    /\ UNCHANGED <<agreement, goals, couldNotAnswer>>

\* Mutant: the plan's status is not looked at again.
SubmitAgreeAnyStatus(t) ==
    /\ Waits(t, "page", "agree")
    /\ PlanReadyForAgreement
    /\ \E answer \in FirstAnswer : Becomes(t, Posted("agree", NoGoal, answer))
    /\ UNCHANGED <<agreement, goals, returnLink, couldNotAnswer>>

\* Mutant: the answers of the update page are recorded here too.
SubmitAgreeAnyAnswer(t) ==
    /\ Waits(t, "page", "agree")
    /\ agreement = "DRAFT" /\ PlanReadyForAgreement
    /\ \E answer \in FirstAnswer \cup UpdatedAnswer :
          Becomes(t, Posted("agree", NoGoal, answer))
    /\ UNCHANGED <<agreement, goals, returnLink, couldNotAnswer>>

\* The plan is read and validated; a plan that fails leaves the page as it is,
\* with errors.  The answer is posted to the API only afterwards.
SubmitAgree(t) ==
    /\ Waits(t, "page", "agree")
    /\ agreement = "DRAFT"
    /\ PlanReadyForAgreement
    /\ \E answer \in FirstAnswer : Becomes(t, Posted("agree", NoGoal, answer))
    /\ UNCHANGED <<agreement, goals, returnLink, couldNotAnswer>>

SubmitUpdateAgree(t) ==
    /\ Waits(t, "page", "updateAgree")
    /\ agreement = "COULD_NOT_ANSWER"
    /\ PlanReadyForAgreement
    /\ \E answer \in UpdatedAnswer : Becomes(t, Posted("updateAgree", NoGoal, answer))
    /\ UNCHANGED <<agreement, goals, returnLink, couldNotAnswer>>

\* POST /plans/:uuid/agree.  The API is taken to record the answer it is sent;
\* where it refuses, the handler fails, which is Abandon.
AgreePlan(t) ==
    /\ tabs[t].at = "post"
    /\ tabs[t].page \in {"agree", "updateAgree"}
    /\ agreement' = tabs[t].arg
    /\ couldNotAnswer' = (couldNotAnswer \/ agreement' = "COULD_NOT_ANSWER")
    /\ Becomes(t, PlanOverview)
    /\ UNCHANGED <<goals, returnLink>>

-----------------------------------------------------------------------------
(* POST handlers: the goals.                                               *)

CreateGoal(t) ==
    /\ Waits(t, "page", "create")
    /\ \E g \in Goal, dated \in BOOLEAN :
          /\ goals[g].status = "UNUSED"
          /\ goals' = [goals EXCEPT ![g] =
                          [status |-> IF dated THEN "ACTIVE" ELSE "FUTURE",
                           dated |-> dated,
                           steps |-> FALSE]]
          /\ returnLink' = LinkTo("change", g)
          /\ \E next \in {PlanOverview, Request("addSteps", g)} : Becomes(t, next)
    /\ UNCHANGED <<agreement, couldNotAnswer>>

\* Mutant: a goal that is given a target date keeps its status.
StatusKept(status, dated) == IF dated THEN {status} ELSE {"FUTURE"}

\* The status the API gives a goal whose details are replaced.  The handler
\* names FUTURE for a goal without a target date, whatever its status was, and no
\* status otherwise.  What the API then does is not in this repository: it is
\* assumed that a future goal becomes active, and either may be true of a goal
\* that was removed or achieved.
StatusAfterChange(status, dated) ==
    IF ~dated THEN {"FUTURE"}
    ELSE IF status \in {"ACTIVE", "FUTURE"} THEN {"ACTIVE"}
    ELSE {"ACTIVE", status}

\* The session, and with it the return link, is loaded when the request comes.
ChangeGoal(t) ==
    LET g == tabs[t].goal
        new == returnLink = LinkTo("change", g) IN
    /\ Waits(t, "page", "change")
    /\ InPlan(g)
    /\ \E dated \in BOOLEAN : \E status \in StatusAfterChange(goals[g].status, dated) :
          /\ goals' = [goals EXCEPT ![g].status = status, ![g].dated = dated]
          /\ Becomes(t, Posted("change", g, IF dated
                                            THEN IF new THEN "newCurrent" ELSE "current"
                                            ELSE IF new THEN "newFuture" ELSE "future"))
    /\ UNCHANGED <<agreement, returnLink, couldNotAnswer>>

\* Mutant: the plan's status is not looked at.
ChangeGoalRedirectAny(t) ==
    /\ Waits(t, "post", "change") /\ tabs[t].arg # "agreed"
    /\ Becomes(t, Posted("change", tabs[t].goal, "agreed"))
    /\ UNCHANGED <<agreement, goals, returnLink, couldNotAnswer>>

\* The rest of the handler reads the plan ...
ChangeGoalRedirect(t) ==
    LET g == tabs[t].goal
        arg == tabs[t].arg IN
    /\ Waits(t, "post", "change") /\ arg # "agreed"
    /\ \/ /\ agreement # "AGREED"
          /\ Becomes(t, IF arg \in {"newCurrent", "newFuture"}
                        THEN Request("addSteps", g)
                        ELSE PlanOverview)
       \/ /\ agreement = "AGREED" /\ arg \in {"future", "newFuture"}
          /\ Becomes(t, Request("update", g))
       \/ /\ agreement = "AGREED" /\ arg \in {"current", "newCurrent"}
          /\ Becomes(t, Posted("change", g, "agreed"))
    /\ UNCHANGED <<agreement, goals, returnLink, couldNotAnswer>>

\* ... and for an AGREED one the goal.
ReadChangedGoal(t) ==
    LET g == tabs[t].goal IN
    /\ Waits(t, "post", "change") /\ tabs[t].arg = "agreed"
    /\ Becomes(t, IF ~InPlan(g) THEN Idle
                  ELSE Request(IF goals[g].steps THEN "update" ELSE "addSteps", g))
    /\ UNCHANGED <<agreement, goals, returnLink, couldNotAnswer>>

\* Mutant: a return link that was set to null is followed all the same.
AfterAddStepsUnchecked(g) ==
    IF returnLink = LinkTo("change", g)
    THEN PlanOverview
    ELSE Request(returnLink.page, returnLink.goal)

\* Where saving the steps of goal g leads.  A null returnLink makes a
\* redirect to a page that does not exist.
AfterAddSteps(g) ==
    IF returnLink.page = "none" THEN Idle
    ELSE IF returnLink = LinkTo("change", g) THEN PlanOverview
    ELSE Request(returnLink.page, returnLink.goal)

AddSteps(t) ==
    LET g == tabs[t].goal IN
    /\ Waits(t, "page", "addSteps")
    /\ InPlan(g)
    /\ goals' = [goals EXCEPT ![g].steps = TRUE]
    /\ Becomes(t, AfterAddSteps(g))
    /\ UNCHANGED <<agreement, returnLink, couldNotAnswer>>

\* The handler reads the goal and compares its steps with the form's: a goal
\* that has steps fails a form that lists none.
SubmitUpdate(t) ==
    LET g == tabs[t].goal IN
    /\ Waits(t, "page", "update")
    /\ InPlan(g)
    /\ Becomes(t, IF goals[g].steps /\ tabs[t].arg = "noSteps" THEN Idle
                  ELSE Posted("update", g, IF goals[g].steps THEN "steps"
                                           ELSE IF tabs[t].arg = "steps" THEN "emptied"
                                           ELSE "noSteps"))
    /\ UNCHANGED <<agreement, goals, returnLink, couldNotAnswer>>

\* The steps that were read replace the stored ones.  A goal read without
\* steps is only written when there is a note; that write empties the list.
SaveUpdate(t) ==
    LET g == tabs[t].goal
        read == tabs[t].arg = "steps" IN
    /\ Waits(t, "post", "update")
    /\ \E write \in {TRUE, read} :
          /\ goals' = IF write /\ InPlan(g) THEN [goals EXCEPT ![g].steps = read] ELSE goals
          /\ IF write /\ ~InPlan(g)
             THEN Becomes(t, Idle)
             ELSE \E p \in {"plan", "achieve", "remove", "confirmAchieve"} :
                     /\ p = "confirmAchieve" => tabs[t].arg # "noSteps"
                     /\ Becomes(t, IF p = "plan" THEN PlanOverview ELSE Request(p, g))
    /\ UNCHANGED <<agreement, returnLink, couldNotAnswer>>

\* POST of both achieve pages, with "yes" on the one that asks.
AchieveGoal(t) ==
    LET g == tabs[t].goal IN
    /\ tabs[t].at = "page"
    /\ tabs[t].page \in {"achieve", "confirmAchieve"}
    /\ InPlan(g)
    /\ goals' = [goals EXCEPT ![g].status = "ACHIEVED"]
    /\ Becomes(t, PlanOverview)
    /\ UNCHANGED <<agreement, returnLink, couldNotAnswer>>

DeclineAchieve(t) ==
    /\ Waits(t, "page", "confirmAchieve")
    /\ Becomes(t, IF InPlan(tabs[t].goal) THEN PlanOverview ELSE Idle)
    /\ UNCHANGED <<agreement, goals, returnLink, couldNotAnswer>>

\* The handler does what the form says, whatever the plan's status is now.
\* The API keeps the target date of a goal it removes or marks as achieved.
RemoveGoal(t) ==
    LET g == tabs[t].goal IN
    /\ Waits(t, "page", "remove")
    /\ InPlan(g)
    /\ goals' = IF tabs[t].arg = "delete"
                THEN [goals EXCEPT ![g] = [status |-> "DELETED", dated |-> FALSE, steps |-> FALSE]]
                ELSE IF tabs[t].arg = "remove" THEN [goals EXCEPT ![g].status = "REMOVED"]
                ELSE goals
    /\ Becomes(t, PlanOverview)
    /\ UNCHANGED <<agreement, returnLink, couldNotAnswer>>

ReAddGoal(t) ==
    LET g == tabs[t].goal IN
    /\ Waits(t, "page", "reAdd")
    /\ InPlan(g)
    /\ \E dated \in BOOLEAN :
          goals' = [goals EXCEPT ![g].status = IF dated THEN "ACTIVE" ELSE "FUTURE",
                                 ![g].dated = dated]
    /\ Becomes(t, PlanOverview)
    /\ UNCHANGED <<agreement, returnLink, couldNotAnswer>>

-----------------------------------------------------------------------------
\* What the server does for a tab that waits for it.
Serve(t) ==
    /\ \/ GetPlan(t) \/ GetAgree(t) \/ GetUpdateAgree(t) \/ GetCreateGoal(t)
       \/ GetGoalPage(t) \/ GetView(t) \/ GetReAdd(t) \/ GetUpdate(t) \/ GetRemove(t)
       \/ PostPlan(t) \/ AgreePlan(t) \/ SaveUpdate(t)
       \/ ChangeGoalRedirect(t) \/ ReadChangedGoal(t)
    /\ UNCHANGED heldLink

\* What the user does, up to the handler's first await that matters.
Act(t) ==
    /\ \/ FollowLink(t) \/ PressAgreePlan(t) \/ FollowLinkFromGoal(t)
       \/ SubmitInvalid(t) \/ Abandon(t)
       \/ SubmitAgree(t) \/ SubmitUpdateAgree(t)
       \/ CreateGoal(t) \/ ChangeGoal(t) \/ AddSteps(t) \/ SubmitUpdate(t)
       \/ AchieveGoal(t) \/ DeclineAchieve(t) \/ RemoveGoal(t) \/ ReAddGoal(t)
    /\ UNCHANGED heldLink

\* A request that leaves the return link alone comes and copies the session: one
\* of a page that is not modelled, or one that its tab has given up ...
HoldSession ==
    /\ returnLink.page \in HeldPage
    /\ heldLink' = returnLink
    /\ UNCHANGED <<agreement, goals, tabs, returnLink, couldNotAnswer>>

\* ... and is answered: nowInMinutes, or a token, has changed in its copy.
WriteSessionBack ==
    /\ returnLink' = heldLink
    /\ UNCHANGED <<agreement, goals, tabs, heldLink, couldNotAnswer>>

TabStep == \E t \in Tab : Serve(t) \/ Act(t)

Next == TabStep \/ HoldSession \/ WriteSessionBack

Spec == Init /\ [][Next]_vars

\* Node runs every request it has accepted, and every backend call returns or
\* times out; nothing obliges a user to press anything.
FairSpec == Spec /\ \A t \in Tab : WF_vars(Serve(t))
-----------------------------------------------------------------------------
(* Safety.                                                                 *)

\* Pages that only an agreed plan leads to.
AgreedOnlyPage == {"update", "achieve", "confirmAchieve", "view", "reAdd", "updateAgree"}

\* While a plan is a draft none of its goals is removed or achieved, however
\* many tabs are open and whatever they still show: the routes for removing
\* and achieving goals do not look at the plan's status, so this rests on no
\* page, redirect or return link leading there before the plan is agreed.
DraftGoalsAreLive ==
    agreement = "DRAFT" =>
        \A g \in Goal : goals[g].status \notin {"REMOVED", "ACHIEVED"}

\* A draft that passes PlanReadyForAgreement has a goal to work on now, with
\* steps.  The validator looks only for a target date, on a goal of whatever
\* status, so this holds because of what the goals of a draft can be.
ReadyDraftHasCurrentGoal ==
    agreement = "DRAFT" /\ PlanReadyForAgreement =>
        \E g \in Goal : goals[g].status = "ACTIVE" /\ goals[g].steps

\* The agreement of a plan is only ever updated after the person could not
\* answer: no interleaving of two tabs agreeing the plan reaches UPDATED_*
\* by another way.
UpdateFollowsCouldNotAnswer == agreement \in UpdatedAnswer => couldNotAnswer

\* The plan has been agreed and no tab still has a first answer under way.
AgreementSettled ==
    /\ agreement # "DRAFT"
    /\ \A t \in Tab : ~Waits(t, "post", "agree")

\* Only answers that were already being submitted can overwrite an agreement:
\* once those have landed, the plan stays settled and no agree page, however
\* old, changes the answer again except into an updated one.
SettledAgreement ==
    [][AgreementSettled =>
          /\ AgreementSettled'
          /\ agreement' \in {agreement} \cup UpdatedAnswer]_vars

\* The plan has been agreed and no tab shows a delete page.
NoDeletePending ==
    /\ agreement # "DRAFT"
    /\ \A t \in Tab : tabs[t].arg # "delete"

\* Once an agreed plan has outlived the delete pages that were rendered while
\* it was a draft, no delete page is rendered again and no goal is ever
\* deleted: goals only leave the plan by being removed, and can be re-added.
SettledGoals ==
    [][NoDeletePending =>
          /\ NoDeletePending'
          /\ \A g \in Goal : InPlan(g) => InPlan(g)']_vars

\* Why those hold.  No page, request or return link that only an agreed plan
\* leads to exists while the plan is a draft; ...
PagesFitDraft ==
    agreement = "DRAFT" =>
        /\ \A t \in Tab : tabs[t].page \notin AgreedOnlyPage /\ tabs[t].arg \notin {"remove", "agreed"}
        /\ {returnLink.page, heldLink.page} \cap AgreedOnlyPage = {}

\* ... a request that is to record an answer carries one its page offers, an
\* updated one only once the plan has been COULD_NOT_ANSWER; ...
AnswersFitPage ==
    /\ \A t \in Tab :
          /\ Waits(t, "post", "agree") => tabs[t].arg \in FirstAnswer
          /\ Waits(t, "post", "updateAgree") =>
                 tabs[t].arg \in UpdatedAnswer /\ couldNotAnswer
    /\ agreement = "COULD_NOT_ANSWER" => couldNotAnswer

\* ... and a future goal has no target date.
FutureGoalsAreUndated == \A g \in Goal : goals[g].status = "FUTURE" => ~goals[g].dated

\* The inductive invariant from which the properties above are proved.
IInv ==
    /\ TypeOK
    /\ DraftGoalsAreLive
    /\ PagesFitDraft
    /\ AnswersFitPage
    /\ FutureGoalsAreUndated
    /\ UpdateFollowsCouldNotAnswer

\* The handlers keep what AgreementLifecycle promises: an answer is started
\* only by a page that finds the plan's status right, whatever pages, links and
\* other tabs led there, and nothing else writes the agreement.
Lifecycle == INSTANCE AgreementLifecycle WITH
    Submission <- Tab,
    answering <- {t \in Tab : Waits(t, "post", "agree")},
    updating <- {t \in Tab : Waits(t, "post", "updateAgree")}

ImplementsLifecycle == Lifecycle!Spec

\* "Delete a goal from a Plan before it has been agreed"
\* (integration_tests/e2e/e2e-tests/delete-goal.cy.ts:8): a goal is deleted
\* only while the plan is a draft.
DeletedOnlyBeforeAgreement ==
    [][\A g \in Goal : InPlan(g) /\ goals'[g].status = "DELETED" => agreement = "DRAFT"]_vars

\* "At least one goal must be current"
\* (server/routes/shared-models/PlanReadyForAgreementModel.ts:24): an updated
\* agreement that passed validation is for a plan with a goal to work on now.
UpdatedPlanHasCurrentGoal ==
    \A t \in Tab : Waits(t, "post", "updateAgree") =>
        \E g \in Goal : goals[g].status = "ACTIVE"

-----------------------------------------------------------------------------
(* Liveness.                                                               *)

\* Every chain of requests and redirects ends with a page: no two handlers
\* send a tab back and forth for ever, whatever the other tabs do meanwhile.
RedirectsEnd ==
    \A t \in Tab : tabs[t].at \in {"get", "post"} ~> tabs[t].at \in {"idle", "page"}
=============================================================================
