# Verification of the sentence plan UI

Models, model-checking configurations and proofs for `hmpps-sentence-plan-ui`,
an Express application through which practitioners write a sentence plan with a
person, agree it, and keep it up to date. Paths below are relative to the
repository.

## 1. Inventory

The UI keeps almost no state of its own. The plan lives in the Sentence Plan
API, the session in Redis, and every page that a browser tab shows is a copy
of what was true when it was rendered. What can go wrong is therefore mostly in
the gaps: between the rendering of a page and its submission, between two awaits
of one handler, and between two tabs, users or instances.

| Part | State | Operations | Interacts with | What is hard | What makes it correct |
|---|---|---|---|---|---|
| Plan agreement: `planOverview` (POST), `agree-plan`, `update-agree-plan` | `agreementStatus` (API) | validate and go to the form; record a first answer; record an updated one | plan service, session | the status is checked before the write, not with it; validation infers "current" from a date | an agreement, once settled, is not answered again; updates follow COULD_NOT_ANSWER; an agreed plan has something to work on |
| Goal life cycle: `createGoal`, `changeGoal`, `removeGoal`, `achieveGoal`, `confirmAchieveGoal`, `reAddGoal`, `viewGoalDetails` | goal status, target date, steps (API) | create, change, delete, remove, achieve, add back | goal service, session's return link | routes do not look at the plan's status; what a form does is decided when it is rendered | a draft has only live goals; an agreed plan does not lose goals for good |
| Steps: `add-steps`, `update-goal`, `sortSteps` | the goal's list of steps (API) | replace all steps; update statuses | goal and step service | read, compare by index, write back everything; a write may arrive after the UI has given it up | an update is of the steps the user saw; sections keep the order in which steps got there |
| Plan overview, previous versions, history, about | controller fields `plan`, `planVersion` | render | plan service, audit service | one controller instance serves all requests; awaits between the field's write and its use | a person's page shows that person's plan |
| Goal order: `reorderGoals`, `moveGoal` | `goalOrder` of each goal (API) | move up, move down | goal service | read-modify-write of the whole list; arithmetic on orders | orders stay distinct; a move exchanges two neighbours |
| Session: `setUpAuthentication`, `setUpWebSession`, `authorisationMiddleware`, `sessionService`, `privacy-screen` | principal, subject, plan and version, return link, privacy agreement, version to go to (Redis) | sign in by HMPPS Auth or by handover, sign out, check access | auth server, handover service | set-up in several calls; whole-session writes, last writer wins | only READ_WRITE users with the current plan write; one session is one person's plan; the privacy screen comes before the plan's overview; a version's link leads to it |
| REST client, tokens: `restClient`, `hmppsAuthClient`, token store | cached system token (in the session) | GET and DELETE with retries, POST, PUT, PATCH | all back-end services | an answer can be lost after the effect, an attempt can arrive after it was given up | writes take effect at most once; what is reported as done is done; calls are made in the user's own name; every call ends |
| Target dates: `goalTargetDateUtils`, validators | none | date options, validation | goal forms | month arithmetic; forms older than the day they are submitted on | dates offered are the months on that they say; no date is saved that has passed; an untouched form keeps the date |
| Assessment data: `assessmentUtils` | none | classify and sort areas of need | coordinator | thresholds, missing data | every area is in one group, the riskier ones first |
| Audit service | none | send an event | SQS | failures are swallowed | nothing depends on it |
| Views, assets, health, static resources, error pages | none | | | | |

Everything behind the services (Sentence Plan API, coordinator, Delius,
handover, HMPPS Auth, SQS, Redis) is another system. It is modelled by what the
calling code relies on, and left nondeterministic where that code does not tell.

## 2. Plan

Done:

1. `SentencePlan`: agreement, goal life cycle, tabs, return link. The core: most
   handlers, and the interleavings of tabs. Proofs in `SentencePlanProofs`.
2. `AgreementLifecycle`: what the agreement handlers promise, as a
   specification of its own that `SentencePlan` implements (checked in run
   `plan`, proved as `LifecycleRefinement`).
3. `PlanRender`: the controller fields that requests of all sessions share.
   Proofs in `PlanRenderProofs`.
4. `GoalOrder` (with `MCGoalOrder`): moves of goals by concurrent tabs. Proofs in
   `GoalOrderProofs`.
5. `WebSession` (with `MCWebSession`): sign-in by both ways, the session store and
   the copies that requests work on, access mode, form tokens, ending and expiry.
   Proofs in `WebSessionProofs`.

6. `GoalSteps`: the list of steps, the two forms that write it, the uuid check and
   the sort against its description in `utils.ts`. Proofs in `GoalStepsProofs`.
7. `RestCalls`: service calls, their retries, timeouts and tokens; and
   `ServiceCalls`, what the client promises its callers, as a specification of its
   own that `RestCalls` implements (checked in run `goal_pages`, proved as
   `PromiseIsKept`). Proofs in `RestCallsProofs`.
8. `AssessmentAreas`: the groups of the about page. Proofs in
   `AssessmentAreasProofs`.
9. `GoalDates`: target dates and the form they are chosen in. Proofs in
   `GoalDatesProofs`. (`MCGoalPages` checks 6 to 9.)
10. `Landing`: the privacy screen and previous versions, as what sign-ins by
    handover lead to. Proofs in `WebSessionProofs`; `MCHandover` checks it.

To come: a specification of what an editor of steps promises, which `GoalSteps`
would implement; and, if the code grows that way, the remaining texts of the
assessment (`getAssessmentDetailsForArea` beyond completeness).

## 3. Modules

### `SentencePlan`

One plan, its goals, and the browser tabs of one READ_WRITE session.

| State | In the code |
|---|---|
| `agreement` | `plan.agreementStatus` in the API |
| `goals[g].status`, `.dated`, `.steps` | the goal's status, `targetDate !== null`, `steps.length > 0` in the API; `UNUSED` is a uuid not given out yet, `DELETED` one whose goal was deleted |
| `tabs[t]` | what the tab shows (`page`), or which handler it waits for (`get`, `post`); `arg` is the hidden field, answer or value a handler carries across an await |
| `returnLink` | `session.returnLink`, shared by the tabs |
| `heldLink` | the same in the copy of the session that a further request has, one that takes long |
| `couldNotAnswer` | history: the plan has been COULD_NOT_ANSWER |

A tab follows a link or submits a form (`Act`), and the server does the rest
(`Serve`). The grain of atomicity is the back-end call that matters: a handler
with one such call is one action (`CreateGoal`, `AddSteps`, `AchieveGoal`,
`RemoveGoal`, `ReAddGoal`, and each GET), a handler that reads, decides and then
writes is two (`SubmitAgree`/`AgreePlan`, `SubmitUpdateAgree`/`AgreePlan`,
`SubmitUpdate`/`SaveUpdate`), and `ChangeGoal`, which writes first and then reads
the plan and perhaps the goal, is three (`ChangeGoalRedirect`, `ReadChangedGoal`),
because Node serves other requests while it awaits. A redirect puts the tab in the state of
waiting for the GET it leads to. A failed back-end call, before or after it
took effect, is `Abandon`; so is the user's Back button. Since an overview
rendered long ago may come back that way, the links of a draft's overview are
offered for ever (`LinkOffered`, `PressAgreePlan`).

The session is loaded when a request comes and written as a whole when it ends,
if it changed. It need not have been the handler that changed it: in a new minute
it is `nowInMinutes` (`setUpWebSession.ts:35`), and a token fetched anew is kept in
it too. So a request that takes long brings back the return link that it found,
although other tabs have set another meanwhile: `HoldSession` is such a request
coming, `WriteSessionBack` its answer. Which request it is does not matter, so it
is not one of the tabs' but one more: of a page that is not modelled, or one that
its tab has given up. `ChangeGoal`, the one handler of these pages that reads the
link after an await, carries what it found across.

The overview, the about page and the history are one place (`idle`, and
`"plan"` as return link): none depends on anything the model keeps.

Taken from outside the repository's code: the API records the answer, status,
date or steps it is sent; a goal that is removed or achieved keeps its target
date (the goal card has to exclude those by status); a changed future goal that is
given a date becomes ACTIVE, for which the handler names no status, and a removed
or achieved one may stay what it is or become ACTIVE.

Left out: titles, areas of need, notes, dates except whether there is one, the
order of goals, the list of steps, the plan's versions, READ_ONLY users.

### `AgreementLifecycle`

The agreement alone: first answers and updated answers are started while the
plan has the right status, and land later, each at most once; several can be
under way at the same time, which is what the code's check-then-write allows.
`SentencePlan` implements it with the tabs as submissions, `answering` being the
tabs that wait for the agree page's POST and `updating` those that wait for the
update page's; everything else a tab does is a stuttering step.

### `PlanRender`

The controllers that keep a plan in a field, and the requests made to them.
There is one instance of each controller for all users, because its `routes.ts`
makes it once.

| State | In the code |
|---|---|
| `field[c]` | `PlanOverviewController.plan`, `UpdateAgreePlanController.plan` and `ViewPreviousVersionController.planVersion` |
| `running` | the handler whose continuation has not come to an await yet: Node runs no other until it has |
| `req[r]` | a request: what it asks for (`kind`), the plan of its session, the version it is to show, how far its handlers are (`at`), what its last read returned (`own`), what its page showed (`shown`) |

A handler is cut at its awaits. `Answer` is the API reading the plan and
answering (a plan may differ between two reads, since others work on it);
`Validate` and `HandleValidationErrors` run without an await in between, which
`running` expresses; `Render` stops at the audit service and `RenderPage` goes
on from there. What the plans contain is reduced to their status and to whether
they pass the validation that goes with it. Of the kinds of request, `get` and
`post` are the overview's, `updateGet` and `updatePost` the update page's, and
`previous` is a previous version's; a `.cfg` chooses among them.

### `GoalOrder`

One of the two lists of goals of a plan, and the tabs that show its buttons.

| State | In the code |
|---|---|
| `list` | `goalOrder` of each goal that is in the list, in the API |
| `tabs[t]` | the buttons of the page the tab shows, or the move that `reorderGoals` has computed (`posted`) and not written yet |
| `overtaken` | history: a computed list was written to a list that had other goals by then |

`ReorderGoals` is `reorderGoals` up to its second await, with `moveGoal` in it;
`ChangeGoalOrder` is its write. `MoveGoal` gives a set of results, because with
equal orders the code takes the first goal of the API's answer, which may be any.
The "removed" and "achieved" pages show the buttons too; their goals are in
neither list, so such a button is one whose goal is not in the list. The module
begins with an empty list; any other comes about by `Join`.

Taken from outside the repository's code: a goal joins a list at its bottom
(`integration_tests/e2e/e2e-tests/re-add-goal.cy.ts:112` says so of goals that
are added back). Whether the API closes the gap that a leaving goal
makes is not known here: `Closing` allows either, and the property that depends
on it (`MovesMove`) is refuted in the case that favours the code. The API writes
the orders it is sent, of the goals it has.

### `WebSession`

One browser: the session store, the cookie its tabs share, and what each tab
shows or has under way.

| State | In the code |
|---|---|
| `store[s]` | the session with id `s` in Redis or in memory, or none |
| `cookie` | the id the browser holds, whether or not there is still such a session |
| `tabs[t]` | what the tab shows, or its request: how far it is (`at`), the id and the copy of the session that it works on (`sid`, `copy`), the person a sign-in was asked for (`asked`), the plan that a form shows and the token in it (`shown`, `token`) |
| `ended` | history: the last session that was ended |

Of a session the model keeps what decides anything: the user and where they come
from, the principal's access mode, the subject, the plan and whether its version
is undefined, null or a number (`getAccessMode` tells these three apart), the
form token, the CRN that waits for a callback, and the attempt that the state
parameter of each strategy stands for. A plan is known by the person it is of.

A request is taken in (`Load`), which copies the session, and answered
(`Respond`), which writes the copy back as a whole if it changed, and which it
always does in a new minute, because `setUpWebSession.ts:35` puts the minute in
it. In between, other tabs' requests work on copies of their own. `logIn`
destroys the session and begins another one, which the browser learns of when
the callback is answered; that is why `LogIn` and `SetUp` are two actions, and
why the CRN has to be read before (`setUpAuthentication.ts:90`). `SetUp` may
stop after each call that can fail, and what was written to the session before
stays there. A form's POST is taken in (`Post`), checked (`Accept`) and answered
(`Write`). A request that a user gives up goes on: it is one of a tab that is
never looked at.

Taken from outside the repository's code: express-session writes a changed
session without looking whether it is still stored, and drops the one that
`/end-session` destroys; passport compares the state parameter with the
session's and begins a new session at `logIn`; csrf-sync keeps one token per
session and compares it with the form's. The state parameter is told apart by
the tab and the person of the attempt, the token by the session it was made in.
An id that nothing refers to any more is given out again, and a session that is
out of everybody's reach is dropped, which keeps the state finite and changes
nothing that anybody can see.

Left out: the privacy screen's agreement, `previousVersion` and failures of the
session store, which are the subject of `Landing`; and `returnTo`, which
`authorisationMiddleware` sets and the callbacks look at, but `logIn` has begun a
new session in between, so that they never find it.

### `Landing`

The same browser from another side: where sign-ins by handover lead. Requests
and sessions work as in `WebSession`, and what that module keeps of a session is
left out here.

| State | In the code |
|---|---|
| `sessions[s]`, `named` | the session store and the cookie; of a session `signIn` (which sign-in made it, 0 for none), `mode`, `hasAgreedPrivacyPolicy`, `previousVersion` and the state parameter of the last attempt |
| `windows[w]` | what a tab shows, or its request: `asked` is the version whose link began the sign-in, `landing` the `previousVersion` that the callback carries over `logIn`, `target` the page it was told to ask for, `token` the form's |
| `signIns`, `agreedIn` | how many sign-ins there were, and those whose user has agreed (history) |

`StartHandover` is `/sign-in/handover` and `/view-previous-version/:uuid`, to which
other services' pages lead. (This UI's own list links to `/view-historic` directly:
`AskFor` and `ShowVersion`.) `LogInHandover`
and `SetUpHandover` are the callback; when `logIn` fails, the code tests `err`,
which is null, instead of `loginErr`, and goes on, so the model does, without a
user. (That the new session can be begun but not saved is left out.) `ShowPlan` is
the plan's overview and has `checkPrivacyScreenAgreed` in it, which redirects to the
screen. No other page has: a goal's pages and the plan's history can be asked for
without agreeing, so `PlanAfterPrivacy` is about the overview alone. What nobody refers to is forgotten, as in `WebSession`.

### `GoalSteps`

The steps of one goal, and the tabs that show the two forms.

| State | In the code |
|---|---|
| `list` | `goal.steps` in the API: `id` stands for the uuids, which are new with every list; `steps` in their order; `round`, and each step's `since`, are history: the update that gave a step its status |
| `forms[t]` | the rows of `add-steps` or `update-goal`, or the handler that a tab waits for; `put` is the list it has sent, `landed` that the API has it |
| `late` | lists on their way whose sender has given up |
| `puts` | how many lists were sent |

`SaveSteps` is `AddStepsController.saveAndRedirect` up to its write, with the
statuses the form was rendered with. `SubmitUpdate`, `ReadGoal`, `Land` and
`Answer` are `UpdateGoalController.saveAndRedirect`, cut at its awaits: the goal
is read, compared (`SameSteps`), sorted (`SortSteps`) and written without an
await up to the call. `GiveUp` is the end of the REST client's patience;
`LandLate` is the list arriving all the same. `SortSteps` is defined by what a
stable sort with the code's comparison returns, not by how it sorts.

### `RestCalls`

The requests of one browser and the calls they make.

| State | In the code |
|---|---|
| `session` | the stored session: whose it is, and whose token is cached in it |
| `calls[r]` | a request: its copy of the session, and its call: the operation (`op`), the token it carries (`bearer`), retries so far, the last status, how often it took effect, attempts given up that may still arrive (`late`), what the caller was told (`outcome`) |
| `goal` | the goal that a DELETE deletes is there |

The services' methods are tables (`GoalService`, `PlanService`, ...) from their
names to the HTTP method they use. `GetSystemClientToken` takes the cached token
or asks HMPPS Auth for another (`SetToken`), which writes it to the request's
copy. `Timeout` is an error at either end of an attempt, after which it may still
arrive (`ServeLate`); `Receive` retries or ends the call. Taken from outside the
repository's code: superagent's `retry(2, f)` repeats a call whose error is a
timeout, a broken connection or one of some statuses, unless `f` returns false,
which it does for calls with a body. Those statuses are called "5xx" here (408, 413
and 429 are among them), all other errors "4xx" (501 and 505 too). A late attempt is
followed until the request's next call or answer (`GetSystemClientToken`,
`Respond`); no property looks at what a given-up attempt does after that. `deleteStep`, which nothing calls, is left out of the
operations.

### `ServiceCalls`

What is left of a call when tokens, attempts, retries and timeouts are taken away:
a request asks for a read, a write or a delete (`asked`), which happens once or
not at all (`done`, `goal`), perhaps later, and is told how it ended (`told`). What
it may be told depends on what has happened by then (`MayTell`). `RestCalls`
implements it: `asked` is the kind of the operation, `told` the outcome, and `done`
the requests whose call took effect; a token that is fetched, an attempt, a timeout
and a retry are stuttering steps.

### `AssessmentAreas`

Pure functions from the scores and risks of the areas of need to the lists of the
about page (`Lists`), and the page that shows them (`GetAbout`). A score is a
number, or there but no number, or missing; JavaScript's `undefined` and `NaN` in
comparisons are what `Comparable` says. An area is known by its key in the
criminogenic needs; the alphabetical order of titles is a table. A list is sorted
(`Sorted`) by placing each area behind those that go before it.

### `GoalDates`

Today, the goal's target date and one form to choose it in. Dates are triples, and
`Overflow` is what JavaScript's `Date` does to a day its month does not have.
`OpenChange` and `ShowChange` are the two sides of `getGoal` in
`ChangeGoalController.render`, with `Midnight` possible in between;
`MapGoalToForm` decides by the second day which button stands for the goal's date,
and `Selected` by the first which buttons there are. `Save` and `RenderAgain` are
the submission; `touched` is history: the user has chosen something. There is one
form, and nobody else changes the goal: that saving an untouched form keeps the
date (`UntouchedKeepsDate`) is not so of a date that another tab has set since the
form was rendered, which is written over.

## 4. Runs

| Run | Checks | Bounds | Shows |
|---|---|---|---|
| `plan` | `TypeOK`, `DraftGoalsAreLive`, `ReadyDraftHasCurrentGoal`, `UpdateFollowsCouldNotAnswer`, `IInv`, `SettledAgreement`, `SettledGoals`, `ImplementsLifecycle`, `RedirectsEnd` | 1 goal, 2 tabs, `HeldPage` update, fair | Agreement and goal stay consistent however the tabs interleave, however old the pages they still show are and whichever return link comes back; redirect chains end, although the other tab may change the plan's status in the middle of one. |
| `plan_stale_delete` | `DeletedOnlyBeforeAgreement`: violated | 1 goal, 2 tabs | A delete page opened on the draft deletes the goal after another tab has agreed the plan. |
| `plan_updated_without_goal` | `UpdatedPlanHasCurrentGoal`: violated | 1 goal, 1 tab | A plan without a current goal gets an updated agreement. |
| `render` | `TypeOK`, `DecidesOnOwnPlan`, `UpdateShowsOwnPlan` | 2 requests, 2 plans; overview and update page, symmetric | What a request decides, it decides by its own plan; a page rendered without an await shows the right plan. |
| `render_shared_field` | `PageShowsOwnPlan`: violated | 2 requests, 2 plans; overview and previous version | A user is shown the plan of another. |
| `goal_order` | `TypeOK`, `OrdersStayDistinct`, `MovesOnePlace` | 3 goals, 2 tabs, `MaxOrder` 4, symmetric | Orders stay distinct and positive; a move exchanges neighbours. |
| `goal_order_gap` | `MovesMove`: violated | 3 goals, 1 tab, `MaxOrder` 3 | A button that changes nothing. |
| `sign_in` | `TypeOK`, `WriterHasPlan`, `SignInForAsked` | 2 tabs, 2 persons, 2 session ids; HMPPS Auth, symmetric | A session that may write has its subject's plan; who asks for a person gets that person's. |
| `session_forms` | `WritesToPlanShown`, `IInv`; `LandingTypeOK`, `PlanAfterPrivacy`, `VersionAsAsked` | `MCHandover`: the same; handover. Beside it `Landing`: 2 tabs, 2 versions, 2 session ids, `MaxSignIns` 2; symmetric | A form is only accepted in a session of the plan that it shows. Who may change the plan is shown its overview only after agreeing since signing in; a version's link leads to that version. |
| `goal_pages` | `StepsTypeOK`, `UpdateFitsForm`, `SectionsInOrder`, `AskedWhenCompleted`; `CallsTypeOK`, `WritesOnce`, `ReportedDeleteIsDone`, `SpeaksForPrincipal`, `CallsKeepPromise`, `CallsGetOn`, `CallsEnd`; `EachAreaInOneGroup`, `RiskierFirst`; `DatesTypeOK`, `OptionIsMonthsOn`, `UntouchedKeepsDate`, `NoDateInThePast` | `MCGoalPages`: 2 tabs, 2 texts, 2 statuses, `MaxSteps` 2, `MaxPuts` 3; 2 requests, 2 operations, 2 sign-ins, fair; 3 areas and lifestyle, 7 possible needs; 3 first days, 2 typed dates, `MaxNights` 2 | The four parts of the goal pages, one beside the other: see below. |
| `session_ended_returns` | `EndedStaysEnded`: violated | 2 tabs, 1 person, 2 session ids; handover | A late answer brings back a session that was ended. |
| `session_role_unanswered` | `MissingRoleIsDenied`: violated | 1 tab, 1 person, 2 session ids; HMPPS Auth | Whose session was set up no further than the principal waits for ever. |

Why the bounds are enough to be interesting. A race needs two tabs or two
requests; a third adds another page that is already old, or another plan in the
field. A goal that does not count beside one that does changes no check of the
plan, all of which ask whether there is some goal of a kind; the proofs are for
any number. One copy of the session is old at a time, and its return link is of one
of the pages in `HeldPage`, again a bound that only the run has: an update page's,
to which only an agreed plan leads (the two runs that end in a violation bring
back the link of any page, and so does the proof of `IInv`). In a list three goals are
needed to move one over another with a third to collide with, and `MaxOrder` is
one above that, so that orders can run past the end; it is the only counter
with a bound in the runs before `session_forms`. Uuids are used once, so the plan's states are finite. Two session ids
are one that signing in destroys and one that it begins, and two persons are one
whose form is open and one whom another tab signs in for; with both ways of
signing in at once the states are too many, and what they share, the store and
the cookie, is in either run. The proofs cover any number of all of these.

`MCGoalPages` and `MCHandover` put modules that share no state beside each other:
the part that a behaviour is of is chosen in its first state and never changes, so
the states are the sum, not the product. For `GoalSteps`, two steps are what a sort
can get wrong, and three lists sent are one that a form is of, one that replaces
it and one that is written by mistake; the two statuses are the first and the last
of five, and the proof is for all. For `RestCalls`, one operation of either kind
of retry; two sign-ins are one whose token is cached and one that it must not be
used for. The needs are a score at and on both sides of a threshold, above the
upper bound, not a number and missing, with the risks spread over them. The first
days are those from which three months on is a shorter month (30 November, 31
August in the nights that follow), the 29th of February, and a change of year. In
`Landing`, two sign-ins are one to agree in and one that must not inherit it, two
versions one that was asked for and one that is still there. A goal page stops
when it has sent its last list, so deadlock is not checked in that run.

Fairness: in `SentencePlan`, weak fairness of `Serve(t)` for each tab. Node runs
every request it has accepted, the REST client's timeouts end every call, and a tab
waiting for a response cannot prevent its own handler from running. Nothing is
assumed of users (`Act`). In `RestCalls`, weak fairness of `Client(r)`, which is
the timers of a call and the handling of what has arrived: both are Node's. Nothing
is assumed of the services (`Serve`, `ServeLate`), so `CallsEnd` says that a call
ends even if none of them ever answers.

The action properties deserve a word, because the simple ones do not hold.
The code checks the plan's status before it records a first answer, not when,
so two answers under way at once can both land. `SettledAgreement` says what is
left: once the plan is agreed and no first answer is under way, no agree page,
however old, starts another, and only an updated answer changes the agreement.
`SettledGoals` is the same for delete pages. `OrdersStayDistinct` and
`MovesOnePlace` hold only as long as no list was overtaken: a move written after
a goal has joined or left can give two goals one order, which nothing in the
UI's code excludes.

## 5. Proofs

`SentencePlanProofs` proves the safety properties of run `plan`, the refinement
included, for any sets of goals, tabs and pages held, from the
single assumption that `NoGoal` is not a goal. `PlanRenderProofs` proves
`TypeOK`, `DecidesOnOwnPlan` and `UpdateShowsOwnPlan` for any requests, plans and kinds;
`GoalOrderProofs` proves `TypeOK`, `OrdersStayDistinct` and `MovesOnePlace` for any goals,
tabs and bound; `WebSessionProofs` proves `TypeOK`, `WriterHasPlan`, `WritesToPlanShown` and
`SignInForAsked` for any tabs, persons and session ids, with both ways of signing
in at once.

`GoalStepsProofs` proves the four properties of `GoalSteps` for any tabs,
texts, statuses and numbers of steps; `RestCallsProofs` all of `RestCalls` but
`CallsEnd`, the refinement included, for any requests, users and operations;
`GoalDatesProofs` all of `GoalDates` for any first days and any typed dates, and for
any number of nights but in `NoDateInThePast`; `AssessmentAreasProofs` both
properties of the about page for any scores;
and `WebSessionProofs`, in its second part, the three properties of `Landing` for
any tabs, versions, session ids and number of sign-ins.

The assumptions say that the values standing for "none" are not among the others,
that bounds are natural numbers, and that constants which are sets of statuses,
operations, areas, needs, dates, kinds of request or ways to sign in have only such
members. One theorem has a hypothesis of its own: `NoPastDateForMonths` is for 89
nights at most, because with one more it is false. An option is compared with
today by nobody, so a form kept open for three months could save a date that has
passed; `PastDatesAreOfOldForms`, which needs no hypothesis, says that no other
form can. A form needs its session, which ends after `session.expiryMinutes`
without a request (`config.ts`), an hour if nothing else is configured.

Only model-checked is liveness: `RedirectsEnd` and `CallsEnd`, which follow from
fairness, and for that the prover has no rules (it would have to know when an
action is enabled). What can be proved of them is proved: that each step goes
towards the end and none goes back, by a measure that is bounded
(`RedirectsAreFew`, `CallsMakeProgress`). What remains is that the steps happen.

### `SentencePlanProofs`

None of the properties is inductive alone. That a draft has no achieved goals
holds because no tab shows a page, waits for a request or will follow a return
link that only an agreed plan leads to, be it the session's or that of an old copy
of it (`PagesFitDraft`); that only answers are
recorded as agreements because of what a tab under way can carry
(`AnswersFitPage`); that the validator's idea of "current" is right in a draft
because future goals have no date (`FutureGoalsAreUndated`). `IInv` is the
conjunction, and

1. `InitIInv`: it holds initially;
2. `TypeStep` (from `GoalsTyped`, `TabsTyped`, `ReturnLinkStep`,
   `AgreementStep`), `PagesStep`, `AnswersStep`, `GoalsStep` (from
   `GoalWrites`): each conjunct is kept by every step of a tab, one case per
   action, and `SessionStep`: they are kept by a request that brings back a link;
3. `InductiveInvariant`: hence always;
4. `DraftGoals`, `ReadyDraft`, `UpdateFollows`, `TypeCorrect`: it implies the
   invariants;
5. `AgreementStaysSettled` and `GoalsStaySettled`: the action properties, from
   the invariant and from who can start an answer (`NewAnswer`), a delete page
   (`NewDeletePage`) or take a goal away (`GoalsStay`);
6. `LifecycleRefinement`: each action maps to the action of `AgreementLifecycle`
   that it implements, or leaves its three variables alone;
7. `RedirectsAreFew`: the requests that a tab has still to make before it shows a
   page, `Hops`, are three at most, and each handler makes them fewer. What another
   tab does to the plan in the middle of a chain cannot lengthen it, because `Hops`
   does not look at the plan.

### `PlanRenderProofs`

That a request decides by its own plan is not inductive: it holds because from
the field's assignment to the decision no other handler runs. `HoldsTheLoop` says
so (a request that has validated is `running`, and the field is what it read),
`ValidatesOwnPlan` that what it read is its own session's plan, and
`ReadsToRender` which requests are rendered from a second read. Each is kept by
every step (`LoopStep`, `OwnPlanStep`, `RereadStep`, and `DecisionStep` by way of
`Decisions`, which says where `HandleValidationErrors` can lead); together with
the type invariant they are `InductiveInvariant`. The same argument fails for
`PageShowsOwnPlan`, since `Render` gives up the loop before `RenderPage`
reads the field.

### `GoalOrderProofs`

First the operator: a move gives a list of the same goals (`MoveKeepsList`),
keeps distinct orders distinct (`MoveKeepsDistinct`) and exchanges the goal with
at most one other (`MoveExchangesNeighbours`), all from the three cases of
`MoveResult`. Then the steps: distinct orders are not inductive, because a
write puts in place what was computed long before; `MovesStayDistinct` carries
it through the moves that are under way.

### `WebSessionProofs`

What a request decides on is the copy of the session it was given, and what is
known of a session is known by its id; the two belong together because all copies
of a session are of one plan (`OnePlan`), which only ever is set while nobody
else knows the id (`RequestsFit`). A form's token is the id it was rendered in
(`SessionsFit`), so a token that fits is one of the copy's own session, whose
forms all show its plan (`FormsShowPlan`). That the CRN is the one asked for
holds because it is written with the attempt and back with it
(`Fits`): a copy that comes back late brings both.

The steps have three shapes, each a lemma: a request that comes (`LoadStep`),
an answer (`RespondStep`), and something that is given up (`DropStep`). The
actions are instances of these, except for `LogInStep`, where a session begins,
and the acceptance of a form (`AcceptStep`), where `WritesToPlanShown` is earned.

The proof for `Landing` has the same shape. What has to be known of a session
wherever it is, in the store or as a copy, is `Kept`: if it says that the privacy
policy was agreed to, its own sign-in is among those that agreed; and if its last
attempt began with a version's link, that version is the one that waits in it. The
second is why `VersionAsAsked` holds although tabs overwrite each other's sessions:
attempt and version are written at once and come back together, and the callback
refuses any other attempt. `Fitting` says the rest of each tab, and `LandingIInv`
is both for all of them.

### `GoalStepsProofs`

`FormOK` relates one form to the list: an update page that has the list's id has
the list's texts in its rows, so that a comparison of uuids, which only looks at the
places the list has, is a comparison of texts and of length. A handler changes one
form and leaves the list alone, and a list that takes effect has an id that no form
has, so both kinds of step keep it. For the order, `InRounds` says that no step is
younger than its list, so a step that changes its status is the youngest of its
section; that a stable sort by status and `updated` then keeps sections in order is
the lemma that the rest is built on. `SortSteps` is the set of what such a sort can
return; `StepsSortOneWay` shows that this is one list for any steps, so that the
other theorems are not about an update that has nothing to write.

### `RestCallsProofs`

`CallOK` speaks of one call and the goal: a call with a body has at most one of
"took effect" and "may still arrive", because it is never sent twice; a DELETE
whose caller is told something is one after which the goal is gone; a session's
token is its user's, in every copy.

For the refinement that is not enough: a write whose caller was told "result" must
have happened, and one that was "not found" must not happen any more. `Kept` adds
this, from the answer on: an answered write has no attempt left behind. There is one
lemma per action of `ServiceCalls` that says when a step of the client is one
(`AskStep`, `LeaveStep`, `TellStep`, `WriteStep`, `DeleteStep`, and `Quiet` for a
stuttering step), one per action of `RestCalls` that says which it is, and
`PromiseIsKept` puts them together.

`Ahead` is how many steps the client has at most to make until a call ends: the
token, and of each of three attempts the answer, the timeout and the retry.
`ClientGetsOn` and `OthersDoNotDelay` are the two halves of `CallsMakeProgress`.

### `GoalDatesProofs`

The calendar first: `Overflow` of a day up to 31 is a date, and at most three days
into the next month. The invariant then says of a form that was not touched what
saving it would do (`Keeps`): nothing, because it does not validate, or store the
date that the goal has.

A date that has passed can only be an option (`PastDateStep`), and the buttons of a
form are those of the day it was rendered (`Offered`), which is therefore more than
three months ago (`PastDatesAreOfOldForms`). For the nights that takes, months have
a length: any three in a row have 89 days at least (`MonthsInARow`), and `Nights`
says of two days so many months apart how many nights there were at least.
`FormAge`, that a form has seen the nights since it was rendered, is kept by every
step, and `NoPastDateForMonths` follows.

### `AssessmentAreasProofs`

`AreasArePartitioned` goes through the cases of a score once; `LostAreasAreNowhere`
is the case it has to except. For the lists, `PlacesAreTaken` is what sorting rests
on: if as many elements go before each element as places before its own, each place
has one element, as there are as many places as elements. Hence a sorted list has
every element once and in order (`SortedListsInOrder`), and there is only one such
list (`OneSortedList`). A list of the page is one of these, or several one after the
other (`ConcatenationLists`, `ConcatenationKeepsOrder`), which gives
`AreasAreInOneGroup` and `RiskierAreasFirst`.

## 6. What the checks found

- A goal can be deleted from an agreed plan (`plan_stale_delete`):
  `RemoveGoalController.remove` trusts the form's action.
- A plan without a goal to work on can have its agreement updated
  (`plan_updated_without_goal`): `AtLeastOneCurrentGoal` looks at dates only.
- The plan overview and the page of a previous version can show another
  person's plan (`render_shared_field`): their
  controllers keep it in a field across an await. Decisions, and the update page,
  are not affected.
- Changing a removed or achieved goal, from a page opened before, and taking away its
  date makes it a future goal (`StatusAfterChange`). No property is about this: nothing
  in the repository says what should come of it.
- A "move down" on a page that is out of date leaves a gap in the orders, and
  then another goal's button does nothing (`goal_order_gap`).
- A session that was ended comes back, with its user, when a request that was
  under way in another tab is answered (`session_ended_returns`).
- A thinking-and-behaviour area that has a score, and a lifestyle area that has
  none beside it, is on no list of the about page (`Lost`, `LostAreasAreNowhere`):
  the greater of the two scores is `NaN`, which is neither above nor below the
  threshold, while the area does have a score.
- A change page opened before midnight and read after it may show no date as
  chosen; saving it untouched is refused, so that nothing is lost.
- The page that adds and changes steps writes back the statuses it was rendered
  with and so undoes an update made meanwhile; a note on a goal without steps
  writes an empty list, which takes away steps added meanwhile.
- A DELETE whose first answer is lost is reported as "not found", although it was
  done; that it is done in this case is `ReportedDeleteIsDone`.
- A sign-in for the plan may be sent to a previous version whose own sign-in was
  given up, since `previousVersion` stays in the session. `VersionAsAsked` says what
  holds: who asked for a version gets that one.
- The callbacks test `err` instead of `loginErr` after `logIn`, and go on without a
  user; `PlanAfterPrivacy` shows that this user gets no page.
- A user of HMPPS Auth whose session was set up as far as the principal but not to
  the subject is never answered: the authorisation middleware reads the subject's
  CRN outside its `try`, before it looks at the role (`session_role_unanswered`). In
  the run's trace the sign-in began at `/crn/:crn/plan` and its set-up stopped after
  the principal, as it does when Delius does not answer (`sessionService.ts:61`); a
  sign-in without a CRN leaves the same session behind (`setUpAuthentication.ts:106`).
  The test that is quoted, "denies access if role is missing", names no exception,
  but its own session has a subject.

## 7. Not modelled

- `RestClient.stream` and `handle500`: nothing calls them.
- `getAssessmentDetailsForArea` beyond completeness, sentence lengths, dates in
  words, locales and referential data: formatting, without state.
- The plan's history, the list of previous versions and the view of a goal's
  details beyond its links: they read and render.
- The audit service: it swallows failures, and nothing depends on it; that requests
  wait for it is in `PlanRender`.
- Notes, agreement texts, areas of need and titles of goals: no decision looks at
  them, except that a note alone makes an update write (`GoalSteps`).
- `returnTo`, which is never found where it is looked for (see `WebSession`).
- Health checks, telemetry, static resources, error pages and configuration.
- The hour after a London midnight (`ENV TZ` in the `Dockerfile`) in which UTC still
  has the day before (`GoalDates`): on a summer day, and for an option that falls on
  a summer day also when it is made in winter.
