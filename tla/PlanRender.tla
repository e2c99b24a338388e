----------------------------- MODULE PlanRender -----------------------------
(***************************************************************************)
(* The controllers that keep a plan in a field.  The application makes one *)
(* instance of each controller, so the field is shared by every request of *)
(* every session: the plan overview (GET and POST /plan), the page that    *)
(* updates an agreement (GET and POST), and the page of a previous version.*)
(*                                                                         *)
(* Node runs one continuation at a time; a handler is interrupted where it *)
(* awaits, and nowhere else.  "running" is the handler that has not come   *)
(* to an await yet.                                                        *)
(***************************************************************************)
CONSTANTS
    Req,          \* requests
    Plan,         \* plans, and earlier versions of them, by what they are read by
    Kind,         \* what is asked for
    Status,       \* the plan statuses that are met
    NoReq,        \* no handler is running
    NoPlan        \* a field before any request has set it

ASSUME KindAssumption ==
    Kind \subseteq {"get", "post", "updateGet", "updatePost", "previous"}

VARIABLES
    field,     \* this.plan, or this.planVersion, of each controller
    running,   \* the handler that is between two awaits
    req        \* the requests

vars == <<field, running, req>>

\* "sound": the plan passes the validation that goes with its status.
Content == [status: Status, sound: BOOLEAN]
PlanRead == [of: Plan, is: Content]

\* plan is what the session's plan uuid leads to; doc what the page is to show,
\* an earlier version when the session has a version number.  own is what the
\* request's last read returned, shown what its page showed.
Request == [kind: Kind, plan: Plan, doc: Plan,
            at: {"reading", "answered", "validated", "rereading", "reanswered",
                 "auditing", "page", "redirected", "recorded", "failed"},
            own: PlanRead \cup {NoPlan},
            shown: PlanRead \cup {NoPlan}]

ASSUME NoneAssumption == NoReq \notin Req \cup Request /\ NoPlan \notin PlanRead

Controller == {"overview", "update", "version"}
ControllerOf(kind) ==
    CASE kind \in {"get", "post"} -> "overview"
      [] kind \in {"updateGet", "updatePost"} -> "update"
      [] OTHER -> "version"

Arrived(r) == req[r] # NoReq
Answered == {"page", "redirected", "recorded", "failed"}
At(r, place) == Arrived(r) /\ req[r].at = place
Done(r) == Arrived(r) /\ req[r].at \in Answered
Free(r) == running \in {r, NoReq}
Field(r) == field[ControllerOf(req[r].kind)]
SetField(r) == field' = [field EXCEPT ![ControllerOf(req[r].kind)] = req[r].own]

-----------------------------------------------------------------------------
TypeOK ==
    /\ field \in [Controller -> PlanRead \cup {NoPlan}]
    /\ running \in Req \cup {NoReq}
    /\ req \in [Req -> Request \cup {NoReq}]
    /\ \A r \in Req : At(r, "answered") \/ At(r, "reanswered") => req[r].own # NoPlan

Init ==
    /\ field = [c \in Controller |-> NoPlan]
    /\ running = NoReq
    /\ req = [r \in Req |-> NoReq]

\* A request comes, in the place of one that is over, and its first read is sent:
\* the validation's, except for a previous version, which is only rendered.
Arrive(r) ==
    /\ Arrived(r) => Done(r)
    /\ Free(r)
    /\ \E k \in Kind, p, d \in Plan :
          req' = [req EXCEPT ![r] =
                    [kind |-> k, plan |-> p, doc |-> d,
                     at |-> IF k = "previous" THEN "rereading" ELSE "reading",
                     own |-> NoPlan, shown |-> NoPlan]]
    /\ UNCHANGED <<field, running>>

\* Mutant: an answer without a plan is taken for one.
ReadsNothing(r, p, place) ==
    \E answer \in PlanRead \cup {NoPlan} :
        req' = [req EXCEPT ![r].at = place, ![r].own = answer]

Reads(r, p, place) ==
    \E is \in Content :
        req' = [req EXCEPT ![r].at = place, ![r].own = [of |-> p, is |-> is]]

\* The API reads the plan, which others change at will, and answers.  The answer
\* may be on its way for long.
Answer(r) ==
    /\ \/ At(r, "reading") /\ Reads(r, req[r].plan, "answered")
       \/ At(r, "rereading") /\ Reads(r, req[r].doc, "reanswered")
    /\ UNCHANGED <<field, running>>

\* A read fails, and the error page is the answer.  (The audit service keeps its
\* failures to itself.)
Fail(r) ==
    /\ Free(r)
    /\ At(r, "reading") \/ At(r, "rereading")
    /\ req' = [req EXCEPT ![r].at = "failed"]
    /\ UNCHANGED <<field, running>>

\* Mutant: something is awaited once the plan is in the field.
ValidateAndAwait(r) ==
    /\ At(r, "answered") /\ Free(r)
    /\ SetField(r)
    /\ req' = [req EXCEPT ![r].at = "validated"]
    /\ UNCHANGED running

\* validatePlan and validatePlanForAgreement, after their await: no other
\* handler runs before handleValidationErrors.
Validate(r) ==
    /\ At(r, "answered") /\ Free(r)
    /\ SetField(r)
    /\ req' = [req EXCEPT ![r].at = "validated"]
    /\ running' = r

\* Whether a plan lets a request of this kind go on.
Passes(kind, is) ==
    IF kind \in {"get", "post"} THEN is.status # "DRAFT" \/ is.sound
    ELSE is.status = "COULD_NOT_ANSWER" /\ is.sound

\* handleValidationErrors and the handler it leads to.  The overview is rendered
\* from a second read, the update page at once and from the field, also when it is
\* the form that is not valid.
HandleValidationErrors(r) ==
    /\ At(r, "validated") /\ Free(r)
    /\ LET kind == req[r].kind
           passes == Passes(kind, Field(r).is) IN
       \/ /\ kind = "get" \/ (kind = "post" /\ ~passes)
          /\ req' = [req EXCEPT ![r].at = "rereading"]
       \/ /\ (kind = "post" /\ passes) \/ (kind = "updateGet" /\ ~passes)
          /\ req' = [req EXCEPT ![r].at = "redirected"]
       \/ /\ (kind = "updateGet" /\ passes) \/ kind = "updatePost"
          /\ req' = [req EXCEPT ![r].at = "page", ![r].shown = Field(r)]
       \/ /\ kind = "updatePost" /\ passes
          /\ req' = [req EXCEPT ![r].at = "recorded"]
    /\ running' = NoReq
    /\ UNCHANGED field

\* render, from its read to the audit service ...
Render(r) ==
    /\ At(r, "reanswered") /\ Free(r)
    /\ SetField(r)
    /\ req' = [req EXCEPT ![r].at = "auditing"]
    /\ UNCHANGED running

\* ... and from there to the page.
RenderPage(r) ==
    /\ At(r, "auditing") /\ Free(r)
    /\ req' = [req EXCEPT ![r].at = "page", ![r].shown = Field(r)]
    /\ UNCHANGED <<field, running>>

-----------------------------------------------------------------------------
Handle(r) ==
    \/ Answer(r) \/ Fail(r) \/ Validate(r) \/ HandleValidationErrors(r)
    \/ Render(r) \/ RenderPage(r)

Next ==
    \E r \in Req : Arrive(r) \/ Handle(r)

Spec == Init /\ [][Next]_vars

-----------------------------------------------------------------------------
(* Safety.                                                                 *)

\* However the requests of different people interleave, the decision a request
\* makes rests on the plan it read itself: it is sent on to the agreement, has
\* its answer recorded, or gets the errors of the plan of its own session.
DecidesOnOwnPlan ==
    \A r \in Req : Arrived(r) =>
        LET q == req[r] IN
        /\ q.at \in {"redirected", "recorded"} =>
              /\ q.own.of = q.plan
              /\ Passes(q.kind, q.own.is) = (q.kind # "updateGet")
        /\ q.at = "rereading" /\ q.kind = "post" => ~Passes("post", q.own.is)

\* The page that updates an agreement shows the status of the plan its request
\* read: nothing is awaited between the field and the page.
UpdateShowsOwnPlan ==
    \A r \in Req : At(r, "page") /\ req[r].kind \in {"updateGet", "updatePost"} =>
        req[r].shown = req[r].own

\* Why those hold: from the field's assignment to the decision the event loop
\* belongs to the handler, so the field is still what it read, ...
HoldsTheLoop ==
    \A r \in Req : At(r, "validated") => running = r /\ Field(r) = req[r].own

\* ... and what a request validates is the plan of its own session.
ValidatesOwnPlan ==
    \A r \in Req : At(r, "answered") \/ At(r, "validated") => req[r].own.of = req[r].plan

\* (Only the overview and previous versions are rendered from a read.)
ReadsToRender ==
    \A r \in Req :
        At(r, "rereading") \/ At(r, "reanswered") \/ At(r, "auditing") =>
            req[r].kind \in {"get", "post", "previous"}

IInv ==
    /\ TypeOK
    /\ HoldsTheLoop
    /\ ReadsToRender
    /\ ValidatesOwnPlan
    /\ DecidesOnOwnPlan
    /\ UpdateShowsOwnPlan

\* The overview and the page of a previous version are rendered with the plan
\* that was read for the request
\* (server/routes/planOverview/PlanOverviewController.test.ts:82 "should render
\* without validation errors", and
\* server/routes/view-previous-version/ViewPreviousVersionController.test.ts:66
\* "should render the previous version page without errors": what the request's
\* own services return is what the page gets).
PageShowsOwnPlan ==
    \A r \in Req : At(r, "page") => req[r].shown = req[r].own
=============================================================================
