-------------------------- MODULE PlanRenderProofs --------------------------
(***************************************************************************)
(* Decisions and update pages rest on the plan of their own request: the   *)
(* invariants of PlanRender, proved for any number of requests and plans.  *)
(***************************************************************************)
EXTENDS PlanRender, TLAPS

USE NoneAssumption, KindAssumption

\* A handler's step touches its own request only.
LEMMA OtherRequests ==
    ASSUME TypeOK, NEW r \in Req, Arrive(r) \/ Handle(r)
    PROVE  \A q \in Req \ {r} : req'[q] = req[q]
  BY DEF TypeOK, Arrive, Handle, Answer, Reads, Fail, Validate, HandleValidationErrors,
         Render, RenderPage

\* A request's field is one of the three, and holds what a read returned or nothing.
LEMMA FieldType ==
    ASSUME TypeOK, NEW r \in Req, Arrived(r)
    PROVE  /\ ControllerOf(req[r].kind) \in Controller
           /\ Field(r) \in PlanRead \cup {NoPlan}
  <1>1. ControllerOf(req[r].kind) \in Controller
    BY DEF ControllerOf, Controller
  <1> QED
    BY <1>1 DEF TypeOK, Field

\* Setting a field leaves the others alone.
LEMMA FieldSet ==
    ASSUME TypeOK, NEW r \in Req, Arrived(r), SetField(r)
    PROVE  /\ field' \in [Controller -> PlanRead \cup {NoPlan}]
           /\ field'[ControllerOf(req[r].kind)] = req[r].own
  BY FieldType DEF SetField, TypeOK, Arrived, Request

\* Every field of a request stays what its reads can leave there.
LEMMA TypeStep == IInv /\ Next => TypeOK'
  <1> SUFFICES ASSUME IInv, NEW r \in Req, Arrive(r) \/ Handle(r)
               PROVE  TypeOK'
    BY DEF Next
  <1> USE DEF TypeOK, Arrived, At
  <1>0. /\ field \in [Controller -> PlanRead \cup {NoPlan}] /\ running \in Req \cup {NoReq}
        /\ req \in [Req -> Request \cup {NoReq}]
    BY DEF IInv
  <1>1. CASE Arrive(r)
    BY <1>0, <1>1 DEF Arrive, Request, IInv
  <1>2. CASE Answer(r)
    <2>1. PICK p \in Plan, is \in Content, place \in {"answered", "reanswered"} :
             req' = [req EXCEPT ![r].at = place, ![r].own = [of |-> p, is |-> is]]
      BY <1>0, <1>2 DEF Answer, Reads, Request
    <2>2. [of |-> p, is |-> is] \in PlanRead
      BY DEF PlanRead
    <2>3. req[r] \in Request
      BY <1>0, <1>2 DEF Answer
    <2> QED
      BY <1>0, <1>2, <2>1, <2>2, <2>3 DEF Answer, Request, IInv
  <1>3. CASE Fail(r)
    BY <1>0, <1>3 DEF Fail, Request, IInv
  <1>4. CASE Validate(r) \/ Render(r)
    <2>1. field' \in [Controller -> PlanRead \cup {NoPlan}]
      BY <1>4, FieldSet DEF Validate, Render, IInv
    <2> QED
      BY <1>0, <1>4, <2>1 DEF Validate, Render, Request, IInv
  <1>5. CASE HandleValidationErrors(r)
    <2>1. req[r] \in Request /\ running' = NoReq /\ field' = field
      BY <1>0, <1>5 DEF HandleValidationErrors
    <2>2. \/ \E place \in {"rereading", "redirected", "recorded"} :
                req' = [req EXCEPT ![r].at = place]
          \/ req' = [req EXCEPT ![r].at = "page", ![r].shown = Field(r)]
      BY <1>5 DEF HandleValidationErrors
    <2>3. CASE \E place \in {"rereading", "redirected", "recorded"} :
                  req' = [req EXCEPT ![r].at = place]
      <3>1. PICK place \in {"rereading", "redirected", "recorded"} :
               req' = [req EXCEPT ![r].at = place]
        BY <2>3
      <3> QED
        BY <1>0, <2>1, <3>1 DEF Request, IInv
    <2>4. CASE req' = [req EXCEPT ![r].at = "page", ![r].shown = Field(r)]
      BY <1>0, <2>1, <2>4, FieldType DEF Request, IInv
    <2> QED
      BY <2>2, <2>3, <2>4
  <1>6. CASE RenderPage(r)
    <2>1. req[r] \in Request /\ running' = running /\ field' = field
      BY <1>0, <1>6 DEF RenderPage
    <2> QED
      BY <1>0, <1>6, <2>1, FieldType DEF RenderPage, Request, IInv
  <1> QED
    BY <1>1, <1>2, <1>3, <1>4, <1>5, <1>6 DEF Handle

\* Where a request can be after its handler has decided.
LEMMA Decisions ==
    ASSUME TypeOK, NEW r \in Req, HandleValidationErrors(r)
    PROVE  LET kind == req[r].kind
               passes == Passes(kind, Field(r).is) IN
           /\ req'[r].own = req[r].own /\ req'[r].plan = req[r].plan /\ req'[r].kind = kind
           /\ req'[r].at \in {"rereading", "redirected", "page", "recorded"}
           /\ req'[r].at = "redirected" =>
                 (kind = "post" /\ passes) \/ (kind = "updateGet" /\ ~passes)
           /\ req'[r].at = "recorded" => kind = "updatePost" /\ passes
           /\ req'[r].at = "rereading" => kind = "get" \/ ~passes
           /\ req'[r].at = "page" => req'[r].shown = Field(r)
  <1> DEFINE kind == req[r].kind
             passes == Passes(kind, Field(r).is)
  <1>1. passes \in BOOLEAN
    BY DEF Passes
  <1>2. req[r] \in Request /\ req \in [Req -> Request \cup {NoReq}]
    BY DEF HandleValidationErrors, TypeOK, At, Arrived
  <1>3. \/ /\ kind = "get" \/ (kind = "post" /\ ~passes)
           /\ req' = [req EXCEPT ![r].at = "rereading"]
        \/ /\ (kind = "post" /\ passes) \/ (kind = "updateGet" /\ ~passes)
           /\ req' = [req EXCEPT ![r].at = "redirected"]
        \/ req' = [req EXCEPT ![r].at = "page", ![r].shown = Field(r)]
        \/ /\ kind = "updatePost" /\ passes
           /\ req' = [req EXCEPT ![r].at = "recorded"]
    BY DEF HandleValidationErrors
  <1> HIDE DEF passes
  <1>4. /\ req'[r].own = req[r].own /\ req'[r].plan = req[r].plan /\ req'[r].kind = kind
    BY <1>2, <1>3 DEF Request
  <1>5. /\ req' = [req EXCEPT ![r].at = "rereading"] => req'[r].at = "rereading"
        /\ req' = [req EXCEPT ![r].at = "redirected"] => req'[r].at = "redirected"
        /\ req' = [req EXCEPT ![r].at = "recorded"] => req'[r].at = "recorded"
        /\ req' = [req EXCEPT ![r].at = "page", ![r].shown = Field(r)] =>
              req'[r].at = "page" /\ req'[r].shown = Field(r)
    BY <1>2 DEF Request
  <1>6. \/ req'[r].at = "rereading" /\ (kind = "get" \/ ~passes)
        \/ /\ req'[r].at = "redirected"
           /\ (kind = "post" /\ passes) \/ (kind = "updateGet" /\ ~passes)
        \/ req'[r].at = "page" /\ req'[r].shown = Field(r)
        \/ req'[r].at = "recorded" /\ kind = "updatePost" /\ passes
    BY <1>3, <1>5, Zenon
  <1>7. /\ req'[r].at \in {"rereading", "redirected", "page", "recorded"}
        /\ req'[r].at = "page" => req'[r].shown = Field(r)
        /\ req'[r].at = "rereading" => kind = "get" \/ ~passes
    BY <1>6
  <1>8. /\ req'[r].at = "redirected" =>
              (kind = "post" /\ passes) \/ (kind = "updateGet" /\ ~passes)
        /\ req'[r].at = "recorded" => kind = "updatePost" /\ passes
    BY <1>6
  <1> QED
    BY <1>4, <1>7, <1>8, Zenon DEF passes

\* Until the handler that set the field has decided, no other one runs.
LEMMA LoopStep == IInv /\ Next => HoldsTheLoop'
  <1> SUFFICES ASSUME IInv, NEW r \in Req, Arrive(r) \/ Handle(r), NEW q \in Req,
                      At(q, "validated")'
               PROVE  running' = q /\ Field(q)' = req'[q].own
    BY DEF Next, HoldsTheLoop
  <1>0. TypeOK /\ req \in [Req -> Request \cup {NoReq}]
    BY DEF IInv, TypeOK
  <1>1. CASE q = r
    <2>1. Validate(r)
      BY <1>0, <1>1, Decisions
         DEF Handle, Arrive, Answer, Reads, Fail, Render, RenderPage, At, Arrived, Request
    <2> QED
      BY <1>0, <1>1, <2>1, FieldSet DEF Validate, Request, At, Arrived, Field
  <1>2. CASE q # r
    <2>1. req'[q] = req[q] /\ running = q /\ Field(q) = req[q].own
      BY <1>0, <1>2, OtherRequests DEF IInv, HoldsTheLoop, At, Arrived
    <2>2. ~Free(r)
      BY <1>2, <2>1 DEF Free
    <2>3. Answer(r)
      BY <2>2 DEF Handle, Arrive, Fail, Validate, HandleValidationErrors, Render, RenderPage
    <2> QED
      BY <2>1, <2>3 DEF Answer, Field
  <1> QED
    BY <1>1, <1>2

\* What a request validates is always what its own session's uuid led to.
LEMMA OwnPlanStep == IInv /\ Next => ValidatesOwnPlan'
  <1> SUFFICES ASSUME IInv, NEW r \in Req, Arrive(r) \/ Handle(r), NEW q \in Req,
                      At(q, "answered")' \/ At(q, "validated")'
               PROVE  req'[q].own.of = req'[q].plan
    BY DEF Next, ValidatesOwnPlan
  <1>0. TypeOK /\ req \in [Req -> Request \cup {NoReq}]
    BY DEF IInv, TypeOK
  <1>1. CASE q # r
    BY <1>0, <1>1, OtherRequests DEF IInv, ValidatesOwnPlan, At, Arrived
  <1>2. CASE q = r
    <2>1. Answer(r) \/ Validate(r)
      BY <1>0, <1>2, Decisions
         DEF Handle, Arrive, Fail, Render, RenderPage, At, Arrived, Request
    <2>2. CASE Answer(r)
      BY <1>0, <1>2, <2>2 DEF Answer, Reads, At, Arrived, Request
    <2>3. CASE Validate(r)
      BY <1>0, <1>2, <2>3 DEF Validate, IInv, ValidatesOwnPlan, At, Arrived, Request
    <2> QED
      BY <2>1, <2>2, <2>3
  <1> QED
    BY <1>1, <1>2

\* A decision is made while the field is still the handler's own.
LEMMA DecisionStep == IInv /\ Next => DecidesOnOwnPlan' /\ UpdateShowsOwnPlan'
  <1> SUFFICES ASSUME IInv, NEW r \in Req, Arrive(r) \/ Handle(r), NEW q \in Req,
                      Arrived(q)'
               PROVE  /\ req'[q].at \in {"redirected", "recorded"} =>
                            /\ req'[q].own.of = req'[q].plan
                            /\ Passes(req'[q].kind, req'[q].own.is) = (req'[q].kind # "updateGet")
                      /\ req'[q].at = "rereading" /\ req'[q].kind = "post" =>
                            ~Passes("post", req'[q].own.is)
                      /\ req'[q].at = "page" /\ req'[q].kind \in {"updateGet", "updatePost"} =>
                            req'[q].shown = req'[q].own
    BY DEF Next, DecidesOnOwnPlan, UpdateShowsOwnPlan, At
  <1>0. TypeOK /\ req \in [Req -> Request \cup {NoReq}]
    BY DEF IInv, TypeOK
  <1>1. CASE q # r
    BY <1>0, <1>1, OtherRequests
       DEF IInv, DecidesOnOwnPlan, UpdateShowsOwnPlan, At, Arrived
  <1>2. CASE q = r /\ HandleValidationErrors(r)
    <2> DEFINE k == req[r].kind
               passes == Passes(k, Field(r).is)
    <2>1. /\ Arrived(r) /\ At(r, "validated") /\ req[r] \in Request
          /\ k \in Kind /\ passes \in BOOLEAN
      BY <1>0, <1>2 DEF HandleValidationErrors, At, Arrived, Request, Passes
    <2>2. Field(r) = req[r].own /\ req[r].own.of = req[r].plan
      BY <2>1 DEF IInv, HoldsTheLoop, ValidatesOwnPlan
    <2>3. /\ req'[r].own = req[r].own /\ req'[r].plan = req[r].plan /\ req'[r].kind = k
          /\ req'[r].at = "redirected" => (k = "post" /\ passes) \/ (k = "updateGet" /\ ~passes)
          /\ req'[r].at = "recorded" => k = "updatePost" /\ passes
          /\ req'[r].at = "rereading" => k = "get" \/ ~passes
          /\ req'[r].at = "page" => req'[r].shown = Field(r)
      BY <1>0, <1>2, Decisions
    <2>4. Passes(req'[r].kind, req'[r].own.is) = passes
      BY <2>2, <2>3
    <2> HIDE DEF passes, k
    <2> QED
      BY <1>2, <2>1, <2>2, <2>3, <2>4
  <1>3. CASE q = r /\ Handle(r) /\ ~HandleValidationErrors(r)
    <2>1. /\ req'[r].at \notin {"redirected", "recorded"}
          /\ req'[r].at # "rereading"
          /\ req'[r].at = "page" => At(r, "auditing") /\ req'[r].kind = req[r].kind
      BY <1>0, <1>3 DEF Handle, Answer, Reads, Fail, Validate, Render, RenderPage,
                        At, Arrived, Request
    <2>2. req'[r].at = "page" => req'[r].kind \notin {"updateGet", "updatePost"}
      BY <2>1 DEF IInv, ReadsToRender
    <2> QED
      BY <1>3, <2>1, <2>2
  <1>4. CASE q = r /\ Arrive(r)
    BY <1>0, <1>4 DEF Arrive, Request
  <1> QED
    BY <1>1, <1>2, <1>3, <1>4

\* Only pages that are rendered from a read wait for a second one.
LEMMA RereadStep == IInv /\ Next => ReadsToRender'
  <1> SUFFICES ASSUME IInv, NEW r \in Req, Arrive(r) \/ Handle(r), NEW q \in Req,
                      At(q, "rereading")' \/ At(q, "reanswered")' \/ At(q, "auditing")'
               PROVE  req'[q].kind \in {"get", "post", "previous"}
    BY DEF Next, ReadsToRender
  <1>0. TypeOK /\ req \in [Req -> Request \cup {NoReq}]
    BY DEF IInv, TypeOK
  <1>1. CASE q # r
    BY <1>0, <1>1, OtherRequests DEF IInv, ReadsToRender, At, Arrived
  <1>2. CASE q = r /\ HandleValidationErrors(r)
    <2>1. req[r].kind = "get" \/ req[r].kind = "post"
      BY <1>0, <1>2 DEF HandleValidationErrors, Request, At, Arrived
    <2> QED
      BY <1>0, <1>2, <2>1, Decisions
  <1>3. CASE q = r /\ Arrive(r)
    BY <1>0, <1>3 DEF Arrive, Request, At, Arrived
  <1>4. CASE q = r /\ Handle(r) /\ ~HandleValidationErrors(r)
    <2>1. /\ At(r, "rereading") \/ At(r, "reanswered") \/ At(r, "auditing")
          /\ req'[r].kind = req[r].kind
      BY <1>0, <1>4 DEF Handle, Answer, Reads, Fail, Validate, Render, RenderPage,
                        At, Arrived, Request
    <2> QED
      BY <1>4, <2>1 DEF IInv, ReadsToRender
  <1> QED
    BY <1>1, <1>2, <1>3, <1>4

\* The inductive invariant: the field belongs to the handler that has not come
\* to an await yet, whatever the other requests do.
THEOREM InductiveInvariant == Spec => []IInv
  <1>1. Init => IInv
    BY DEF Init, IInv, TypeOK, HoldsTheLoop, ReadsToRender, ValidatesOwnPlan,
           DecidesOnOwnPlan, UpdateShowsOwnPlan, At, Arrived
  <1>2. IInv /\ [Next]_vars => IInv'
    <2>1. CASE Next
      BY <2>1, TypeStep, LoopStep, RereadStep, OwnPlanStep, DecisionStep DEF IInv
    <2>2. CASE UNCHANGED vars
      BY <2>2 DEF vars, IInv, TypeOK, HoldsTheLoop, ReadsToRender, ValidatesOwnPlan,
                  DecidesOnOwnPlan, UpdateShowsOwnPlan, At, Arrived, Field
    <2> QED
      BY <2>1, <2>2
  <1> QED
    BY <1>1, <1>2, PTL DEF Spec

\* Fields and requests have their types, and a request whose read was answered
\* has the plan that it goes on with.
THEOREM TypeCorrect == Spec => []TypeOK
  <1>1. IInv => TypeOK
    BY DEF IInv
  <1> QED
    BY <1>1, InductiveInvariant, PTL

\* No interleaving of requests to a controller lets one be decided by the plan
\* of another.
THEOREM OwnDecisions == Spec => []DecidesOnOwnPlan
  <1>1. IInv => DecidesOnOwnPlan
    BY DEF IInv
  <1> QED
    BY <1>1, InductiveInvariant, PTL

\* The page that updates an agreement never shows another request's plan.
THEOREM OwnUpdatePage == Spec => []UpdateShowsOwnPlan
  <1>1. IInv => UpdateShowsOwnPlan
    BY DEF IInv
  <1> QED
    BY <1>1, InductiveInvariant, PTL
=============================================================================
