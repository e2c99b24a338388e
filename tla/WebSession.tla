----------------------------- MODULE WebSession -----------------------------
(***************************************************************************)
(* One browser's sign-ins and sessions: the session store, the cookie that *)
(* its tabs share, and the requests they have under way.                   *)
(*                                                                         *)
(* A request works on a copy of the session it came with, and when it is   *)
(* answered the copy is written back as a whole, if it changed.  Signing   *)
(* in destroys the session and begins another one, which the browser only  *)
(* learns of when the sign-in is answered.                                 *)
(*                                                                         *)
(* A plan is known by the person it is of.                                 *)
(***************************************************************************)
CONSTANTS
    Tab,         \* tabs of the browser
    Person,      \* persons with a plan
    Sid,         \* session ids; one that nothing refers to any more is new again
    Flow,        \* the ways to sign in
    NoTab, NoOne, NoSid, NoSession

VARIABLES
    store,     \* the session store
    cookie,    \* the browser's session id
    tabs,      \* what each tab shows, or its request
    ended      \* history: the last session that was ended

vars == <<store, cookie, tabs, ended>>

ASSUME FlowAssumption == Flow \subseteq {"hmpps", "handover"}

\* An attempt to sign in, by a tab and for a person: what the state parameter,
\* which is new each time, tells apart.
Attempt == (Tab \cup {NoTab}) \X (Person \cup {NoOne})
NoAttempt == <<NoTab, NoOne>>

\* state: the last attempt of each kind.  version is undefined when there is no
\* plan, and null when it is the current version.
Session == [user: Flow \cup {"none"},
            access: {"READ_WRITE", "READ_ONLY", "none"},
            subject: Person \cup {NoOne},
            plan: Person \cup {NoOne},
            version: {"undefined", "null", "number"},
            token: Sid \cup {NoSid},
            crn: Person \cup {NoOne},
            state: [Flow -> Attempt]]

ASSUME NoneAssumption ==
    /\ NoTab \notin Tab /\ NoOne \notin Person /\ NoSid \notin Sid
    /\ NoSession \notin Session

Empty == [user |-> "none", access |-> "none", subject |-> NoOne, plan |-> NoOne,
          version |-> "undefined", token |-> NoSid, crn |-> NoOne,
          state |-> [f \in Flow |-> NoAttempt]]

InFlight == {"open", "callback", "setUp", "get", "post", "writing", "end"}

\* A tab that is away signs in somewhere else.  A request has the id and the copy
\* of a session, a sign-in the person it was asked for, a form the plan it shows
\* and the token of the session it was rendered in.
TabState == [at: InFlight \cup {"idle", "form", "away", "unanswered"},
             flow: Flow \cup {"none"},
             asked: Person \cup {NoOne},
             sid: Sid \cup {NoSid},
             copy: Session,
             shown: Person \cup {NoOne},
             token: Sid \cup {NoSid},
             role: BOOLEAN]

Idle == [at |-> "idle", flow |-> "none", asked |-> NoOne, sid |-> NoSid,
         copy |-> Empty, shown |-> NoOne, token |-> NoSid, role |-> TRUE]
Away(flow, asked) == [Idle EXCEPT !.at = "away", !.flow = flow, !.asked = asked]
Form(shown, token) == [Idle EXCEPT !.at = "form", !.shown = shown, !.token = token]
Unanswered(role) == [Idle EXCEPT !.at = "unanswered", !.role = role]

Waits(t, at) == tabs[t].at = at
Waiting(t) == tabs[t].at \in InFlight

-----------------------------------------------------------------------------
TypeOK ==
    /\ store \in [Sid -> Session \cup {NoSession}]
    /\ cookie \in Sid \cup {NoSid}
    /\ tabs \in [Tab -> TabState]
    /\ ended \in Sid \cup {NoSid}
    /\ \A t \in Tab : Waiting(t) => tabs[t].sid # NoSid
    /\ \A t \in Tab : Waits(t, "form") \/ Waits(t, "post") => tabs[t].token # NoSid

Init ==
    /\ store = [s \in Sid |-> NoSession]
    /\ cookie = NoSid
    /\ tabs = [t \in Tab |-> Idle]
    /\ ended = NoSid

-----------------------------------------------------------------------------
(* The session middleware.                                                 *)

Unused(s) ==
    /\ s # cookie
    /\ \A t \in Tab : s # tabs[t].sid /\ s # tabs[t].token

\* A request comes, with the browser's session or with a new one.
Load(t, request) ==
    \E s \in Sid :
        \/ /\ s = cookie /\ store[s] # NoSession
           /\ tabs' = [tabs EXCEPT ![t] = [request EXCEPT !.sid = s, !.copy = store[s]]]
           /\ UNCHANGED <<store, cookie, ended>>
        \/ /\ Unused(s) /\ (cookie # NoSid => store[cookie] = NoSession)
           /\ tabs' = [tabs EXCEPT ![t] = [request EXCEPT !.sid = s, !.copy = Empty]]
           /\ store' = [store EXCEPT ![s] = NoSession]
           /\ ended' = IF s = ended THEN NoSid ELSE ended
           /\ UNCHANGED cookie

\* The answer goes out, with the cookie (rolling), and the session is written if it
\* changed, as it always does in a new minute (nowInMinutes).  A session that is
\* neither the browser's nor a request's by then is out of reach, and left out.
Respond(t, session, page) ==
    LET s == tabs[t].sid
        reached == {s} \cup {tabs[u].sid : u \in Tab \ {t}} IN
    /\ \E stored \in {session} \cup (IF session = tabs[t].copy THEN {store[s]} ELSE {}) :
          store' = [x \in Sid |-> IF x = s THEN stored
                                 ELSE IF x \in reached THEN store[x] ELSE NoSession]
    /\ cookie' = s
    /\ tabs' = [tabs EXCEPT ![t] = page]
    /\ UNCHANGED ended

\* The user leaves a page, or gives up signing in.
Leave(t) ==
    /\ ~Waiting(t)
    /\ tabs' = [tabs EXCEPT ![t] = Idle]
    /\ UNCHANGED <<store, cookie, ended>>

\* A session that no request is using is forgotten after a while.
Expire(s) ==
    /\ store[s] # NoSession
    /\ \A t \in Tab : Waiting(t) => tabs[t].sid # s
    /\ store' = [store EXCEPT ![s] = NoSession]
    /\ UNCHANGED <<cookie, tabs, ended>>

-----------------------------------------------------------------------------
(* Signing in.                                                             *)

\* /crn/:crn/plan, /sign-in/hmpps-auth and /sign-in/handover: a tab asks to sign in,
\* for a person, or by the second of these for nobody in particular.
Open(t) ==
    /\ ~Waiting(t)
    /\ \E flow \in Flow, asked \in Person \cup {NoOne} :
          /\ flow = "handover" => asked # NoOne
          /\ Load(t, [Away(flow, asked) EXCEPT !.at = "open"])

\* Mutant: a CRN that is there already is kept.
StartSignInKeepingCrn(t) ==
    LET a == tabs[t]
        crn == IF a.flow = "hmpps" /\ a.copy.crn = NoOne THEN a.asked ELSE a.copy.crn IN
    /\ Waits(t, "open")
    /\ Respond(t, [a.copy EXCEPT !.crn = crn, !.state[a.flow] = <<t, a.asked>>],
               Away(a.flow, a.asked))

StartSignIn(t) ==
    LET a == tabs[t]
        crn == IF a.flow = "hmpps" /\ a.asked # NoOne THEN a.asked ELSE a.copy.crn IN
    /\ Waits(t, "open")
    /\ Respond(t, [a.copy EXCEPT !.crn = crn, !.state[a.flow] = <<t, a.asked>>],
               Away(a.flow, a.asked))

\* The user has signed in and is sent back.
Callback(t) ==
    /\ Waits(t, "away")
    /\ Load(t, [tabs[t] EXCEPT !.at = "callback"])

\* Mutant: what is in the session is kept in the one that replaces it.
LogInKeepingSession(t) ==
    LET a == tabs[t] IN
    /\ Waits(t, "callback")
    /\ \/ Respond(t, [a.copy EXCEPT !.state[a.flow] = NoAttempt], Idle)
       \/ /\ a.copy.state[a.flow] = <<t, a.asked>>
          /\ \E s \in Sid :
                LET session == [a.copy EXCEPT !.user = a.flow, !.state[a.flow] = NoAttempt] IN
                /\ Unused(s)
                /\ store' = [store EXCEPT ![a.sid] = NoSession, ![s] = session]
                /\ ended' = IF s = ended THEN NoSid ELSE ended
                /\ tabs' = [tabs EXCEPT ![t] =
                              [a EXCEPT !.at = "setUp", !.sid = s, !.copy = session,
                                        !.shown = a.copy.crn]]
          /\ UNCHANGED cookie

\* The callbacks, up to req.logIn: the state that the session has must be this
\* tab's, and the code must be good.  logIn destroys the session and begins
\* another one.  (The CRN of the old session is carried in "shown".)
LogIn(t) ==
    LET a == tabs[t] IN
    /\ Waits(t, "callback")
    /\ \/ Respond(t, [a.copy EXCEPT !.state[a.flow] = NoAttempt], Idle)
       \/ /\ a.copy.state[a.flow] = <<t, a.asked>>
          /\ \E s \in Sid :
                LET session == [Empty EXCEPT !.user = a.flow] IN
                /\ Unused(s)
                /\ store' = [store EXCEPT ![a.sid] = NoSession, ![s] = session]
                /\ ended' = IF s = ended THEN NoSid ELSE ended
                /\ tabs' = [tabs EXCEPT ![t] =
                              [a EXCEPT !.at = "setUp", !.sid = s, !.copy = session,
                                        !.shown = a.copy.crn]]
          /\ UNCHANGED cookie

\* setupPrincipalFromAuth and setupSessionFromAuth, to their end or to the call
\* that fails: the token, the CRN, Delius, the plan.
SetUpFromAuth(session, crn) ==
    LET principal == [session EXCEPT !.access = "READ_WRITE"]
        subject == [principal EXCEPT !.subject = crn] IN
    {session, principal} \cup
        (IF crn = NoOne THEN {}
         ELSE {subject, [subject EXCEPT !.plan = crn, !.version = "null"]})

\* setupSessionFromHandover, likewise: the context, then the plan's CRN.
SetUpFromHandover(session, person) ==
    {session} \cup
    {[session EXCEPT !.access = access, !.subject = person] :
        access \in {"READ_WRITE", "READ_ONLY"}} \cup
    {[session EXCEPT !.access = access, !.subject = person, !.plan = person,
                     !.version = version] :
        access \in {"READ_WRITE", "READ_ONLY"}, version \in {"null", "number"}}

SetUp(t) ==
    LET a == tabs[t] IN
    /\ Waits(t, "setUp")
    /\ \/ /\ a.flow = "hmpps"
          /\ \E session \in SetUpFromAuth(a.copy, a.shown) : Respond(t, session, Idle)
       \/ /\ a.flow = "handover"
          /\ \E session \in SetUpFromHandover(a.copy, a.asked) : Respond(t, session, Idle)

-----------------------------------------------------------------------------
(* The plan's pages.                                                       *)

\* Mutant: a plan that is not there is a current one.
AccessModeUnlessNumber(session) ==
    IF session.access = "READ_ONLY" \/ session.version = "number" THEN "READ_ONLY"
    ELSE "READ_WRITE"

AccessMode(session) ==
    IF session.access = "READ_ONLY" \/ session.version # "null" THEN "READ_ONLY"
    ELSE "READ_WRITE"

Get(t) ==
    /\ ~Waiting(t)
    /\ Load(t, [Idle EXCEPT !.at = "get"])

\* A form is submitted.
Post(t) ==
    /\ Waits(t, "form")
    /\ Load(t, [tabs[t] EXCEPT !.at = "post"])

\* Token verification and authorisation end with an error page, or with a
\* redirect to sign in if there is no principal.
Refuse(t) ==
    LET session == tabs[t].copy IN
    /\ Waits(t, "get") \/ Waits(t, "post")
    /\ session.user # "handover" \/ session.access = "none"
    /\ Respond(t, session, Idle)

\* An HMPPS Auth user's token is good, but the session's set-up stopped before the
\* subject, for want of a CRN or because Delius did not answer, and there is nothing
\* to read the CRN of: the handler fails without an answer.
FailUnanswered(t) ==
    LET session == tabs[t].copy IN
    /\ Waits(t, "get") \/ Waits(t, "post")
    /\ session.user = "hmpps" /\ session.access # "none" /\ session.subject = NoOne
    /\ \E role \in BOOLEAN : tabs' = [tabs EXCEPT ![t] = Unanswered(role)]
    /\ UNCHANGED <<store, cookie, ended>>

Authorised(session) ==
    /\ session.user # "none" /\ session.access # "none"
    /\ session.user = "hmpps" => session.subject # NoOne

\* Mutant: the page is rendered before the token is made.
RenderWithoutToken(t) ==
    LET a == tabs[t] IN
    /\ Waits(t, "get")
    /\ Authorised(a.copy)
    /\ Respond(t, [a.copy EXCEPT !.token = a.sid],
               IF AccessMode(a.copy) = "READ_WRITE" THEN Form(a.copy.plan, a.copy.token)
               ELSE Idle)

\* A page of the session's plan, with a form for a user who may write.
Render(t) ==
    LET a == tabs[t] IN
    /\ Waits(t, "get")
    /\ Authorised(a.copy)
    /\ LET token == IF a.copy.token = NoSid THEN a.sid ELSE a.copy.token
           page == IF AccessMode(a.copy) = "READ_WRITE" THEN Form(a.copy.plan, token)
                   ELSE Idle IN
       Respond(t, [a.copy EXCEPT !.token = token], page)

\* The form's token and the access mode are checked, and the handler writes ...
Accept(t) ==
    LET a == tabs[t] IN
    /\ Waits(t, "post")
    /\ Authorised(a.copy)
    /\ \/ /\ a.token = a.copy.token /\ AccessMode(a.copy) = "READ_WRITE"
          /\ tabs' = [tabs EXCEPT ![t].at = "writing"]
          /\ UNCHANGED <<store, cookie, ended>>
       \/ /\ a.token # a.copy.token \/ AccessMode(a.copy) # "READ_WRITE"
          /\ Respond(t, a.copy, Idle)

\* ... and answers.
Write(t) ==
    /\ Waits(t, "writing")
    /\ Respond(t, tabs[t].copy, Idle)

-----------------------------------------------------------------------------
(* Ending the session.                                                     *)

End(t) ==
    /\ ~Waiting(t)
    /\ Load(t, [Idle EXCEPT !.at = "end"])

\* /end-session and /sign-out.  The cookie stays what it is.
EndSession(t) ==
    LET a == tabs[t] IN
    /\ Waits(t, "end")
    /\ \/ /\ a.copy.user # "none"
          /\ store' = [store EXCEPT ![a.sid] = NoSession]
          /\ ended' = a.sid
          /\ tabs' = [tabs EXCEPT ![t] = Idle]
          /\ UNCHANGED cookie
       \/ /\ a.copy.user = "none"
          /\ Respond(t, a.copy, Idle)

-----------------------------------------------------------------------------
Next ==
    \/ \E t \in Tab :
          \/ Open(t) \/ StartSignIn(t) \/ Callback(t) \/ LogIn(t) \/ SetUp(t)
          \/ Get(t) \/ Post(t) \/ Refuse(t) \/ FailUnanswered(t)
          \/ Render(t) \/ Accept(t) \/ Write(t)
          \/ End(t) \/ EndSession(t) \/ Leave(t)
    \/ \E s \in Sid : Expire(s)

Spec == Init /\ [][Next]_vars

-----------------------------------------------------------------------------
(* Safety.                                                                 *)

\* Whatever call of a sign-in failed, and whatever was written back by whom, a
\* session that may write has the current version of a plan, and it is the plan
\* of the session's subject.
HasPlan(session) ==
    session.access # "none" /\ AccessMode(session) = "READ_WRITE" =>
        session.plan # NoOne /\ session.subject = session.plan

WriterHasPlan ==
    /\ \A s \in Sid : store[s] # NoSession => HasPlan(store[s])
    /\ \A t \in Tab : Waiting(t) => HasPlan(tabs[t].copy)

\* What is written is written to the plan that the form shows, although the tabs
\* share a cookie and another of them may have signed in for another person, or
\* a late answer may have brought an earlier session back.
WritesToPlanShown ==
    \A t \in Tab : Waits(t, "writing") => tabs[t].copy.plan = tabs[t].shown

\* Who is signed in from /crn/:crn/plan gets the plan of that person, although
\* the CRN waits in a session that every tab writes as a whole.
SignInForAsked ==
    \A t \in Tab : Waits(t, "setUp") /\ tabs[t].flow = "hmpps" /\ tabs[t].asked # NoOne =>
        tabs[t].shown = tabs[t].asked

(* Why those hold.                                                         *)

\* The CRN in a session is that of its last attempt by HMPPS Auth, if that was
\* for a person, and the token is the session's own.
Fits(s, session) ==
    /\ session.token \in {s, NoSid}
    /\ "hmpps" \in Flow /\ session.state["hmpps"][2] # NoOne =>
           session.crn = session.state["hmpps"][2]
SessionsFit ==
    /\ \A s \in Sid : store[s] # NoSession => Fits(s, store[s])
    /\ \A t \in Tab : Waiting(t) => Fits(tabs[t].sid, tabs[t].copy)

\* All copies of a session are of one plan, which is the plan that the forms
\* rendered in it show.
OnePlan ==
    \A t \in Tab : Waiting(t) =>
        LET s == tabs[t].sid
            plan == tabs[t].copy.plan IN
        /\ store[s] # NoSession => store[s].plan = plan
        /\ \A u \in Tab : Waiting(u) /\ tabs[u].sid = s => tabs[u].copy.plan = plan
        /\ \A u \in Tab : tabs[u].token = s => tabs[u].shown = plan
FormsShowPlan ==
    \A t \in Tab, s \in Sid :
        tabs[t].token = s /\ store[s] # NoSession => store[s].plan = tabs[t].shown

\* Nobody knows the session that is being set up, which is new; only requests have
\* a session in hand, one that writes has its own form's, and who signs in has no
\* form.
RequestsFit ==
    \A t \in Tab :
        /\ ~Waiting(t) => tabs[t].sid = NoSid
        /\ Waits(t, "writing") => tabs[t].token = tabs[t].sid
        /\ Waits(t, "setUp") =>
              /\ tabs[t].copy = [Empty EXCEPT !.user = tabs[t].flow]
              /\ tabs[t].sid # cookie
              /\ \A u \in Tab : /\ tabs[u].token # tabs[t].sid
                                /\ u # t => tabs[u].sid # tabs[t].sid
        /\ tabs[t].at \in {"open", "away", "callback", "setUp"} =>
              /\ tabs[t].flow \in Flow /\ tabs[t].token = NoSid
              /\ tabs[t].flow = "handover" => tabs[t].asked # NoOne

IInv ==
    /\ TypeOK
    /\ WriterHasPlan
    /\ WritesToPlanShown
    /\ SignInForAsked
    /\ SessionsFit
    /\ OnePlan
    /\ FormsShowPlan
    /\ RequestsFit

\* "Should destroy the session when 'End session' is clicked"
\* (integration_tests/e2e/e2e-tests/session-timeout.cy.ts:42): nobody is signed in
\* by a session that was ended.
EndedStaysEnded ==
    \A s \in Sid : s = ended /\ store[s] # NoSession => store[s].user = "none"

\* "denies access if role is missing"
\* (server/middleware/authorisationMiddleware.test.ts:80): a user without the
\* role is answered that.  The test's own session has a subject; what is asked here
\* is whether it is so in every session that a sign-in leaves behind, also one whose
\* set-up stopped before the subject.
MissingRoleIsDenied ==
    \A t \in Tab : Waits(t, "unanswered") => tabs[t].role
=============================================================================
