------------------------------ MODULE Landing ------------------------------
(***************************************************************************)
(* Where a sign-in by handover leads: to the previous version of the plan  *)
(* whose link was followed, to the privacy screen, or to the plan; and the *)
(* pages that ask for the screen to have been agreed.                      *)
(*                                                                         *)
(* As in WebSession, a request works on a copy of its session, which is    *)
(* written back as a whole, and the cookie goes to the session that        *)
(* answered last.  Added here are the failures of the session store, and   *)
(* what WebSession leaves out of a session; what it has is left out.       *)
(***************************************************************************)
EXTENDS Naturals

CONSTANTS
    Window,       \* the browser's tabs
    Version,      \* previous versions that have a link
    Id,          \* session ids; one that nothing refers to any more is new again
    MaxSignIns,   \* the most sign-ins
    NoWindow, NoVersion, NoId, NotStored

-----------------------------------------------------------------------------
(***************************************************************************)
(* A session.  signIn is the sign-in that logged its user in, or 0; mode   *)
(* is what getAccessMode makes of it, or "none" without a principal; state *)
(* is the last attempt to sign in, which its state parameter tells apart.  *)
(***************************************************************************)
LandingSession ==
    [signIn: 0..MaxSignIns, mode: {"none", "READ_WRITE", "READ_ONLY"},
     hasAgreedPrivacyPolicy: BOOLEAN, previousVersion: Version \cup {NoVersion},
     state: (Window \cup {NoWindow}) \X (Version \cup {NoVersion})]

Fresh == [signIn |-> 0, mode |-> "none", hasAgreedPrivacyPolicy |-> FALSE,
          previousVersion |-> NoVersion, state |-> <<NoWindow, NoVersion>>]

ASSUME LandingAssumption ==
    /\ MaxSignIns \in Nat
    /\ NoWindow \notin Window /\ NoVersion \notin Version /\ NoId \notin Id
    /\ NotStored \notin LandingSession

VARIABLES
    sessions,   \* the session store
    named,      \* the browser's session id
    windows,    \* what each tab shows, or its request
    signIns,    \* how many sign-ins there have been
    agreedIn    \* history: the sign-ins whose user agreed to the privacy screen

landingVars == <<sessions, named, windows, signIns, agreedIn>>

UnderWay == {"open", "callback", "setUp", "get", "post"}

(***************************************************************************)
(* "redirect" is a tab that was told to ask for "target".  asked is the    *)
(* version whose link a sign-in began with; landing is the previousVersion *)
(* that its callback carries over; token, the session of a form.           *)
(***************************************************************************)
WindowState ==
    [at: UnderWay \cup {"other", "away", "redirect", "plan", "version", "privacy"},
     asked: Version \cup {NoVersion}, landing: Version \cup {NoVersion},
     target: {"none", "plan", "version", "privacy"},
     sid: Id \cup {NoId}, copy: LandingSession, token: Id \cup {NoId}]

Other == [at |-> "other", asked |-> NoVersion, landing |-> NoVersion,
          target |-> "none", sid |-> NoId, copy |-> Fresh, token |-> NoId]

RedirectTo(target) == [Other EXCEPT !.at = "redirect", !.target = target]

LandingInit ==
    /\ sessions = [s \in Id |-> NotStored]
    /\ named = NoId
    /\ windows = [w \in Window |-> Other]
    /\ signIns = 0
    /\ agreedIn = {}

-----------------------------------------------------------------------------
(***************************************************************************)
(* The session middleware.                                                 *)
(***************************************************************************)
Generated(s) ==
    s # named /\ \A w \in Window : s # windows[w].sid /\ s # windows[w].token

LoadSession(w, request) ==
    \E s \in Id :
        \/ /\ s = named /\ sessions[s] # NotStored
           /\ windows' = [windows EXCEPT ![w] =
                  [request EXCEPT !.sid = s, !.copy = sessions[s]]]
           /\ UNCHANGED <<sessions, named, signIns, agreedIn>>
        \/ /\ Generated(s) /\ (named # NoId => sessions[named] = NotStored)
           /\ windows' = [windows EXCEPT ![w] =
                  [request EXCEPT !.sid = s, !.copy = Fresh]]
           /\ sessions' = [sessions EXCEPT ![s] = NotStored]
           /\ UNCHANGED <<named, signIns, agreedIn>>

\* The session is saved if it changed, as it does in a new minute at the latest.
\* What neither a request nor the cookie refers to is out of reach.
SaveSession(w, session, page) ==
    LET s == windows[w].sid
        reached == {s} \cup {windows[u].sid : u \in Window \ {w}}
    IN  /\ \E saved \in {session} \cup (IF session = windows[w].copy
                                        THEN {sessions[s]} ELSE {}) :
              sessions' = [x \in Id |-> IF x = s THEN saved
                                         ELSE IF x \in reached THEN sessions[x]
                                         ELSE NotStored]
        /\ named' = s
        /\ windows' = [windows EXCEPT ![w] = page]
        /\ UNCHANGED signIns

LeavePage(w) ==
    /\ windows[w].at \notin UnderWay
    /\ windows' = [windows EXCEPT ![w] = Other]
    /\ UNCHANGED <<sessions, named, signIns, agreedIn>>

-----------------------------------------------------------------------------
(***************************************************************************)
(* Signing in.                                                             *)
(***************************************************************************)
\* The link to the plan, or to one of its previous versions.
FollowHandover(w) ==
    /\ windows[w].at \notin UnderWay
    /\ signIns < MaxSignIns
    /\ \E asked \in Version \cup {NoVersion} :
          LoadSession(w, [Other EXCEPT !.at = "open", !.asked = asked])

\* Mutant: a version that is there already is kept.
StartHandoverKeepingVersion(w) ==
    LET a == windows[w]
        previous == IF a.copy.previousVersion = NoVersion THEN a.asked
                                                        ELSE a.copy.previousVersion
    IN  /\ a.at = "open"
        /\ SaveSession(w, [a.copy EXCEPT !.previousVersion = previous,
                                         !.state = <<w, a.asked>>],
                       [Other EXCEPT !.at = "away", !.asked = a.asked])
        /\ UNCHANGED agreedIn

\* /sign-in/handover and /view-previous-version
StartHandover(w) ==
    LET a == windows[w]
        previous == IF a.asked # NoVersion THEN a.asked ELSE a.copy.previousVersion
    IN  /\ a.at = "open"
        /\ SaveSession(w, [a.copy EXCEPT !.previousVersion = previous,
                                         !.state = <<w, a.asked>>],
                       [Other EXCEPT !.at = "away", !.asked = a.asked])
        /\ UNCHANGED agreedIn

ReturnFromHandover(w) ==
    /\ windows[w].at = "away"
    /\ LoadSession(w, [windows[w] EXCEPT !.at = "callback"])

\* Mutant: the new session keeps what the old one had.
LogInKeeping(w) ==
    LET a == windows[w]
    IN  /\ a.at = "callback" /\ signIns < MaxSignIns
        /\ a.copy.state = <<w, a.asked>>
        /\ signIns' = signIns + 1
        /\ \E s \in Id :
              LET session == [a.copy EXCEPT !.signIn = signIns + 1]
              IN  /\ Generated(s)
                  /\ sessions' = [sessions EXCEPT ![a.sid] = NotStored, ![s] = session]
                  /\ windows' = [windows EXCEPT ![w] =
                        [a EXCEPT !.at = "setUp", !.sid = s, !.copy = session,
                                  !.landing = a.copy.previousVersion]]
        /\ UNCHANGED <<named, agreedIn>>

(***************************************************************************)
(* The callback, up to logIn, which destroys the session and begins a new  *)
(* one; if the store fails to, nobody is logged in, but the callback looks *)
(* at the wrong error and goes on with the session that was to be it.      *)
(* "failed" is a session that could not be begun; one that was begun, the  *)
(* old one being gone, and could not be saved is left out.                 *)
(***************************************************************************)
LogInHandover(w) ==
    LET a == windows[w]
    IN  /\ a.at = "callback" /\ signIns < MaxSignIns
        /\ a.copy.state = <<w, a.asked>>
        /\ \E s \in Id, failed \in BOOLEAN :
              LET session == [Fresh EXCEPT !.signIn = IF failed THEN 0 ELSE signIns + 1]
              IN  /\ Generated(s)
                  /\ signIns' = IF failed THEN signIns ELSE signIns + 1
                  /\ sessions' = IF failed THEN [sessions EXCEPT ![s] = NotStored]
                                 ELSE [sessions EXCEPT ![a.sid] = NotStored,
                                                       ![s] = session]
                  /\ windows' = [windows EXCEPT ![w] =
                        [a EXCEPT !.at = "setUp", !.sid = s, !.copy = session,
                                  !.landing = a.copy.previousVersion]]
        /\ UNCHANGED <<named, agreedIn>>

\* The state is not this attempt's, or the code is no good.
RefuseHandover(w) ==
    LET a == windows[w]
    IN  /\ a.at = "callback"
        /\ SaveSession(w, [a.copy EXCEPT !.state = <<NoWindow, NoVersion>>], Other)
        /\ UNCHANGED agreedIn

\* setupSessionFromHandover, which may fail before it has a principal, or before
\* it has a plan; without one the session is READ_ONLY.
SetUpHandover(w) ==
    LET a == windows[w]
        Set(mode) == [a.copy EXCEPT !.mode = mode]
    IN  /\ a.at = "setUp"
        /\ \/ \E mode \in {"none", "READ_ONLY"} : SaveSession(w, Set(mode), Other)
           \/ \E mode \in {"READ_WRITE", "READ_ONLY"} :
                 SaveSession(w, Set(mode),
                     RedirectTo(IF a.landing # NoVersion THEN "version"
                                ELSE IF mode = "READ_WRITE" THEN "privacy" ELSE "plan"))
        /\ UNCHANGED agreedIn

-----------------------------------------------------------------------------
(***************************************************************************)
(* The pages.                                                              *)
(***************************************************************************)
\* The page a tab was told to ask for, or any: its target is left open.
AskFor(w) ==
    /\ windows[w].at \notin UnderWay
    /\ LoadSession(w, [Other EXCEPT !.at = "get", !.target = windows[w].target])

AskedFor(w, target) ==
    windows[w].at = "get" /\ windows[w].target \in {target, "none"}

LetThrough(session) == session.signIn # 0 /\ session.mode # "none"

\* Of the session, a page keeps what the properties ask for.
Page(w, at) == [Other EXCEPT !.at = at]
PlanPage(w) == [Page(w, "plan") EXCEPT !.copy.signIn = windows[w].copy.signIn,
                                       !.copy.mode = windows[w].copy.mode]

\* Mutant: the privacy screen is rendered without its form's token.
ShowPrivacyWithoutToken(w) ==
    /\ AskedFor(w, "privacy")
    /\ LetThrough(windows[w].copy) /\ windows[w].copy.mode = "READ_WRITE"
    /\ SaveSession(w, windows[w].copy, Page(w, "privacy"))
    /\ UNCHANGED agreedIn

\* PrivacyScreenController.get, or its form once more.
ShowPrivacy(w) ==
    /\ \/ AskedFor(w, "privacy")
       \/ windows[w].at = "post" /\ windows[w].token = windows[w].sid
    /\ LetThrough(windows[w].copy) /\ windows[w].copy.mode = "READ_WRITE"
    /\ SaveSession(w, windows[w].copy,
                   [Page(w, "privacy") EXCEPT !.token = windows[w].sid])
    /\ UNCHANGED agreedIn

\* checkPrivacyScreenAgreed
ShowPlan(w) ==
    LET session == windows[w].copy
    IN  /\ AskedFor(w, "plan")
        /\ LetThrough(session)
        /\ SaveSession(w, session,
               IF session.hasAgreedPrivacyPolicy \/ session.mode = "READ_ONLY"
               THEN PlanPage(w) ELSE RedirectTo("privacy"))
        /\ UNCHANGED agreedIn

ShowVersion(w) ==
    /\ AskedFor(w, "version")
    /\ LetThrough(windows[w].copy)
    /\ SaveSession(w, windows[w].copy, Page(w, "version"))
    /\ UNCHANGED agreedIn

SubmitPrivacy(w) ==
    /\ windows[w].at = "privacy"
    /\ LoadSession(w, [Other EXCEPT !.at = "post", !.token = windows[w].token])

\* PrivacyScreenController.post, with the box ticked.
AgreePrivacy(w) ==
    LET a == windows[w]
    IN  /\ a.at = "post" /\ a.token = a.sid
        /\ LetThrough(a.copy) /\ a.copy.mode = "READ_WRITE"
        /\ SaveSession(w, [a.copy EXCEPT !.hasAgreedPrivacyPolicy = TRUE],
                       RedirectTo("plan"))
        /\ agreedIn' = agreedIn \cup {a.copy.signIn}

RefusePage(w) ==
    LET a == windows[w]
    IN  /\ a.at \in {"get", "post"}
        /\ \/ ~LetThrough(a.copy)
           \/ a.at = "post" /\ a.token # a.sid
           \/ (a.at = "post" \/ AskedFor(w, "privacy")) /\ a.copy.mode = "READ_ONLY"
        /\ SaveSession(w, a.copy, Other)
        /\ UNCHANGED agreedIn

LandingNext ==
    \E w \in Window :
        \/ LeavePage(w) \/ FollowHandover(w) \/ StartHandover(w)
        \/ ReturnFromHandover(w) \/ LogInHandover(w) \/ RefuseHandover(w)
        \/ SetUpHandover(w) \/ ShowPrivacy(w) \/ ShowPlan(w) \/ ShowVersion(w)
        \/ SubmitPrivacy(w) \/ AgreePrivacy(w) \/ RefusePage(w) \/ AskFor(w)

LandingSpec == LandingInit /\ [][LandingNext]_landingVars

-----------------------------------------------------------------------------
LandingTypeOK ==
    /\ sessions \in [Id -> LandingSession \cup {NotStored}]
    /\ named \in Id \cup {NoId}
    /\ windows \in [Window -> WindowState]
    /\ \A w \in Window : windows[w].at \in {"privacy", "post"} => windows[w].token # NoId
    /\ signIns \in 0..MaxSignIns
    /\ agreedIn \subseteq 1..signIns

(***************************************************************************)
(* Nobody is shown the plan's overview before signing in, nor, who may     *)
(* change the plan, before agreeing to the privacy screen since then --    *)
(* whichever of the tabs did, whatever older copies of sessions are        *)
(* written back, and even if the session could not be made when signing    *)
(* in.  The overview is the only page that asks for it                     *)
(* (PlanOverviewController.ts:133): a goal's page or the history does not. *)
(***************************************************************************)
PlanAfterPrivacy ==
    \A w \in Window : windows[w].at = "plan" =>
        /\ windows[w].copy.signIn # 0
        /\ windows[w].copy.mode = "READ_WRITE" => windows[w].copy.signIn \in agreedIn

(***************************************************************************)
(* Who signed in from the link of a previous version is sent to that one,  *)
(* although it waits in a session that every tab writes as a whole.  (Who  *)
(* signed in from the plan's link may be sent to one, too.)                *)
(***************************************************************************)
VersionAsAsked ==
    \A w \in Window : windows[w].at = "setUp" /\ windows[w].asked # NoVersion =>
        windows[w].landing = windows[w].asked
=============================================================================
