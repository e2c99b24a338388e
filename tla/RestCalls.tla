----------------------------- MODULE RestCalls -----------------------------
(***************************************************************************)
(* The calls that requests make to the services behind the UI (restClient, *)
(* hmppsAuthClient and the services over them): the system token, which is *)
(* kept in the session, the attempts of a call, their timeouts and the     *)
(* retries, and what the caller is told.                                   *)
(*                                                                         *)
(* An attempt that the UI has given up may still be on its way, and take   *)
(* effect later.  The goal is the one whose delete page the requests come  *)
(* from, so DELETE always names it.                                        *)
(*                                                                         *)
(* Not this repository's code: superagent retries some answers and broken  *)
(* connections, each attempt with a new timeout, unless the callback given *)
(* to retry says otherwise.  "5xx" stands for the errors that it retries   *)
(* (408, 413, 429 and most of 5xx), "4xx" for those that it does not (the  *)
(* others, 501 and 505).  The API answers a DELETE of a goal that it does  *)
(* not have with 404.                                                      *)
(***************************************************************************)
EXTENDS Integers, Sequences

CONSTANTS
    Request,     \* requests of one browser that may be under way
    Operation,   \* the operations they call
    User,
    NoUser,
    SignIns      \* the users who sign in, one after the other

-----------------------------------------------------------------------------
(***************************************************************************)
(* The operations of the services, each with its HTTP method.              *)
(***************************************************************************)
GoalService ==
    [getGoal |-> "get", replaceGoal |-> "put", achieveGoal |-> "post",
     removeGoal |-> "post", reAddGoal |-> "post", saveGoal |-> "post",
     deleteGoal |-> "delete", getGoals |-> "get", changeGoalOrder |-> "post"]

PlanService ==
    [getPlanByUuid |-> "get", getPlanByUuidAndVersionNumber |-> "get",
     getPlanVersionByVersionUuid |-> "get", agreePlan |-> "post",
     getNotes |-> "get", associate |-> "put", getPlanByCrn |-> "get"]

StepService ==
    [saveSteps |-> "post", saveAllSteps |-> "put", getSteps |-> "get",
     getStep |-> "get", saveStep |-> "post", updateStep |-> "patch",
     deleteStep |-> "delete"]

CoordinatorService == [getAssessmentByUuid |-> "get", getVersionsByUuid |-> "get"]

InfoService == [getPopData |-> "post"]

SentencePlanAndDeliusService == [getDataByUsernameAndCrn |-> "get"]

Services == {GoalService, PlanService, StepService, CoordinatorService, InfoService,
             SentencePlanAndDeliusService}

Methods == [op \in UNION {DOMAIN s : s \in Services} |->
                (CHOOSE s \in Services : op \in DOMAIN s)[op]]

Method(op) == Methods[op]

\* requestWithBody; post of getPopData only reads, and counts like a write.
WithBody(op) == Method(op) \in {"post", "put", "patch"}

\* Mutant: for every service.
Handles404Always(op) == op \in DOMAIN Methods

\* handle404: null instead of an error.
Handles404(op) == op \in DOMAIN CoordinatorService

ASSUME CallsAssumption ==
    /\ NoUser \notin User
    /\ Operation \subseteq DOMAIN Methods \ {"deleteStep"}
    /\ SignIns \in Seq(User)

-----------------------------------------------------------------------------
VARIABLES
    session,   \* the browser's session in the store
    calls,     \* each request: its copy of the session, and its last call
    goal       \* the goal is there

callsVars == <<session, calls, goal>>

\* A token is known by the user it was issued for; NoUser is no token.
SessionData == [id: Nat, user: User \cup {NoUser}, token: User \cup {NoUser}]

NoSession == [id |-> 0, user |-> NoUser, token |-> NoUser]

(***************************************************************************)
(* A request is "ready" between its calls, waits for a token in "auth", for *)
(* a service in "sent", and has an answer or a timeout in "answered".      *)
(***************************************************************************)
Call == [at: {"idle", "ready", "auth", "sent", "answered"},
         session: SessionData,
         op: Operation \cup {"none"},
         bearer: User \cup {NoUser},   \* whose token the attempts carry
         tries: 0..2,                  \* retries so far
         status: {"none", "2xx", "404", "4xx", "5xx", "timeout"},
         effects: Nat,                 \* how often a write took effect
         late: Nat,                    \* attempts given up and still on their way
         outcome: {"none", "result", "null", "not found", "error"}]

NoCall == [at |-> "idle", session |-> NoSession, op |-> "none",
           bearer |-> NoUser, tries |-> 0, status |-> "none", effects |-> 0,
           late |-> 0, outcome |-> "none"]

CallsInit ==
    /\ session = NoSession
    /\ calls = [r \in Request |-> NoCall]
    /\ goal = TRUE

Under(r) == calls[r].at \in {"auth", "sent", "answered"}

-----------------------------------------------------------------------------
\* Mutant: the token stays in the session.
SignInKeepingToken ==
    /\ session.id < Len(SignIns)
    /\ session' = [session EXCEPT !.id = @ + 1, !.user = SignIns[session.id + 1]]
    /\ UNCHANGED <<calls, goal>>

(***************************************************************************)
(* The session.  Signing in makes a new one, without a token.              *)
(***************************************************************************)
SignIn ==
    /\ session.id < Len(SignIns)
    /\ session' = [id |-> session.id + 1, user |-> SignIns[session.id + 1],
                   token |-> NoUser]
    /\ UNCHANGED <<calls, goal>>

\* A request of a signed-in user.
Arrive(r) ==
    /\ calls[r].at = "idle"
    /\ session.user # NoUser
    /\ calls' = [calls EXCEPT ![r] =
                    [NoCall EXCEPT !.at = "ready", !.session = session]]
    /\ UNCHANGED <<session, goal>>

(***************************************************************************)
(* The answer names the request's session in the cookie.  Its copy is      *)
(* written back if it changed, as it does in a new minute at the latest;   *)
(* else the session is as it is stored, or gone if another replaced it.    *)
(* (A late attempt takes effect before the request's next call or answer,  *)
(* or not at all: what would come still later is not looked at.)           *)
(***************************************************************************)
Respond(r) ==
    /\ calls[r].at = "ready"
    /\ calls[r].late = 0
    /\ session' \in {calls[r].session,
                    IF calls[r].session.id = session.id THEN session ELSE NoSession}
    /\ calls' = [calls EXCEPT ![r] = NoCall]
    /\ UNCHANGED goal

-----------------------------------------------------------------------------
(***************************************************************************)
(* getSystemClientToken, and the first attempt.  That the token may have   *)
(* expired is all that is kept of its expiry.                              *)
(***************************************************************************)
Attempt(r, u) ==
    calls' = [calls EXCEPT ![r].at = "sent", ![r].bearer = u,
                           ![r].session.token = u]

GetSystemClientToken(r, op) ==
    /\ calls[r].at = "ready"
    /\ calls[r].late = 0
    /\ LET begun == [NoCall EXCEPT !.session = calls[r].session, !.op = op]
           token == calls[r].session.token
       IN  \/ /\ token # NoUser
              /\ calls' = [calls EXCEPT ![r] = [begun EXCEPT
                              !.at = "sent", !.bearer = token]]
           \/ calls' = [calls EXCEPT ![r] = [begun EXCEPT !.at = "auth"]]
    /\ UNCHANGED <<session, goal>>

\* The token is asked for in the name of the session's user.
SetToken(r) ==
    /\ calls[r].at = "auth"
    /\ Attempt(r, calls[r].session.user)
    /\ UNCHANGED <<session, goal>>

\* HMPPS Auth fails, or does not answer in time; this is not retried.
FailToken(r) ==
    /\ calls[r].at = "auth"
    /\ calls' = [calls EXCEPT ![r].at = "ready", ![r].outcome = "error"]
    /\ UNCHANGED <<session, goal>>

-----------------------------------------------------------------------------
(***************************************************************************)
(* The services.                                                           *)
(***************************************************************************)
TakeEffect(r, call) ==
    /\ LET effects == IF WithBody(call.op) THEN call.effects + 1 ELSE call.effects
       IN  calls' = [calls EXCEPT ![r] = [call EXCEPT !.effects = effects]]
    /\ goal' = (goal /\ Method(call.op) # "delete")

Can(op) == Method(op) = "delete" => goal

Serve(r, status) ==
    /\ calls[r].at = "sent"
    /\ LET answered == [calls[r] EXCEPT !.at = "answered", !.status = status]
       IN  \/ /\ status \in {"2xx", "5xx"}        \* done, perhaps failing later
              /\ Can(calls[r].op)
              /\ TakeEffect(r, answered)
           \/ /\ status \in {"404", "4xx", "5xx"}
              /\ (status = "404" /\ Method(calls[r].op) = "delete") => ~goal
              /\ calls' = [calls EXCEPT ![r] = answered]
              /\ UNCHANGED goal
    /\ UNCHANGED session

\* An attempt that was given up arrives after all, or it does not.
ServeLate(r) ==
    /\ calls[r].late > 0
    /\ LET call == [calls[r] EXCEPT !.late = @ - 1]
       IN  \/ Can(call.op) /\ TakeEffect(r, call)
           \/ calls' = [calls EXCEPT ![r] = call] /\ UNCHANGED goal
    /\ UNCHANGED session

-----------------------------------------------------------------------------
\* Mutant: the client has no timeout for an attempt that is not answered.
TimeoutOfAnswer(r) ==
    /\ calls[r].at = "answered" /\ calls[r].status # "timeout"
    /\ calls' = [calls EXCEPT ![r].status = "timeout"]
    /\ UNCHANGED <<session, goal>>

(***************************************************************************)
(* The client.  The connection breaks, or response or deadline runs out,   *)
(* be it on the way there or back.                                         *)
(***************************************************************************)
Timeout(r) ==
    /\ \/ calls[r].at = "sent"
       \/ calls[r].at = "answered" /\ calls[r].status # "timeout"
    /\ \E late \in {0, 1} :
          /\ late = 1 => calls[r].at = "sent"
          /\ calls' = [calls EXCEPT ![r].at = "answered",
                           ![r].status = "timeout", ![r].late = @ + late]
    /\ UNCHANGED <<session, goal>>

\* Mutant: every call is retried.
ShouldRetryAll(call) == call.tries < 2 /\ call.status \in {"5xx", "timeout"}

\* Mutant: once more.
ShouldRetryMore(call) ==
    call.tries <= 2 /\ ~WithBody(call.op) /\ call.status \in {"5xx", "timeout"}

\* retry(2, ...): for a call with a body the callback says false.
ShouldRetry(call) ==
    /\ call.tries < 2
    /\ ~WithBody(call.op)
    /\ call.status \in {"5xx", "timeout"}

\* Mutant: an answer of any kind is a result.
AnyAnswer(call) == IF call.status = "timeout" THEN "error" ELSE "result"

Outcome(call) ==
    CASE call.status = "2xx" -> "result"
      [] call.status = "404" /\ Handles404(call.op) -> "null"
      [] call.status = "404" /\ ~Handles404(call.op) -> "not found"
      [] OTHER -> "error"

\* Mutant: what is retried is not counted.
AgainUncounted(call) == [call EXCEPT !.at = "sent", !.status = "none"]

Again(call) == [call EXCEPT !.at = "sent", !.tries = @ + 1, !.status = "none"]

Receive(r) ==
    /\ calls[r].at = "answered"
    /\ LET call == calls[r]
           ended == [call EXCEPT !.at = "ready", !.outcome = Outcome(call),
                                 !.bearer = NoUser, !.tries = 0, !.status = "none"]
       IN  calls' = [calls EXCEPT ![r] = IF ShouldRetry(call) THEN Again(call) ELSE ended]
    /\ UNCHANGED <<session, goal>>

Client(r) == SetToken(r) \/ FailToken(r) \/ Timeout(r) \/ Receive(r)

CallsNext ==
    \/ SignIn
    \/ \E r \in Request :
          \/ Arrive(r) \/ Respond(r) \/ Client(r) \/ ServeLate(r)
          \/ \E op \in Operation : GetSystemClientToken(r, op)
          \/ \E status \in {"2xx", "404", "4xx", "5xx"} : Serve(r, status)

\* Timers run out, and Node.js handles their events.
CallsFairness == \A r \in Request : WF_callsVars(Client(r))

CallsSpec == CallsInit /\ [][CallsNext]_callsVars /\ CallsFairness

-----------------------------------------------------------------------------
CallsTypeOK ==
    /\ session \in SessionData
    /\ calls \in [Request -> Call]
    /\ goal \in BOOLEAN

(***************************************************************************)
(* A call that writes is not repeated: however it fails, and whatever of   *)
(* it arrives late, it takes effect at most once.                          *)
(***************************************************************************)
WritesOnce == \A r \in Request : calls[r].effects <= 1

(***************************************************************************)
(* A DELETE that the caller is told is done, or whose goal it is told is   *)
(* not there, has been done, although only some of its attempts may have   *)
(* arrived, and been answered.                                             *)
(***************************************************************************)
ReportedDeleteIsDone ==
    \A r \in Request :
        /\ calls[r].op # "none" /\ Method(calls[r].op) = "delete"
        /\ calls[r].outcome \in {"result", "not found"}
        => ~goal

(***************************************************************************)
(* No call carries the token of another user than the one whose session    *)
(* its request came with, who signs in meanwhile and whichever request's   *)
(* copy of the session is the last to be written back.                     *)
(***************************************************************************)
SpeaksForPrincipal ==
    \A r \in Request :
        calls[r].at \in {"sent", "answered"} => calls[r].bearer = calls[r].session.user

(***************************************************************************)
(* The client keeps what ServiceCalls promises: from the first attempt to  *)
(* the last answer, with what is retried, given up and late, a call is one *)
(* that happens once or not at all, and is told as it was.                 *)
(***************************************************************************)
Kind(op) ==
    CASE op = "none" -> "nothing"
      [] op # "none" /\ WithBody(op) -> "write"
      [] op # "none" /\ Method(op) = "delete" -> "delete"
      [] OTHER -> "read"

Promise == INSTANCE ServiceCalls WITH
    asked <- [r \in Request |-> Kind(calls[r].op)],
    told <- [r \in Request |-> IF calls[r].outcome = "none"
                               THEN "nothing" ELSE calls[r].outcome],
    done <- {r \in Request : calls[r].effects > 0}

CallsKeepPromise == Promise!Spec

(***************************************************************************)
(* Why they end, with no word about fairness: nothing takes a call under   *)
(* way back, and each step of the client takes it further.  Before it are  *)
(* the token, and of each attempt the answer, the timeout and the retry.   *)
(***************************************************************************)
Ahead(call) ==
    CASE call.at = "auth" -> 9
      [] call.at = "sent" -> 3 * (2 - call.tries) + 2
      [] call.at = "answered" /\ call.status # "timeout" -> 3 * (2 - call.tries) + 1
      [] OTHER -> 3 * (2 - call.tries)

CallsGetOn ==
    [][\A r \in Request :
           Under(r) /\ Under(r)' =>
               /\ Ahead(calls[r])' \in 0..Ahead(calls[r])
               /\ Client(r) => Ahead(calls[r])' < Ahead(calls[r])]_callsVars

(***************************************************************************)
(* Whatever the services do or leave undone, each call ends.               *)
(***************************************************************************)
CallsEnd == \A r \in Request : Under(r) ~> ~Under(r)
=============================================================================
