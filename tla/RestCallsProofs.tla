-------------------------- MODULE RestCallsProofs --------------------------
(***************************************************************************)
(* Proofs about the calls to the services, for any number of requests and  *)
(* users, and any operations.                                              *)
(*                                                                         *)
(* The invariant speaks of one call and the goal at a time (CallOK).  What *)
(* it adds to the properties: a call with a body that is on its way has    *)
(* not taken effect and has no attempt of it left behind, and a session's  *)
(* token is its user's.  From it, the second part proves that the client   *)
(* keeps what ServiceCalls promises, one action at a time, and the third   *)
(* that each of its steps takes a call towards its end.                    *)
(***************************************************************************)
EXTENDS RestCalls, TLAPS

-----------------------------------------------------------------------------
(* The invariant.                                                          *)

OwnToken(s) == s \in SessionData /\ s.token \in {NoUser, s.user}

\* What the caller was told, or is about to be.
Told(c) ==
    \/ c.outcome \in {"result", "not found"}
    \/ c.at = "answered" /\ c.status \in {"2xx", "404"}

CallOK(c, there) ==
    /\ c \in Call
    /\ OwnToken(c.session)
    /\ c.at # "idle" => c.session.user # NoUser
    /\ c.at \in {"auth", "sent", "answered"} => c.op \in Operation
    /\ c.at \in {"sent", "answered"} => c.bearer = c.session.user
    /\ c.effects + c.late <= 1 \/ ~WithBody(c.op)
    /\ WithBody(c.op) \/ c.effects = 0
    /\ (c.at \in {"auth", "sent"} /\ WithBody(c.op)) => c.effects + c.late = 0
    /\ (c.op # "none" /\ Method(c.op) = "delete" /\ Told(c)) => ~there

IInv ==
    /\ OwnToken(session)
    /\ calls \in [Request -> Call]
    /\ \A r \in Request : CallOK(calls[r], goal)
    /\ goal \in BOOLEAN

-----------------------------------------------------------------------------
(* One call.                                                               *)

LEMMA NoCallOK ==
    ASSUME NEW there PROVE CallOK(NoCall, there)
  BY DEF CallOK, NoCall, Call, OwnToken, SessionData, NoSession, Told

\* What an action does to one call is all it does, but that the goal may go.
LEMMA OneCall ==
    ASSUME IInv, NEW r \in Request, NEW c, CallOK(c, goal'),
           calls' = [calls EXCEPT ![r] = c], goal' => goal,
           goal' \in BOOLEAN, OwnToken(session')
    PROVE  IInv'
  <1>1. c \in Call
    BY DEF CallOK
  <1>2. calls' \in [Request -> Call]
    BY <1>1 DEF IInv
  <1>3. \A q \in Request : calls'[q] = IF q = r THEN c ELSE calls[q]
    BY DEF IInv
  <1>4. ASSUME NEW q \in Request PROVE CallOK(calls'[q], goal')
    <2>1. CASE q = r
      BY <2>1, <1>3
    <2>2. CASE q # r
      BY <2>2, <1>3 DEF IInv, CallOK
    <2> QED BY <2>1, <2>2
  <1> QED BY <1>2, <1>4 DEF IInv

LEMMA CallFacts ==
    ASSUME IInv, NEW r \in Request
    PROVE  calls[r] \in Call /\ CallOK(calls[r], goal)
  BY DEF IInv

-----------------------------------------------------------------------------
(* The actions.                                                            *)

LEMMA InitIInv == CallsInit => IInv
  <1> SUFFICES ASSUME CallsInit PROVE IInv
    OBVIOUS
  <1>1. OwnToken(session)
    BY DEF CallsInit, NoSession, OwnToken, SessionData
  <1>2. NoCall \in Call
    BY NoCallOK DEF CallOK
  <1>3. calls \in [Request -> Call] /\ \A r \in Request : calls[r] = NoCall
    BY <1>2 DEF CallsInit
  <1> QED BY <1>1, <1>3, NoCallOK DEF IInv, CallsInit

LEMMA SignInIInv == ASSUME IInv, SignIn PROVE IInv'
  <1>1. session.id \in Nat /\ Len(SignIns) \in Nat /\ session.id < Len(SignIns)
    BY CallsAssumption DEF IInv, OwnToken, SessionData, SignIn
  <1>2. SignIns[session.id + 1] \in User
    BY <1>1, CallsAssumption
  <1>3. OwnToken(session')
    BY <1>1, <1>2 DEF SignIn, OwnToken, SessionData
  <1> QED BY <1>3 DEF IInv, SignIn

LEMMA ArriveIInv == ASSUME IInv, NEW r \in Request, Arrive(r) PROVE IInv'
  <1> DEFINE c == [NoCall EXCEPT !.at = "ready", !.session = session]
  <1>1. OwnToken(session) /\ session.user # NoUser
    BY DEF IInv, Arrive
  <1>2. /\ c \in Call /\ c.session = session /\ c.op = "none" /\ c.at = "ready"
        /\ c.effects = 0 /\ c.late = 0 /\ c.outcome = "none"
    BY <1>1, NoCallOK DEF NoCall, Call, OwnToken, CallOK
  <1>3. calls' = [calls EXCEPT ![r] = c] /\ UNCHANGED <<session, goal>>
    BY DEF Arrive
  <1> HIDE DEF c
  <1>4. CallOK(c, goal')
    BY <1>1, <1>2 DEF CallOK
  <1> QED BY <1>1, <1>3, <1>4, OneCall DEF IInv

LEMMA RespondIInv == ASSUME IInv, NEW r \in Request, Respond(r) PROVE IInv'
  <1>1. OwnToken(NoSession) /\ OwnToken(session) /\ OwnToken(calls[r].session)
    BY CallFacts DEF NoSession, SessionData, OwnToken, CallOK, IInv
  <1>2. CallOK(NoCall, goal') /\ OwnToken(session')
    BY <1>1, NoCallOK DEF Respond
  <1> QED BY <1>2, OneCall DEF Respond, IInv

LEMMA GetTokenIInv ==
    ASSUME IInv, NEW r \in Request, NEW op \in Operation,
           GetSystemClientToken(r, op)
    PROVE  IInv'
  <1> DEFINE e == calls[r]
             begun == [NoCall EXCEPT !.session = e.session, !.op = op]
             sent == [begun EXCEPT !.at = "sent", !.bearer = e.session.token]
             auth == [begun EXCEPT !.at = "auth"]
  <1>1. /\ e \in Call /\ CallOK(e, goal) /\ e.at = "ready"
        /\ e.session \in SessionData /\ OwnToken(e.session)
        /\ e.session.user # NoUser
    BY CallFacts DEF GetSystemClientToken, Call, CallOK
  <1>2. /\ begun \in Call /\ begun.session = e.session /\ begun.op = op
        /\ begun.effects = 0 /\ begun.late = 0 /\ begun.outcome = "none"
    BY <1>1, NoCallOK DEF NoCall, Call, CallOK
  <1>3. /\ \/ calls' = [calls EXCEPT ![r] = sent] /\ e.session.token # NoUser
           \/ calls' = [calls EXCEPT ![r] = auth]
        /\ UNCHANGED <<session, goal>>
    BY DEF GetSystemClientToken
  <1> HIDE DEF e, begun
  <1>4. ASSUME e.session.token # NoUser PROVE CallOK(sent, goal)
    <2>1. e.session.token = e.session.user /\ e.session.token \in User \cup {NoUser}
      BY <1>1, <1>4 DEF OwnToken, SessionData
    <2>2. /\ sent \in Call /\ sent.session = e.session /\ sent.op = op
          /\ sent.effects = 0 /\ sent.late = 0 /\ sent.outcome = "none"
          /\ sent.at = "sent" /\ sent.bearer = e.session.user
      BY <1>2, <2>1 DEF Call
    <2> HIDE DEF sent
    <2>3. ~Told(sent)
      BY <2>2 DEF Told
    <2>4. OwnToken(sent.session)
      BY <2>2, <1>1
    <2> QED BY <2>2, <2>3, <2>4, <1>1 DEF CallOK
  <1>5. CallOK(auth, goal)
    <2>1. /\ auth \in Call /\ auth.session = e.session /\ auth.op = op
          /\ auth.effects = 0 /\ auth.late = 0 /\ auth.outcome = "none"
          /\ auth.at = "auth"
      BY <1>2 DEF Call
    <2> HIDE DEF auth
    <2>2. ~Told(auth)
      BY <2>1 DEF Told
    <2>3. OwnToken(auth.session)
      BY <2>1, <1>1
    <2> QED BY <2>1, <2>2, <2>3, <1>1 DEF CallOK
  <1> HIDE DEF sent, auth
  <1> QED BY <1>3, <1>4, <1>5, OneCall DEF IInv

LEMMA SetTokenIInv == ASSUME IInv, NEW r \in Request, SetToken(r) PROVE IInv'
  <1> DEFINE e == calls[r]
             u == e.session.user
             c == [e EXCEPT !.at = "sent", !.bearer = u, !.session.token = u]
  <1>1. /\ e \in Call /\ CallOK(e, goal) /\ e.at = "auth"
        /\ e.session \in SessionData /\ u \in User \cup {NoUser} /\ u # NoUser
    BY CallFacts DEF SetToken, Call, CallOK, SessionData
  <1>2. calls' = [calls EXCEPT ![r] = c] /\ UNCHANGED <<session, goal>>
    BY DEF SetToken, Attempt, IInv
  <1> HIDE DEF e
  <1>3. /\ c \in Call /\ c.op = e.op /\ c.at = "sent" /\ c.bearer = u
        /\ c.effects = e.effects /\ c.late = e.late /\ c.outcome = e.outcome
        /\ c.session \in SessionData /\ c.session.user = u /\ c.session.token = u
    BY <1>1 DEF Call, SessionData
  <1> HIDE DEF u, c
  <1>4. CallOK(c, goal)
    BY <1>1, <1>3 DEF CallOK, OwnToken, Told
  <1> QED BY <1>2, <1>4, OneCall DEF IInv

LEMMA FailTokenIInv == ASSUME IInv, NEW r \in Request, FailToken(r) PROVE IInv'
  <1> DEFINE e == calls[r]
             c == [e EXCEPT !.at = "ready", !.outcome = "error"]
  <1>1. e \in Call /\ CallOK(e, goal) /\ e.at = "auth"
    BY CallFacts DEF FailToken
  <1>2. calls' = [calls EXCEPT ![r] = c] /\ UNCHANGED <<session, goal>>
    BY DEF FailToken, IInv
  <1> HIDE DEF e
  <1>3. /\ c \in Call /\ c.op = e.op /\ c.at = "ready" /\ c.session = e.session
        /\ c.effects = e.effects /\ c.late = e.late /\ c.outcome = "error"
    BY <1>1 DEF Call
  <1> HIDE DEF c
  <1>4. CallOK(c, goal)
    BY <1>1, <1>3 DEF CallOK, Told
  <1> QED BY <1>2, <1>4, OneCall DEF IInv

LEMMA TimeoutIInv == ASSUME IInv, NEW r \in Request, Timeout(r) PROVE IInv'
  <1> DEFINE e == calls[r]
             with(m) == [e EXCEPT !.at = "answered", !.status = "timeout",
                                  !.late = m]
  <1>1. /\ e \in Call /\ CallOK(e, goal) /\ e.at \in {"sent", "answered"}
    BY CallFacts DEF Timeout
  <1>2. PICK n \in {0, 1} : /\ n = 1 => e.at = "sent"
                            /\ calls' = [calls EXCEPT ![r] = with(e.late + n)]
    BY DEF Timeout, IInv
  <1>3. UNCHANGED <<session, goal>>
    BY DEF Timeout
  <1> DEFINE m == e.late + n
             c == with(m)
  <1> HIDE DEF e
  <1>5. e.effects \in Nat /\ e.late \in Nat /\ m \in Nat /\ m = e.late + n
    <2>1. e.effects \in Nat /\ e.late \in Nat
      BY <1>1 DEF Call
    <2> QED BY <2>1
  <1> HIDE DEF m
  <1>4. /\ c \in Call /\ c.op = e.op /\ c.at = "answered" /\ c.bearer = e.bearer
        /\ c.effects = e.effects /\ c.late = m /\ c.outcome = e.outcome
        /\ c.session = e.session /\ c.status = "timeout"
    BY <1>1, <1>5 DEF Call
  <1> HIDE DEF c, with
  <1>6. c.effects + c.late <= 1 \/ ~WithBody(c.op)
    <2>1. CASE n = 0
      BY <2>1, <1>1, <1>4, <1>5 DEF CallOK
    <2>2. CASE n = 1 /\ WithBody(e.op)
      BY <2>2, <1>1, <1>2, <1>4, <1>5 DEF CallOK
    <2> QED BY <2>1, <2>2, <1>4
  <1>7. Told(c) => Told(e)
    BY <1>4 DEF Told
  <1>8. CallOK(c, goal)
    BY <1>1, <1>4, <1>6, <1>7 DEF CallOK
  <1> QED BY <1>2, <1>3, <1>8, OneCall DEF IInv, c, m

LEMMA ReceiveIInv == ASSUME IInv, NEW r \in Request, Receive(r) PROVE IInv'
  <1> DEFINE e == calls[r]
             o == Outcome(e)
             next == e.tries + 1
             again == [e EXCEPT !.at = "sent", !.tries = next, !.status = "none"]
             done == [e EXCEPT !.at = "ready", !.outcome = o,
                               !.bearer = NoUser, !.tries = 0, !.status = "none"]
  <1>1. /\ e \in Call /\ CallOK(e, goal) /\ e.at = "answered"
    BY CallFacts DEF Receive, Again
  <1>2. /\ \/ ShouldRetry(e) /\ calls' = [calls EXCEPT ![r] = again]
           \/ calls' = [calls EXCEPT ![r] = done]
        /\ UNCHANGED <<session, goal>>
    <2>1. UNCHANGED <<session, goal>>
      BY DEF Receive, Again
    <2>2. CASE ShouldRetry(e)
      BY <2>1, <2>2 DEF Receive, Again
    <2>3. CASE ~ShouldRetry(e)
      BY <2>1, <2>3 DEF Receive, Again
    <2> QED BY <2>2, <2>3
  <1> HIDE DEF e
  <1>3. ASSUME ShouldRetry(e) PROVE CallOK(again, goal)
    <2>1. e.tries \in 0..2 /\ e.tries < 2 /\ ~WithBody(e.op) /\ next \in 0..2
      <3>1. e.tries \in 0..2
        BY <1>1 DEF Call
      <3>2. e.tries < 2 /\ ~WithBody(e.op)
        BY <1>3 DEF ShouldRetry
      <3> QED BY <3>1, <3>2
    <2> HIDE DEF next
    <2>2. /\ again \in Call /\ again.op = e.op /\ again.at = "sent"
          /\ again.bearer = e.bearer /\ again.effects = e.effects
          /\ again.late = e.late /\ again.outcome = e.outcome
          /\ again.session = e.session
      BY <1>1, <2>1 DEF Call
    <2> HIDE DEF again
    <2>3. Told(again) => Told(e)
      BY <2>2 DEF Told
    <2> QED BY <2>1, <2>2, <2>3, <1>1 DEF CallOK
  <1>4. CallOK(done, goal)
    <2>1. o \in {"result", "null", "not found", "error"}
      BY DEF Outcome
    <2>2. o \in {"result", "not found"} => e.status \in {"2xx", "404"}
      BY DEF Outcome
    <2>5. NoUser \in User \cup {NoUser} /\ 0 \in 0..2
      OBVIOUS
    <2> HIDE DEF o
    <2>3. /\ done \in Call /\ done.op = e.op /\ done.at = "ready"
          /\ done.effects = e.effects /\ done.late = e.late
          /\ done.outcome = o /\ done.session = e.session
      BY <1>1, <2>1, <2>5 DEF Call
    <2> HIDE DEF done
    <2>4. Told(done) => Told(e)
      BY <1>1, <2>2, <2>3 DEF Told
    <2> QED BY <2>3, <2>4, <1>1 DEF CallOK
  <1> HIDE DEF again, done
  <1> QED BY <1>2, <1>3, <1>4, OneCall DEF IInv

\* A call that takes effect.
LEMMA EffectIInv ==
    ASSUME IInv, NEW r \in Request, NEW c, CallOK(c, FALSE),
           WithBody(c.op) => c.effects + c.late = 0 /\ c.at \notin {"auth", "sent"},
           (c.op # "none" /\ Method(c.op) = "delete" /\ Told(c)) => ~goal',
           TakeEffect(r, c), UNCHANGED session
    PROVE  IInv'
  <1> DEFINE n == IF WithBody(c.op) THEN c.effects + 1 ELSE c.effects
             d == [c EXCEPT !.effects = n]
  <1>0. c \in Call /\ c.effects \in Nat /\ c.late \in Nat
    BY DEF CallOK, Call
  <1>1. c \in Call /\ c.effects \in Nat /\ c.late \in Nat /\ n \in Nat
    BY <1>0
  <1>3. calls' = [calls EXCEPT ![r] = d] /\ (goal' => goal) /\ goal' \in BOOLEAN
    BY DEF TakeEffect, IInv
  <1>4. n + c.late <= 1 \/ ~WithBody(c.op)
    BY <1>1
  <1>5. WithBody(c.op) \/ n = 0
    BY DEF CallOK
  <1> HIDE DEF n
  <1>2. /\ d \in Call /\ d.op = c.op /\ d.at = c.at /\ d.bearer = c.bearer
        /\ d.late = c.late /\ d.outcome = c.outcome /\ d.status = c.status
        /\ d.session = c.session /\ d.effects = n
    BY <1>1 DEF Call
  <1> HIDE DEF d
  <1>6. Told(d) => Told(c)
    BY <1>2 DEF Told
  <1>7. CallOK(d, goal')
    BY <1>2, <1>4, <1>5, <1>6 DEF CallOK
  <1> QED BY <1>3, <1>7, OneCall DEF IInv

LEMMA ServeIInv ==
    ASSUME IInv, NEW r \in Request, NEW status \in {"2xx", "404", "4xx", "5xx"},
           Serve(r, status)
    PROVE  IInv'
  <1> DEFINE e == calls[r]
             c == [e EXCEPT !.at = "answered", !.status = status]
  <1>1. e \in Call /\ CallOK(e, goal) /\ e.at = "sent" /\ UNCHANGED session
    BY CallFacts DEF Serve
  <1>2. \/ status \in {"2xx", "5xx"} /\ TakeEffect(r, c)
        \/ /\ status \in {"404", "4xx", "5xx"}
           /\ (status = "404" /\ Method(e.op) = "delete") => ~goal
           /\ calls' = [calls EXCEPT ![r] = c]
           /\ UNCHANGED goal
    BY DEF Serve
  <1> HIDE DEF e
  <1>3. /\ c \in Call /\ c.op = e.op /\ c.at = "answered" /\ c.bearer = e.bearer
        /\ c.late = e.late /\ c.outcome = e.outcome /\ c.status = status
        /\ c.session = e.session /\ c.effects = e.effects
    BY <1>1 DEF Call
  <1> HIDE DEF c
  <1>4. Told(c) => Told(e) \/ status \in {"2xx", "404"}
    BY <1>3 DEF Told
  <1>5. CASE status \in {"2xx", "5xx"} /\ TakeEffect(r, c)
    <2>1. CallOK(c, FALSE)
      BY <1>1, <1>3 DEF CallOK
    <2>2. WithBody(c.op) => c.effects + c.late = 0 /\ c.at \notin {"auth", "sent"}
      BY <1>1, <1>3 DEF CallOK
    <2>3. Method(c.op) = "delete" => ~goal'
      BY <1>5 DEF TakeEffect
    <2> QED BY <2>1, <2>2, <2>3, <1>1, <1>5, EffectIInv
  <1>6. CASE /\ status \in {"404", "4xx", "5xx"}
             /\ (status = "404" /\ Method(e.op) = "delete") => ~goal
             /\ calls' = [calls EXCEPT ![r] = c]
             /\ UNCHANGED goal
    <2>1. CallOK(c, goal)
      BY <1>1, <1>3, <1>4, <1>6 DEF CallOK
    <2> QED BY <2>1, <1>1, <1>6, OneCall DEF IInv
  <1> QED BY <1>2, <1>5, <1>6

LEMMA ServeLateIInv == ASSUME IInv, NEW r \in Request, ServeLate(r) PROVE IInv'
  <1> DEFINE e == calls[r]
             n == e.late - 1
             c == [e EXCEPT !.late = n]
  <1>1. /\ e \in Call /\ CallOK(e, goal) /\ e.late > 0 /\ e.late \in Nat
        /\ UNCHANGED session
    BY CallFacts DEF ServeLate, Call
  <1>2. \/ TakeEffect(r, c)
        \/ calls' = [calls EXCEPT ![r] = c] /\ UNCHANGED goal
    BY DEF ServeLate
  <1> HIDE DEF e
  <1>3. n \in Nat /\ n + 1 = e.late
    BY <1>1
  <1> HIDE DEF n
  <1>4. /\ c \in Call /\ c.op = e.op /\ c.at = e.at /\ c.bearer = e.bearer
        /\ c.late = n /\ c.outcome = e.outcome /\ c.status = e.status
        /\ c.session = e.session /\ c.effects = e.effects
    BY <1>1, <1>3 DEF Call
  <1> HIDE DEF c
  <1>5. e.effects \in Nat /\ (Told(c) => Told(e))
    BY <1>1, <1>4 DEF Told, Call
  <1>6. WithBody(c.op) => c.effects + c.late = 0 /\ c.at \notin {"auth", "sent"}
    BY <1>1, <1>3, <1>4, <1>5 DEF CallOK
  <1>7. CallOK(c, goal) /\ CallOK(c, FALSE)
    BY <1>1, <1>3, <1>4, <1>5, <1>6 DEF CallOK
  <1>8. CASE TakeEffect(r, c)
    <2>1. (c.op # "none" /\ Method(c.op) = "delete" /\ Told(c)) => ~goal'
      BY <1>7, <1>8 DEF TakeEffect
    <2> QED BY <2>1, <1>1, <1>6, <1>7, <1>8, EffectIInv
  <1>9. CASE calls' = [calls EXCEPT ![r] = c] /\ UNCHANGED goal
    BY <1>1, <1>7, <1>9, OneCall DEF IInv
  <1> QED BY <1>2, <1>8, <1>9

LEMMA NextIInv == IInv /\ [CallsNext]_callsVars => IInv'
  <1> SUFFICES ASSUME IInv, [CallsNext]_callsVars PROVE IInv'
    OBVIOUS
  <1>1. CASE SignIn
    BY <1>1, SignInIInv
  <1>2. ASSUME NEW r \in Request, Arrive(r) \/ Respond(r) \/ ServeLate(r)
        PROVE  IInv'
    BY <1>2, ArriveIInv, RespondIInv, ServeLateIInv
  <1>3. ASSUME NEW r \in Request, Client(r) PROVE IInv'
    BY <1>3, SetTokenIInv, FailTokenIInv, TimeoutIInv, ReceiveIInv DEF Client
  <1>4. ASSUME NEW r \in Request, NEW op \in Operation, GetSystemClientToken(r, op)
        PROVE  IInv'
    BY <1>4, GetTokenIInv
  <1>5. ASSUME NEW r \in Request, NEW status \in {"2xx", "404", "4xx", "5xx"},
               Serve(r, status)
        PROVE  IInv'
    BY <1>5, ServeIInv
  <1>6. CASE UNCHANGED callsVars
    BY <1>6 DEF callsVars, IInv
  <1> QED BY <1>1, <1>2, <1>3, <1>4, <1>5, <1>6 DEF CallsNext

-----------------------------------------------------------------------------
(* The theorems.                                                           *)

LEMMA Invariance == CallsSpec => []IInv
  BY InitIInv, NextIInv, PTL DEF CallsSpec

(***************************************************************************)
(* The session, the requests and their calls have their types; a call is   *)
(* retried twice at the most (retry in restClient.ts).                     *)
(***************************************************************************)
THEOREM TypeCorrect == CallsSpec => []CallsTypeOK
  <1>1. IInv => CallsTypeOK
    BY DEF IInv, OwnToken, CallsTypeOK
  <1> QED BY <1>1, Invariance, PTL

(***************************************************************************)
(* A write takes effect at most once, whatever timeouts and late arrivals  *)
(* there are (requestWithBody in restClient.ts).                           *)
(***************************************************************************)
THEOREM WritesAreNotRepeated == CallsSpec => []WritesOnce
  <1>1. IInv => WritesOnce
    <2> SUFFICES ASSUME IInv, NEW r \in Request PROVE calls[r].effects <= 1
      BY DEF WritesOnce
    <2>1. /\ calls[r].effects \in Nat /\ calls[r].late \in Nat
          /\ CallOK(calls[r], goal)
      BY CallFacts DEF Call
    <2> QED BY <2>1 DEF CallOK
  <1> QED BY <1>1, Invariance, PTL

(***************************************************************************)
(* A DELETE that is reported as done, or its goal as not found, is done    *)
(* (delete in restClient.ts).                                              *)
(***************************************************************************)
THEOREM ReportedDeletesAreDone == CallsSpec => []ReportedDeleteIsDone
  <1>1. IInv => ReportedDeleteIsDone
    BY DEF IInv, CallOK, Told, ReportedDeleteIsDone
  <1> QED BY <1>1, Invariance, PTL

(***************************************************************************)
(* No call carries another user's token, whichever request's copy of the   *)
(* session is written back last (getSystemClientToken).                    *)
(***************************************************************************)
THEOREM CallsSpeakForPrincipal == CallsSpec => []SpeaksForPrincipal
  <1>1. IInv => SpeaksForPrincipal
    BY DEF IInv, CallOK, SpeaksForPrincipal
  <1> QED BY <1>1, Invariance, PTL

-----------------------------------------------------------------------------
(* Refinement.                                                             *)

\* A call under way has told nothing yet; what has been told of a write, or is
\* about to be, says whether it happened, and that no attempt of it is left.
Kept(c) ==
    /\ c.op # "none" => c.op \in Operation
    /\ c.op = "none" => c.outcome = "none" /\ c.effects = 0 /\ c.late = 0
    /\ c.at = "idle" => c.op = "none"
    /\ c.at = "ready" => (c.op = "none" \/ c.outcome # "none")
    /\ c.at \in {"auth", "sent", "answered"} => c.op # "none" /\ c.outcome = "none"
    /\ c.outcome = "null" => Handles404(c.op)
    /\ WithBody(c.op) =>
          /\ (c.outcome = "result" \/ (c.at = "answered" /\ c.status = "2xx"))
                => c.effects = 1 /\ c.late = 0
          /\ (c.outcome = "not found" \/ (c.at = "answered" /\ c.status = "404"))
                => c.effects = 0 /\ c.late = 0

AllKept == \A r \in Request : Kept(calls[r])

LEMMA OperationFacts ==
    ASSUME NEW op \in Operation
    PROVE  /\ op # "none"
           /\ Handles404(op) => Method(op) = "get"
           /\ Kind(op) \in {"read", "write", "delete"}
           /\ Kind(op) = "write" <=> WithBody(op)
           /\ Kind(op) = "delete" <=> Method(op) = "delete"
           /\ Handles404(op) => Kind(op) = "read"
  <1>1. op \in DOMAIN Methods
    BY CallsAssumption
  <1>2. op # "none"
    BY <1>1 DEF Methods, Services, GoalService, PlanService, StepService,
                CoordinatorService, InfoService, SentencePlanAndDeliusService
  <1>3. ASSUME op \in DOMAIN CoordinatorService PROVE Methods[op] = "get"
    <2>1. PICK s \in Services : op \in DOMAIN s /\ Methods[op] = s[op]
      BY <1>1 DEF Methods
    <2>2. s = CoordinatorService
      BY <1>3, <2>1 DEF Services, GoalService, PlanService, StepService,
                CoordinatorService, InfoService, SentencePlanAndDeliusService
    <2> QED BY <1>3, <2>1, <2>2 DEF CoordinatorService
  <1>4. ASSUME Handles404(op) PROVE Method(op) = "get"
    BY <1>3, <1>4 DEF Handles404, Method
  <1>5. /\ WithBody(op) => Method(op) # "delete"
        /\ Method(op) = "get" => ~WithBody(op)
    BY DEF WithBody
  <1> QED BY <1>2, <1>4, <1>5 DEF Kind

\* No action but SignIn changes the call of more than one request.
Only(r) == \A q \in Request \ {r} : calls'[q] = calls[q]

LEMMA OnlyOne ==
    ASSUME NEW r \in Request, NEW d, calls \in [Request -> Call],
           calls' = [calls EXCEPT ![r] = d]
    PROVE  Only(r) /\ calls'[r] = d
  BY DEF Only

\* What ServiceCalls sees of the calls.
Asked == [r \in Request |-> Kind(calls[r].op)]
ToldOf(c) == IF c.outcome = "none" THEN "nothing" ELSE c.outcome
AllTold == [r \in Request |-> ToldOf(calls[r])]
Done == {r \in Request : calls[r].effects > 0}

PromiseStep == Promise!Next \/ UNCHANGED Promise!vars

LEMMA Seen ==
    ASSUME NEW r \in Request, Only(r)
    PROVE  /\ Asked' = [Asked EXCEPT ![r] = Kind(calls'[r].op)]
           /\ AllTold' = [AllTold EXCEPT ![r] = ToldOf(calls'[r])]
           /\ Done' = IF calls'[r].effects > 0 THEN Done \cup {r} ELSE Done \ {r}
           /\ AllKept /\ Kept(calls'[r]) => AllKept'
  <1>1. Asked' = [Asked EXCEPT ![r] = Kind(calls'[r].op)]
    BY DEF Asked, Only
  <1>2. AllTold' = [AllTold EXCEPT ![r] = ToldOf(calls'[r])]
    BY DEF AllTold, Only
  <1>3. Done' = IF calls'[r].effects > 0 THEN Done \cup {r} ELSE Done \ {r}
    BY DEF Done, Only
  <1>4. AllKept /\ Kept(calls'[r]) => AllKept'
    BY DEF AllKept, Only
  <1> QED BY <1>1, <1>2, <1>3, <1>4

\* The same is seen of the call.
LEMMA Quiet ==
    ASSUME NEW r \in Request, Only(r), UNCHANGED goal,
           calls'[r].op = calls[r].op, calls'[r].outcome = calls[r].outcome,
           (calls'[r].effects > 0) <=> (calls[r].effects > 0)
    PROVE  PromiseStep
  <1>1. UNCHANGED <<Asked, AllTold, Done>>
    BY Seen DEF Asked, AllTold, Done, ToldOf
  <1>2. UNCHANGED Promise!vars
    BY <1>1, Zenon DEF Promise!vars, Asked, AllTold, Done, ToldOf
  <1> QED BY <1>2 DEF PromiseStep

LEMMA AskStep ==
    ASSUME NEW r \in Request, Only(r), UNCHANGED goal,
           Asked[r] = "nothing" \/ AllTold[r] # "nothing",
           calls'[r].op \in Operation, calls'[r].outcome = "none",
           calls'[r].effects = 0
    PROVE  PromiseStep
  <1>1. /\ \E what \in {"read", "write", "delete"} :
               Asked' = [Asked EXCEPT ![r] = what]
        /\ AllTold' = [AllTold EXCEPT ![r] = "nothing"]
        /\ Done' = Done \ {r}
    BY Seen, OperationFacts DEF ToldOf
  <1>2. Promise!Ask(r)
    BY <1>1 DEF Promise!Ask, Promise!Free, Asked, AllTold, Done, ToldOf
  <1> QED BY <1>2 DEF PromiseStep, Promise!Next

LEMMA LeaveStep ==
    ASSUME NEW r \in Request, Only(r), UNCHANGED goal,
           Asked[r] = "nothing" \/ AllTold[r] # "nothing",
           calls'[r].op = "none", calls'[r].outcome = "none",
           calls'[r].effects = 0
    PROVE  PromiseStep
  <1>1. /\ Asked' = [Asked EXCEPT ![r] = "nothing"]
        /\ AllTold' = [AllTold EXCEPT ![r] = "nothing"]
        /\ Done' = Done \ {r}
    BY Seen DEF ToldOf, Kind
  <1>2. Promise!Leave(r)
    BY <1>1 DEF Promise!Leave, Promise!Free, Asked, AllTold, Done, ToldOf
  <1> QED BY <1>2 DEF PromiseStep, Promise!Next

LEMMA TellStep ==
    ASSUME NEW r \in Request, Only(r), UNCHANGED goal,
           NEW outcome \in {"result", "null", "not found", "error"},
           Asked[r] # "nothing", AllTold[r] = "nothing",
           outcome = "result" =>
               (Asked[r] = "write" => r \in Done) /\ (Asked[r] = "delete" => ~goal),
           outcome = "not found" =>
               (Asked[r] = "write" => r \notin Done) /\ (Asked[r] = "delete" => ~goal),
           outcome = "null" => Asked[r] = "read",
           calls'[r].op = calls[r].op, calls'[r].outcome = outcome,
           calls'[r].effects = calls[r].effects
    PROVE  PromiseStep
  <1>1. /\ Asked' = Asked /\ Done' = Done
        /\ AllTold' = [AllTold EXCEPT ![r] = outcome]
    BY Seen DEF ToldOf, Asked, Done
  <1>2. Promise!MayTell(r, outcome)
    BY DEF Promise!MayTell, Asked, Done
  <1>3. Promise!Tell(r, outcome)
    BY <1>1, <1>2 DEF Promise!Tell, Asked, AllTold, Done, ToldOf
  <1> QED BY <1>3 DEF PromiseStep, Promise!Next

LEMMA WriteStep ==
    ASSUME NEW r \in Request, Only(r), UNCHANGED goal,
           Asked[r] = "write", AllTold[r] \in {"nothing", "error"}, r \notin Done,
           calls'[r].op = calls[r].op, calls'[r].outcome = calls[r].outcome,
           calls'[r].effects > 0
    PROVE  PromiseStep
  <1>1. /\ Asked' = Asked /\ AllTold' = AllTold
        /\ Done' = Done \cup {r}
    BY Seen DEF ToldOf, Asked, AllTold
  <1>2. Promise!Write(r)
    BY <1>1 DEF Promise!Write, Asked, AllTold, Done, ToldOf
  <1> QED BY <1>2 DEF PromiseStep, Promise!Next

LEMMA DeleteStep ==
    ASSUME NEW r \in Request, Only(r), goal, ~goal',
           Asked[r] = "delete", AllTold[r] \in {"nothing", "error"},
           calls'[r].op = calls[r].op, calls'[r].outcome = calls[r].outcome,
           calls'[r].effects = calls[r].effects
    PROVE  PromiseStep
  <1>1. Asked' = Asked /\ AllTold' = AllTold /\ Done' = Done
    BY Seen DEF ToldOf, Asked, AllTold, Done
  <1>2. Promise!Delete(r)
    BY <1>1, Zenon DEF Promise!Delete, Asked, AllTold, Done, ToldOf
  <1> QED BY <1>2 DEF PromiseStep, Promise!Next

\* What is known of a request's call before a step.
LEMMA KeptFacts ==
    ASSUME IInv, AllKept, NEW r \in Request
    PROVE  /\ calls \in [Request -> Call] /\ calls[r] \in Call
           /\ CallOK(calls[r], goal) /\ Kept(calls[r])
           /\ calls[r].effects \in Nat /\ calls[r].late \in Nat
           /\ AllTold[r] = ToldOf(calls[r])
           /\ Asked[r] = Kind(calls[r].op)
           /\ (r \in Done) <=> (calls[r].effects > 0)
  <1>1. /\ calls \in [Request -> Call] /\ calls[r] \in Call
        /\ CallOK(calls[r], goal) /\ Kept(calls[r])
    BY CallFacts DEF IInv, AllKept
  <1>2. calls[r].effects \in Nat /\ calls[r].late \in Nat
    BY <1>1 DEF Call
  <1> QED BY <1>1, <1>2 DEF AllTold, Asked, Done

LEMMA ReadyIsFree ==
    ASSUME IInv, AllKept, NEW r \in Request, calls[r].at = "ready"
    PROVE  Asked[r] = "nothing" \/ AllTold[r] # "nothing"
  <1>1. calls[r].op = "none" \/ calls[r].outcome # "none"
    BY KeptFacts DEF Kept
  <1>2. calls[r].outcome \in {"none", "result", "null", "not found", "error"}
    BY KeptFacts DEF Call
  <1> QED BY <1>1, <1>2, KeptFacts DEF Kind, ToldOf

LEMMA ArriveKept ==
    ASSUME IInv, AllKept, NEW r \in Request, Arrive(r) PROVE AllKept' /\ PromiseStep
  <1> DEFINE d == [NoCall EXCEPT !.at = "ready", !.session = session]
  <1>1. calls' = [calls EXCEPT ![r] = d] /\ UNCHANGED goal /\ calls[r].at = "idle"
    BY DEF Arrive
  <1>2. /\ d.at = "ready" /\ d.op = "none" /\ d.outcome = "none"
        /\ d.effects = 0 /\ d.late = 0
    BY DEF NoCall
  <1> HIDE DEF d
  <1>3. Only(r) /\ calls'[r] = d
    BY <1>1, KeptFacts, OnlyOne
  <1>4. /\ calls[r].op = "none" /\ calls[r].outcome = "none"
        /\ calls[r].effects = 0
    BY <1>1, KeptFacts DEF Kept
  <1>5. Kept(d)
    <2>1. ~Handles404("none") \/ d.outcome # "null"
      BY <1>2
    <2> QED BY <1>2, <2>1 DEF Kept
  <1>6. AllKept'
    BY <1>3, <1>5, Seen
  <1>7. PromiseStep
    BY <1>1, <1>2, <1>3, <1>4, Quiet
  <1> QED BY <1>6, <1>7

LEMMA RespondKept ==
    ASSUME IInv, AllKept, NEW r \in Request, Respond(r) PROVE AllKept' /\ PromiseStep
  <1>1. calls' = [calls EXCEPT ![r] = NoCall] /\ UNCHANGED goal /\ calls[r].at = "ready"
    BY DEF Respond
  <1>2. Only(r) /\ calls'[r] = NoCall
    BY <1>1, KeptFacts, OnlyOne
  <1>3. /\ NoCall.at = "idle" /\ NoCall.op = "none" /\ NoCall.outcome = "none"
        /\ NoCall.effects = 0 /\ NoCall.late = 0
    BY DEF NoCall
  <1>4. Kept(NoCall)
    BY <1>3 DEF Kept
  <1>5. AllKept'
    BY <1>2, <1>4, Seen
  <1>6. PromiseStep
    BY <1>1, <1>2, <1>3, ReadyIsFree, LeaveStep
  <1> QED BY <1>5, <1>6

LEMMA GetTokenKept ==
    ASSUME IInv, AllKept, NEW r \in Request, NEW op \in Operation,
           GetSystemClientToken(r, op)
    PROVE  AllKept' /\ PromiseStep
  <1> DEFINE begun == [NoCall EXCEPT !.session = calls[r].session, !.op = op]
             token == calls[r].session.token
             sent == [begun EXCEPT !.at = "sent", !.bearer = token]
             auth == [begun EXCEPT !.at = "auth"]
  <1>1. /\ calls' = [calls EXCEPT ![r] = sent] \/ calls' = [calls EXCEPT ![r] = auth]
        /\ UNCHANGED goal /\ calls[r].at = "ready"
    BY DEF GetSystemClientToken
  <1>2. \A d \in {sent, auth} :
            /\ d.at \in {"sent", "auth"} /\ d.op = op /\ d.outcome = "none"
            /\ d.effects = 0
    BY DEF NoCall
  <1> HIDE DEF sent, auth
  <1>3. PICK d \in {sent, auth} : Only(r) /\ calls'[r] = d
    BY <1>1, KeptFacts, OnlyOne
  <1>4. Kept(d)
    BY <1>2, OperationFacts DEF Kept
  <1>5. AllKept'
    BY <1>3, <1>4, Seen
  <1>6. PromiseStep
    BY <1>1, <1>2, <1>3, ReadyIsFree, AskStep
  <1> QED BY <1>5, <1>6

LEMMA SetTokenKept ==
    ASSUME IInv, AllKept, NEW r \in Request, SetToken(r) PROVE AllKept' /\ PromiseStep
  <1> DEFINE c == calls[r]
             u == c.session.user
             d == [c EXCEPT !.at = "sent", !.bearer = u, !.session.token = u]
  <1>1. calls' = [calls EXCEPT ![r] = d] /\ UNCHANGED goal /\ c.at = "auth"
    BY KeptFacts DEF SetToken, Attempt
  <1>2. c \in Call /\ Kept(c)
    BY KeptFacts
  <1>3. Only(r) /\ calls'[r] = d
    BY <1>1, KeptFacts, OnlyOne
  <1> HIDE DEF c
  <1>4. /\ d.at = "sent" /\ d.op = c.op /\ d.outcome = c.outcome
        /\ d.effects = c.effects /\ d.late = c.late
    BY <1>2 DEF Call
  <1> HIDE DEF d
  <1>5. Kept(d)
    BY <1>1, <1>2, <1>4 DEF Kept
  <1>6. AllKept'
    BY <1>3, <1>5, Seen
  <1>7. PromiseStep
    BY <1>1, <1>3, <1>4, Quiet DEF c
  <1> QED BY <1>6, <1>7

LEMMA FailTokenKept ==
    ASSUME IInv, AllKept, NEW r \in Request, FailToken(r) PROVE AllKept' /\ PromiseStep
  <1> DEFINE c == calls[r]
             d == [c EXCEPT !.at = "ready", !.outcome = "error"]
  <1>1. calls' = [calls EXCEPT ![r] = d] /\ UNCHANGED goal /\ c.at = "auth"
    BY KeptFacts DEF FailToken
  <1>2. c \in Call /\ Kept(c)
    BY KeptFacts
  <1>3. Only(r) /\ calls'[r] = d
    BY <1>1, KeptFacts, OnlyOne
  <1> HIDE DEF c
  <1>4. /\ d.at = "ready" /\ d.op = c.op /\ d.outcome = "error"
        /\ d.effects = c.effects
    BY <1>2 DEF Call
  <1> HIDE DEF d
  <1>5. c.op \in Operation /\ c.op # "none" /\ c.outcome = "none"
    BY <1>1, <1>2 DEF Kept
  <1>6. Kept(d)
    BY <1>4, <1>5 DEF Kept
  <1>7. AllKept'
    BY <1>3, <1>6, Seen
  <1>8. Asked[r] # "nothing" /\ AllTold[r] = "nothing"
    BY <1>5, KeptFacts, OperationFacts DEF c, ToldOf
  <1>9. PromiseStep
    BY <1>1, <1>3, <1>4, <1>8, TellStep DEF c
  <1> QED BY <1>7, <1>9

LEMMA TimeoutKept ==
    ASSUME IInv, AllKept, NEW r \in Request, Timeout(r) PROVE AllKept' /\ PromiseStep
  <1> DEFINE c == calls[r]
             with(m) == [c EXCEPT !.at = "answered", !.status = "timeout", !.late = m]
  <1>1. PICK n \in {0, 1} : calls' = [calls EXCEPT ![r] = with(c.late + n)]
    BY KeptFacts DEF Timeout
  <1>2. UNCHANGED goal /\ c.at \in {"sent", "answered"}
    BY DEF Timeout
  <1> DEFINE d == with(c.late + n)
  <1>3. c \in Call /\ Kept(c)
    BY KeptFacts
  <1>4. Only(r) /\ calls'[r] = d
    BY <1>1, KeptFacts, OnlyOne
  <1> HIDE DEF c
  <1>5. /\ d.at = "answered" /\ d.status = "timeout" /\ d.op = c.op
        /\ d.outcome = c.outcome /\ d.effects = c.effects
    BY <1>3 DEF Call
  <1> HIDE DEF d
  <1>6. Kept(d)
    BY <1>2, <1>3, <1>5 DEF Kept
  <1>7. AllKept'
    BY <1>4, <1>6, Seen
  <1>8. PromiseStep
    BY <1>2, <1>4, <1>5, Quiet DEF c
  <1> QED BY <1>7, <1>8

LEMMA ReceiveKept ==
    ASSUME IInv, AllKept, NEW r \in Request, Receive(r) PROVE AllKept' /\ PromiseStep
  <1> DEFINE c == calls[r]
             o == Outcome(c)
             next == c.tries + 1
             again == [c EXCEPT !.at = "sent", !.tries = next, !.status = "none"]
             ended == [c EXCEPT !.at = "ready", !.outcome = o,
                                !.bearer = NoUser, !.tries = 0, !.status = "none"]
  <1>1. /\ \/ ShouldRetry(c) /\ calls' = [calls EXCEPT ![r] = again]
           \/ calls' = [calls EXCEPT ![r] = ended]
        /\ UNCHANGED goal /\ c.at = "answered"
    <2>1. CASE ShouldRetry(c)
      BY <2>1 DEF Receive, Again
    <2>2. CASE ~ShouldRetry(c)
      BY <2>2 DEF Receive, Again
    <2> QED BY <2>1, <2>2
  <1>2. c \in Call /\ Kept(c) /\ CallOK(c, goal)
    BY KeptFacts
  <1>3. c.op \in Operation /\ c.op # "none" /\ c.outcome = "none"
    BY <1>1, <1>2 DEF Kept
  <1>4. /\ o \in {"result", "null", "not found", "error"}
        /\ o = "result" => c.status = "2xx"
        /\ o = "not found" => c.status = "404"
        /\ o = "null" => Handles404(c.op)
    BY DEF Outcome
  <1> HIDE DEF c, o
  <1>5. CASE ShouldRetry(c) /\ calls' = [calls EXCEPT ![r] = again]
    <2>1. Only(r) /\ calls'[r] = again
      BY <1>5, KeptFacts, OnlyOne
    <2>2. /\ again.at = "sent" /\ again.op = c.op /\ again.outcome = c.outcome
          /\ again.effects = c.effects /\ again.late = c.late
      BY <1>2 DEF Call
    <2>3. ~WithBody(c.op)
      BY <1>5 DEF ShouldRetry
    <2> HIDE DEF again
    <2>4. Kept(again)
      BY <1>3, <2>2, <2>3 DEF Kept
    <2>5. AllKept'
      BY <2>1, <2>4, Seen
    <2>6. PromiseStep
      BY <1>1, <2>1, <2>2, Quiet DEF c
    <2> QED BY <2>5, <2>6
  <1>6. CASE calls' = [calls EXCEPT ![r] = ended]
    <2>1. Only(r) /\ calls'[r] = ended
      BY <1>6, KeptFacts, OnlyOne
    <2>2. /\ ended.at = "ready" /\ ended.op = c.op /\ ended.outcome = o
          /\ ended.effects = c.effects /\ ended.late = c.late
      BY <1>2 DEF Call
    <2> HIDE DEF ended
    <2>3. /\ WithBody(c.op) /\ o = "result" => c.effects = 1 /\ c.late = 0
          /\ WithBody(c.op) /\ o = "not found" => c.effects = 0 /\ c.late = 0
      BY <1>1, <1>2, <1>4 DEF Kept
    <2>4. Kept(ended)
      BY <1>3, <1>4, <2>2, <2>3 DEF Kept
    <2>5. AllKept'
      BY <2>1, <2>4, Seen
    <2>6. Asked[r] # "nothing" /\ AllTold[r] = "nothing"
      BY <1>3, KeptFacts, OperationFacts DEF c, ToldOf
    <2>7. /\ Asked[r] = "write" => WithBody(c.op)
          /\ Asked[r] = "delete" => Method(c.op) = "delete"
          /\ Handles404(c.op) => Asked[r] = "read"
          /\ (r \in Done) <=> (c.effects > 0)
      BY <1>3, KeptFacts, OperationFacts DEF c
    <2>8. Method(c.op) = "delete" /\ o \in {"result", "not found"} => ~goal
      BY <1>1, <1>2, <1>3, <1>4 DEF CallOK, Told
    <2>9. /\ (WithBody(c.op) /\ o = "result") => r \in Done
          /\ (WithBody(c.op) /\ o = "not found") => r \notin Done
      <3>1. CASE WithBody(c.op) /\ o = "result"
        <4>1. c.effects = 1
          BY <2>3, <3>1
        <4>2. c.effects > 0
          BY <4>1
        <4> QED BY <2>7, <3>1, <4>2
      <3>2. CASE WithBody(c.op) /\ o = "not found"
        <4>1. c.effects = 0
          BY <2>3, <3>2
        <4>2. ~(c.effects > 0)
          BY <4>1
        <4> QED BY <2>7, <3>2, <4>2
      <3> QED BY <3>1, <3>2
    <2>10. /\ o = "result" =>
                (Asked[r] = "write" => r \in Done) /\ (Asked[r] = "delete" => ~goal)
           /\ o = "not found" =>
                (Asked[r] = "write" => r \notin Done) /\ (Asked[r] = "delete" => ~goal)
           /\ o = "null" => Asked[r] = "read"
      <3>1. o = "result" =>
                (Asked[r] = "write" => r \in Done) /\ (Asked[r] = "delete" => ~goal)
        BY <2>7, <2>8, <2>9
      <3>2. o = "not found" =>
                (Asked[r] = "write" => r \notin Done) /\ (Asked[r] = "delete" => ~goal)
        BY <2>7, <2>8, <2>9
      <3>3. o = "null" => Asked[r] = "read"
        BY <1>4, <2>7
      <3> QED BY <3>1, <3>2, <3>3
    <2>11. PromiseStep
      BY <1>1, <1>4, <2>1, <2>2, <2>6, <2>10, TellStep DEF c
    <2> QED BY <2>5, <2>11
  <1> HIDE DEF again, ended
  <1> QED BY <1>1, <1>5, <1>6

\* A write that happens, or a delete; c is the call but for the answer, or for
\* the attempt that was late.
LEMMA EffectKept ==
    ASSUME IInv, AllKept, NEW r \in Request, NEW c \in Call,
           Can(c.op), TakeEffect(r, c),
           c.op = calls[r].op, c.op \in Operation, c.outcome = calls[r].outcome,
           c.effects = calls[r].effects,
           WithBody(c.op) \/ Method(c.op) = "delete" => c.outcome \in {"none", "error"},
           WithBody(c.op) => c.effects = 0,
           c.at # "idle",
           c.at = "ready" => c.outcome # "none",
           c.at \in {"auth", "sent", "answered"} => c.outcome = "none",
           c.outcome = "null" => Handles404(c.op),
           WithBody(c.op) /\ c.at = "answered" => c.late = 0 /\ c.status # "404"
    PROVE  AllKept' /\ PromiseStep
  <1> DEFINE n == IF WithBody(c.op) THEN c.effects + 1 ELSE c.effects
             d == [c EXCEPT !.effects = n]
  <1>1. calls' = [calls EXCEPT ![r] = d] /\ goal' = (goal /\ Method(c.op) # "delete")
    BY DEF TakeEffect
  <1>2. Only(r) /\ calls'[r] = d
    BY <1>1, KeptFacts, OnlyOne
  <1>3. c.effects \in Nat /\ c.late \in Nat
    BY DEF Call
  <1>4. n \in Nat /\ (WithBody(c.op) => n = 1) /\ (~WithBody(c.op) => n = c.effects)
    BY <1>3
  <1> HIDE DEF n
  <1>5. /\ d.op = c.op /\ d.at = c.at /\ d.outcome = c.outcome /\ d.late = c.late
        /\ d.status = c.status /\ d.effects = n
    BY DEF Call
  <1> HIDE DEF d
  <1>6. c.op # "none" /\ (Method(c.op) = "delete" => ~WithBody(c.op))
    BY OperationFacts
  <1>7. Kept(d)
    BY <1>4, <1>5, <1>6 DEF Kept
  <1>8. AllKept'
    BY <1>2, <1>7, Seen
  <1>9. /\ AllTold[r] = ToldOf(calls[r])
        /\ (Asked[r] = "write") <=> WithBody(c.op)
        /\ (Asked[r] = "delete") <=> (Method(c.op) = "delete")
        /\ (r \in Done) <=> (c.effects > 0)
    BY KeptFacts, OperationFacts
  <1>10. goal \in BOOLEAN
    BY DEF IInv
  <1>11. CASE WithBody(c.op)
    <2>1. AllTold[r] \in {"nothing", "error"} /\ r \notin Done
      BY <1>9, <1>11 DEF ToldOf
    <2>2. calls'[r].effects > 0 /\ UNCHANGED goal
      BY <1>1, <1>2, <1>4, <1>5, <1>6, <1>10, <1>11
    <2>3. PromiseStep
      BY <1>2, <1>5, <1>9, <1>11, <2>1, <2>2, WriteStep
    <2> QED BY <1>8, <2>3
  <1>12. CASE Method(c.op) = "delete"
    <2>1. goal /\ ~goal'
      BY <1>1, <1>12 DEF Can
    <2>2. AllTold[r] \in {"nothing", "error"}
      BY <1>9, <1>12 DEF ToldOf
    <2>3. calls'[r].effects = calls[r].effects
      BY <1>2, <1>4, <1>5, <1>6, <1>12
    <2>4. PromiseStep
      BY <1>2, <1>5, <1>9, <1>12, <2>1, <2>2, <2>3, DeleteStep
    <2> QED BY <1>8, <2>4
  <1>13. CASE ~WithBody(c.op) /\ Method(c.op) # "delete"
    <2>1. UNCHANGED goal /\ calls'[r].effects = calls[r].effects
      BY <1>1, <1>2, <1>4, <1>5, <1>10, <1>13
    <2>2. PromiseStep
      BY <1>2, <1>5, <2>1, Quiet
    <2> QED BY <1>8, <2>2
  <1> QED BY <1>11, <1>12, <1>13

LEMMA ServeKept ==
    ASSUME IInv, AllKept, NEW r \in Request,
           NEW status \in {"2xx", "404", "4xx", "5xx"}, Serve(r, status)
    PROVE  AllKept' /\ PromiseStep
  <1> DEFINE c == calls[r]
             d == [c EXCEPT !.at = "answered", !.status = status]
  <1>1. /\ c.at = "sent"
        /\ \/ status \in {"2xx", "5xx"} /\ Can(c.op) /\ TakeEffect(r, d)
           \/ /\ status \in {"404", "4xx", "5xx"}
              /\ calls' = [calls EXCEPT ![r] = d]
              /\ UNCHANGED goal
    BY DEF Serve
  <1>2. /\ c \in Call /\ Kept(c) /\ CallOK(c, goal)
        /\ c.effects \in Nat /\ c.late \in Nat
    BY KeptFacts
  <1> HIDE DEF c
  <1>3. /\ d \in Call /\ d.at = "answered" /\ d.op = c.op /\ d.status = status
        /\ d.outcome = c.outcome /\ d.effects = c.effects /\ d.late = c.late
    BY <1>2 DEF Call
  <1> HIDE DEF d
  <1>4. c.op \in Operation /\ c.op # "none" /\ c.outcome = "none"
    BY <1>1, <1>2 DEF Kept
  <1>5. WithBody(c.op) => c.effects = 0 /\ c.late = 0
    <2>1. WithBody(c.op) => c.effects + c.late = 0
      BY <1>1, <1>2 DEF CallOK
    <2> QED BY <1>2, <2>1
  <1>6. CASE status \in {"2xx", "5xx"} /\ Can(c.op) /\ TakeEffect(r, d)
    <2>1. /\ Can(d.op) /\ TakeEffect(r, d) /\ d \in Call
          /\ d.op = calls[r].op /\ d.op \in Operation
          /\ d.outcome = calls[r].outcome /\ d.effects = calls[r].effects
      BY <1>3, <1>4, <1>6 DEF c
    <2>2. /\ d.outcome = "none" /\ d.at = "answered" /\ d.status # "404"
          /\ WithBody(d.op) => d.effects = 0 /\ d.late = 0
      BY <1>3, <1>4, <1>5, <1>6
    <2> QED BY <2>1, <2>2, EffectKept
  <1>7. CASE /\ status \in {"404", "4xx", "5xx"}
             /\ calls' = [calls EXCEPT ![r] = d]
             /\ UNCHANGED goal
    <2>1. Only(r) /\ calls'[r] = d
      BY <1>7, KeptFacts, OnlyOne
    <2>2. Kept(d)
      BY <1>3, <1>4, <1>5, <1>7 DEF Kept
    <2>3. AllKept'
      BY <2>1, <2>2, Seen
    <2>4. PromiseStep
      BY <1>3, <1>7, <2>1, Quiet DEF c
    <2> QED BY <2>3, <2>4
  <1> QED BY <1>1, <1>6, <1>7

LEMMA ServeLateKept ==
    ASSUME IInv, AllKept, NEW r \in Request, ServeLate(r) PROVE AllKept' /\ PromiseStep
  <1> DEFINE c == calls[r]
             n == c.late - 1
             d == [c EXCEPT !.late = n]
  <1>1. /\ c.late > 0
        /\ \/ Can(d.op) /\ TakeEffect(r, d)
           \/ calls' = [calls EXCEPT ![r] = d] /\ UNCHANGED goal
    BY DEF ServeLate
  <1>0. c.effects \in Nat /\ c.late \in Nat
    BY KeptFacts
  <1>2. /\ c \in Call /\ Kept(c) /\ CallOK(c, goal)
        /\ c.outcome \in {"none", "result", "null", "not found", "error"}
        /\ c.at \in {"idle", "ready", "auth", "sent", "answered"}
    BY KeptFacts DEF Call
  <1> HIDE DEF c
  <1>3. n \in Nat /\ n + 1 = c.late
    BY <1>0, <1>1
  <1> HIDE DEF n
  <1>4. /\ d \in Call /\ d.at = c.at /\ d.op = c.op /\ d.status = c.status
        /\ d.outcome = c.outcome /\ d.effects = c.effects /\ d.late = n
    BY <1>2, <1>3 DEF Call
  <1> HIDE DEF d
  <1>5. c.late # 0 /\ c.op # "none" /\ c.op \in Operation /\ c.at # "idle"
    <2>1. c.late # 0
      BY <1>0, <1>1
    <2> QED BY <2>1, <1>2 DEF Kept
  <1>6. WithBody(c.op) => c.effects = 0 /\ c.late = 1
    <2>1. WithBody(c.op) => c.effects + c.late <= 1
      BY <1>2 DEF CallOK
    <2> QED BY <2>1, <1>0, <1>1
  <1>7. /\ c.at = "ready" => c.outcome # "none"
        /\ c.at \in {"auth", "sent", "answered"} => c.outcome = "none"
        /\ c.outcome = "null" => Handles404(c.op)
        /\ WithBody(c.op) => /\ c.outcome \notin {"result", "not found"}
                             /\ c.at = "answered" => c.status \notin {"2xx", "404"}
    BY <1>2, <1>5 DEF Kept
  <1>8. /\ c.outcome = "null" => ~WithBody(c.op) /\ Method(c.op) # "delete"
        /\ Method(c.op) = "delete" => ~WithBody(c.op)
    BY <1>5, <1>7, OperationFacts
  <1>9. CASE Can(d.op) /\ TakeEffect(r, d)
    <2>1. /\ d.op = calls[r].op /\ d.op \in Operation
          /\ d.outcome = calls[r].outcome /\ d.effects = calls[r].effects
      BY <1>4, <1>5 DEF c
    <2>2. WithBody(d.op) => d.effects = 0 /\ d.late = 0 /\ d.outcome \in {"none", "error"}
      <3> SUFFICES ASSUME WithBody(c.op)
                   PROVE  c.effects = 0 /\ n = 0 /\ c.outcome \in {"none", "error"}
        BY <1>4
      <3>1. c.effects = 0 /\ n = 0
        BY <1>3, <1>6
      <3> QED BY <1>2, <1>7, <1>8, <3>1
    <2>3. Method(d.op) = "delete" => d.outcome \in {"none", "error"}
      BY <1>2, <1>4, <1>5, <1>8, <1>9 DEF CallOK, Told, Can
    <2>4. /\ d.at # "idle" /\ (d.at = "ready" => d.outcome # "none")
          /\ d.at \in {"auth", "sent", "answered"} => d.outcome = "none"
          /\ d.outcome = "null" => Handles404(d.op)
          /\ WithBody(d.op) /\ d.at = "answered" => d.status # "404"
      BY <1>4, <1>5, <1>7
    <2>5. WithBody(d.op) \/ Method(d.op) = "delete" => d.outcome \in {"none", "error"}
      BY <2>2, <2>3
    <2>6. WithBody(d.op) /\ d.at = "answered" => d.late = 0 /\ d.status # "404"
      BY <2>2, <2>4
    <2>7. d \in Call /\ (WithBody(d.op) => d.effects = 0)
      BY <1>4, <2>2
    <2> QED BY <1>9, <2>1, <2>4, <2>5, <2>6, <2>7, EffectKept
  <1>10. CASE calls' = [calls EXCEPT ![r] = d] /\ UNCHANGED goal
    <2>1. Only(r) /\ calls'[r] = d
      BY <1>10, KeptFacts, OnlyOne
    <2>2. Kept(d)
      BY <1>4, <1>5, <1>7 DEF Kept
    <2>3. AllKept'
      BY <2>1, <2>2, Seen
    <2>4. PromiseStep
      BY <1>4, <1>10, <2>1, Quiet DEF c
    <2> QED BY <2>3, <2>4
  <1> QED BY <1>1, <1>9, <1>10

LEMMA NextKept ==
    ASSUME IInv, AllKept, [CallsNext]_callsVars PROVE AllKept' /\ PromiseStep
  <1>1. CASE UNCHANGED <<calls, goal>>
    BY <1>1 DEF AllKept, PromiseStep, Promise!vars
  <1>2. ASSUME NEW r \in Request, Arrive(r) \/ Respond(r) \/ ServeLate(r)
        PROVE  AllKept' /\ PromiseStep
    BY <1>2, ArriveKept, RespondKept, ServeLateKept
  <1>3. ASSUME NEW r \in Request, Client(r) PROVE AllKept' /\ PromiseStep
    BY <1>3, SetTokenKept, FailTokenKept, TimeoutKept, ReceiveKept DEF Client
  <1>4. ASSUME NEW r \in Request, NEW op \in Operation, GetSystemClientToken(r, op)
        PROVE  AllKept' /\ PromiseStep
    BY <1>4, GetTokenKept
  <1>5. ASSUME NEW r \in Request, NEW status \in {"2xx", "404", "4xx", "5xx"},
               Serve(r, status)
        PROVE  AllKept' /\ PromiseStep
    BY <1>5, ServeKept
  <1> QED BY <1>1, <1>2, <1>3, <1>4, <1>5 DEF CallsNext, SignIn, callsVars

(***************************************************************************)
(* The attempts, timeouts and retries of restClient.ts add up to calls     *)
(* that happen once or not at all, and are told as they were: RestCalls    *)
(* implements ServiceCalls, for any requests and operations.               *)
(***************************************************************************)
THEOREM PromiseIsKept == CallsSpec => CallsKeepPromise
  <1>1. CallsInit => AllKept /\ Promise!Init
    <2> SUFFICES ASSUME CallsInit PROVE AllKept /\ Promise!Init
      OBVIOUS
    <2>1. /\ NoCall.at = "idle" /\ NoCall.op = "none" /\ NoCall.outcome = "none"
          /\ NoCall.effects = 0 /\ NoCall.late = 0
      BY DEF NoCall
    <2>2. \A r \in Request : calls[r] = NoCall
      BY DEF CallsInit
    <2>3. Kept(NoCall)
      BY <2>1 DEF Kept
    <2> QED BY <2>1, <2>2, <2>3 DEF AllKept, Promise!Init, Kind, CallsInit
  <1>2. IInv /\ AllKept /\ [CallsNext]_callsVars
           => AllKept' /\ [Promise!Next]_(Promise!vars)
    BY NextKept DEF PromiseStep
  <1> QED BY <1>1, <1>2, Invariance, PTL DEF CallsSpec, CallsKeepPromise, Promise!Spec

-----------------------------------------------------------------------------
(* Progress.                                                               *)

LEMMA AheadFacts ==
    ASSUME NEW c \in Call
    PROVE  /\ c.tries \in 0..2 /\ Ahead(c) \in 0..9
           /\ c.at = "auth" => Ahead(c) = 9
           /\ c.at = "sent" => Ahead(c) = 3 * (2 - c.tries) + 2
           /\ (c.at = "answered" /\ c.status # "timeout")
                 => Ahead(c) = 3 * (2 - c.tries) + 1
           /\ (c.at = "answered" /\ c.status = "timeout")
                 => Ahead(c) = 3 * (2 - c.tries)
  <1>1. c.tries \in 0..2
    BY DEF Call
  <1> QED BY <1>1 DEF Ahead

LEMMA SameAhead ==
    ASSUME NEW c, NEW d, d.at = c.at, d.status = c.status, d.tries = c.tries
    PROVE  Ahead(d) = Ahead(c)
  BY DEF Ahead

\* Each step of the client brings the call closer to its end.
LEMMA ClientGetsOn ==
    ASSUME IInv, NEW r \in Request, Client(r), Under(r)'
    PROVE  Ahead(calls'[r]) < Ahead(calls[r])
  <1> DEFINE c == calls[r]
             d == calls'[r]
  <1>1. c \in Call /\ calls \in [Request -> Call]
    BY CallFacts DEF IInv
  <1>2. CASE SetToken(r)
    <2>1. /\ c.at = "auth" /\ calls' \in [Request -> Call]
          /\ d.at = "sent"
      BY <1>1, <1>2, SetTokenIInv DEF SetToken, Attempt, IInv, Call
    <2>2. d \in Call
      BY <2>1
    <2> HIDE DEF c, d
    <2>3. Ahead(c) = 9 /\ Ahead(d) = 3 * (2 - d.tries) + 2 /\ d.tries \in 0..2
      BY <1>1, <2>1, <2>2, AheadFacts
    <2> QED BY <2>3 DEF c, d
  <1>3. CASE FailToken(r)
    BY <1>1, <1>3 DEF FailToken, Under, Call
  <1>4. CASE Timeout(r)
    <2>1. PICK n \in {0, 1} :
             calls' = [calls EXCEPT ![r].at = "answered", ![r].status = "timeout",
                                    ![r].late = @ + n]
      BY <1>4 DEF Timeout
    <2>2. /\ d.at = "answered" /\ d.status = "timeout" /\ d.tries = c.tries
          /\ c.at = "sent" \/ (c.at = "answered" /\ c.status # "timeout")
      BY <1>1, <1>4, <2>1 DEF Timeout, Call
    <2>3. d \in Call
      BY <1>4, TimeoutIInv DEF IInv
    <2> HIDE DEF c, d
    <2>4. /\ Ahead(d) = 3 * (2 - c.tries) /\ c.tries \in 0..2
          /\ Ahead(c) \in {3 * (2 - c.tries) + 1, 3 * (2 - c.tries) + 2}
      BY <1>1, <2>2, <2>3, AheadFacts
    <2> QED BY <2>4 DEF c, d
  <1>5. CASE Receive(r)
    <2> DEFINE next == c.tries + 1
               again == [c EXCEPT !.at = "sent", !.tries = next, !.status = "none"]
    <2>1. c.at = "answered" /\ d \in Call
      BY <1>5, ReceiveIInv DEF Receive, IInv
    <2>2. CASE ShouldRetry(c)
      <3>1. d = again
        BY <1>1, <1>5, <2>2 DEF Receive, Again
      <3> HIDE DEF c, next
      <3>2. again.at = "sent" /\ again.tries = next
        BY <1>1 DEF Call
      <3>3. Ahead(d) = 3 * (2 - next) + 2
        BY <2>1, <3>1, <3>2, AheadFacts
      <3>4. /\ c.tries \in 0..2 /\ Ahead(c) \in 0..9
            /\ Ahead(c) \in {3 * (2 - c.tries), 3 * (2 - c.tries) + 1}
        BY <1>1, <2>1, AheadFacts
      <3> HIDE DEF d
      <3>5. Ahead(d) < Ahead(c)
        BY <3>3, <3>4 DEF next
      <3> QED BY <3>5 DEF c, d
    <2>3. CASE ~ShouldRetry(c)
      BY <1>1, <1>5, <2>3 DEF Receive, Under, Call
    <2> QED BY <2>2, <2>3
  <1> QED BY <1>2, <1>3, <1>4, <1>5 DEF Client

LEMMA OthersDoNotDelay ==
    ASSUME IInv, NEW r \in Request, Under(r), Under(r)', CallsNext \/ UNCHANGED callsVars
    PROVE  Ahead(calls'[r]) <= Ahead(calls[r])
  <1>1. /\ calls[r] \in Call /\ calls \in [Request -> Call]
        /\ Ahead(calls[r]) \in 0..9
    BY CallFacts, AheadFacts DEF IInv
  <1>2. CASE calls'[r] = calls[r]
    BY <1>1, <1>2
  <1>3. CASE Client(r)
    <2>1. calls'[r] \in Call
      BY <1>3, NextIInv DEF IInv, CallsNext
    <2>2. Ahead(calls'[r]) \in 0..9
      BY <2>1, AheadFacts
    <2> QED BY <1>1, <1>3, <2>2, ClientGetsOn
  <1>4. CASE ServeLate(r)
    <2>1. \E effects : \/ calls'[r] = [[calls[r] EXCEPT !.late = @ - 1]
                                            EXCEPT !.effects = effects]
                       \/ calls'[r] = [calls[r] EXCEPT !.late = @ - 1]
      BY <1>1, <1>4 DEF ServeLate, TakeEffect
    <2>2. /\ calls'[r].at = calls[r].at /\ calls'[r].status = calls[r].status
          /\ calls'[r].tries = calls[r].tries
      BY <1>1, <2>1 DEF Call
    <2> QED BY <1>1, <2>2, SameAhead
  <1>5. ASSUME NEW status \in {"2xx", "404", "4xx", "5xx"}, Serve(r, status)
        PROVE  Ahead(calls'[r]) <= Ahead(calls[r])
    <2> DEFINE answered == [calls[r] EXCEPT !.at = "answered", !.status = status]
    <2>1. \E effects : calls'[r] \in {answered, [answered EXCEPT !.effects = effects]}
      BY <1>1, <1>5 DEF Serve, TakeEffect
    <2>2. /\ calls'[r].at = "answered" /\ calls'[r].status = status
          /\ calls'[r].tries = calls[r].tries
      BY <1>1, <2>1 DEF Call
    <2>3. calls[r].at = "sent"
      BY <1>5 DEF Serve
    <2>4. calls'[r] \in Call
      BY <1>5, ServeIInv DEF IInv
    <2>5. /\ Ahead(calls'[r]) = 3 * (2 - calls[r].tries) + 1
          /\ Ahead(calls[r]) = 3 * (2 - calls[r].tries) + 2
          /\ calls[r].tries \in 0..2
      BY <1>1, <2>2, <2>3, <2>4, AheadFacts
    <2> QED BY <2>5
  <1>6. CASE \/ Arrive(r) \/ Respond(r)
             \/ \E op \in Operation : GetSystemClientToken(r, op)
    BY <1>6 DEF Arrive, Respond, GetSystemClientToken, Under
  <1>7. ASSUME NEW q \in Request, q # r,
               \/ Arrive(q) \/ Respond(q) \/ Client(q) \/ ServeLate(q)
               \/ \E op \in Operation : GetSystemClientToken(q, op)
               \/ \E status \in {"2xx", "404", "4xx", "5xx"} : Serve(q, status)
        PROVE  calls'[r] = calls[r]
    <2>1. CASE Client(q)
      BY <1>1, <1>7, <2>1 DEF Client, SetToken, Attempt, FailToken, Timeout, Receive
    <2>2. CASE ServeLate(q) \/ \E status \in {"2xx", "404", "4xx", "5xx"} : Serve(q, status)
      BY <1>1, <1>7, <2>2 DEF ServeLate, Serve, TakeEffect
    <2>3. CASE \/ Arrive(q) \/ Respond(q)
               \/ \E op \in Operation : GetSystemClientToken(q, op)
      BY <1>1, <1>7, <2>3 DEF Arrive, Respond, GetSystemClientToken
    <2> QED BY <1>7, <2>1, <2>2, <2>3
  <1>8. CASE SignIn \/ UNCHANGED callsVars
    BY <1>2, <1>8 DEF SignIn, callsVars
  <1> QED BY <1>2, <1>3, <1>4, <1>5, <1>6, <1>7, <1>8 DEF CallsNext

(***************************************************************************)
(* No call under way is put back, and each step of the client (the token,  *)
(* a timeout, a retry, the end) brings it closer to its end: with it, all  *)
(* that CallsEnd needs is that the client takes its steps.                 *)
(***************************************************************************)
THEOREM CallsMakeProgress == CallsSpec => CallsGetOn
  <1>1. ASSUME IInv, [CallsNext]_callsVars, NEW r \in Request, Under(r), Under(r)'
        PROVE  /\ Ahead(calls[r])' \in 0..Ahead(calls[r])
               /\ Client(r) => Ahead(calls[r])' < Ahead(calls[r])
    <2>1. Ahead(calls[r])' = Ahead(calls'[r])
      BY DEF Ahead
    <2>2. calls[r] \in Call /\ calls'[r] \in Call
      BY <1>1, NextIInv DEF IInv
    <2>3. Ahead(calls[r]) \in 0..9 /\ Ahead(calls'[r]) \in 0..9
      BY <2>2, AheadFacts
    <2>4. Ahead(calls'[r]) <= Ahead(calls[r])
      BY <1>1, OthersDoNotDelay
    <2>5. Client(r) => Ahead(calls'[r]) < Ahead(calls[r])
      BY <1>1, ClientGetsOn
    <2> QED BY <2>1, <2>3, <2>4, <2>5
  <1>2. IInv /\ [CallsNext]_callsVars =>
            [\A r \in Request :
                Under(r) /\ Under(r)' =>
                    /\ Ahead(calls[r])' \in 0..Ahead(calls[r])
                    /\ Client(r) => Ahead(calls[r])' < Ahead(calls[r])]_callsVars
    BY <1>1
  <1> QED BY <1>2, Invariance, PTL DEF CallsSpec, CallsGetOn
=============================================================================
