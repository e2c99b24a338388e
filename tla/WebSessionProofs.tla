-------------------------- MODULE WebSessionProofs --------------------------
(***************************************************************************)
(* Sessions have their subject's plan, forms are only accepted in sessions *)
(* of the plan they show, and sign-ins are for the person they were asked  *)
(* for: the invariants of WebSession, proved for any number of tabs,       *)
(* persons and session ids.  After them, where those sign-ins lead: the    *)
(* invariants of Landing.                                                  *)
(***************************************************************************)
EXTENDS WebSession, Landing, TLAPS

USE FlowAssumption, NoneAssumption

SigningIn == {"open", "away", "callback", "setUp"}

LEMMA EmptyFits ==
    /\ Empty \in Session
    /\ HasPlan(Empty)
    /\ Empty.plan = NoOne
    /\ \A s \in Sid : Fits(s, Empty)
  <1>1. NoAttempt \in Attempt /\ NoAttempt[2] = NoOne
    BY DEF NoAttempt, Attempt
  <1>2. Empty \in Session
    BY <1>1 DEF Empty, Session
  <1>3. HasPlan(Empty) /\ Empty.plan = NoOne
    BY DEF Empty, HasPlan
  <1>4. ASSUME NEW s \in Sid PROVE Fits(s, Empty)
    BY <1>1 DEF Empty, Fits
  <1> QED
    BY <1>2, <1>3, <1>4

\* A request that comes has the copy of a session that is as it should be.
LEMMA LoadStep ==
    ASSUME IInv, NEW t \in Tab, ~Waiting(t), NEW request \in TabState, Load(t, request),
           request.at \in {"open", "callback", "get", "post", "end"},
           request.at \in SigningIn =>
              /\ request.flow \in Flow /\ request.token = NoSid
              /\ request.flow = "handover" => request.asked # NoOne,
           request.at = "post" => request.token # NoSid,
           \/ request.token = NoSid
           \/ request.token = tabs[t].token /\ request.shown = tabs[t].shown
    PROVE  IInv'
  <1>0. /\ store \in [Sid -> Session \cup {NoSession}] /\ cookie \in Sid \cup {NoSid}
        /\ tabs \in [Tab -> TabState] /\ ended \in Sid \cup {NoSid}
        /\ \A u \in Tab : Waiting(u) => tabs[u].sid # NoSid
        /\ \A u \in Tab : ~Waiting(u) => tabs[u].sid = NoSid
    BY DEF IInv, TypeOK, RequestsFit
  <1>1. PICK s \in Sid, copy \in Session :
           /\ tabs' = [tabs EXCEPT ![t] = [request EXCEPT !.sid = s, !.copy = copy]]
           /\ cookie' = cookie
           /\ store' \in [Sid -> Session \cup {NoSession}]
           /\ \A r \in Sid : store'[r] \in {store[r], NoSession}
           /\ ended' \in Sid \cup {NoSid}
           /\ HasPlan(copy) /\ Fits(s, copy)
           /\ store'[s] \in {copy, NoSession}
           /\ \A u \in Tab : Waits(u, "setUp") => tabs[u].sid # s
           /\ \A u \in Tab : Waiting(u) /\ tabs[u].sid = s => tabs[u].copy.plan = copy.plan
           /\ \A u \in Tab : tabs[u].token = s => tabs[u].shown = copy.plan
    <2>1. PICK s \in Sid :
             \/ /\ s = cookie /\ store[s] # NoSession
                /\ tabs' = [tabs EXCEPT ![t] = [request EXCEPT !.sid = s, !.copy = store[s]]]
                /\ UNCHANGED <<store, cookie, ended>>
             \/ /\ Unused(s) /\ (cookie # NoSid => store[cookie] = NoSession)
                /\ tabs' = [tabs EXCEPT ![t] = [request EXCEPT !.sid = s, !.copy = Empty]]
                /\ store' = [store EXCEPT ![s] = NoSession]
                /\ ended' = IF s = ended THEN NoSid ELSE ended
                /\ UNCHANGED cookie
      BY DEF Load
    <2>2. CASE /\ s = cookie /\ store[s] # NoSession
               /\ tabs' = [tabs EXCEPT ![t] = [request EXCEPT !.sid = s, !.copy = store[s]]]
               /\ UNCHANGED <<store, cookie, ended>>
      <3>1. store[s] \in Session /\ HasPlan(store[s]) /\ Fits(s, store[s])
        BY <1>0, <2>2 DEF IInv, WriterHasPlan, SessionsFit
      <3>2. \A u \in Tab : Waits(u, "setUp") => tabs[u].sid # s
        BY <2>2 DEF IInv, RequestsFit
      <3>3. \A u \in Tab : Waiting(u) /\ tabs[u].sid = s => tabs[u].copy.plan = store[s].plan
        BY <2>2 DEF IInv, OnePlan
      <3>4. \A u \in Tab : tabs[u].token = s => tabs[u].shown = store[s].plan
        BY <2>2 DEF IInv, FormsShowPlan
      <3> DEFINE copy == store[s]
      <3>5. /\ tabs' = [tabs EXCEPT ![t] = [request EXCEPT !.sid = s, !.copy = copy]]
            /\ store' = store /\ ended' = ended /\ cookie' = cookie
        BY <2>2
      <3>6. copy \in Session /\ HasPlan(copy) /\ Fits(s, copy) /\ store[s] = copy
        BY <3>1
      <3>7. \A u \in Tab : Waiting(u) /\ tabs[u].sid = s => tabs[u].copy.plan = copy.plan
        BY <3>3
      <3>8. \A u \in Tab : tabs[u].token = s => tabs[u].shown = copy.plan
        BY <3>4
      <3>9. /\ store' \in [Sid -> Session \cup {NoSession}] /\ ended' \in Sid \cup {NoSid}
            /\ \A r \in Sid : store'[r] \in {store[r], NoSession}
            /\ store'[s] \in {copy, NoSession}
        BY <1>0, <3>5, <3>6
      <3> HIDE DEF copy
      <3> QED
        BY <3>2, <3>5, <3>6, <3>7, <3>8, <3>9
    <2>3. CASE /\ Unused(s) /\ (cookie # NoSid => store[cookie] = NoSession)
               /\ tabs' = [tabs EXCEPT ![t] = [request EXCEPT !.sid = s, !.copy = Empty]]
               /\ store' = [store EXCEPT ![s] = NoSession]
               /\ ended' = IF s = ended THEN NoSid ELSE ended
               /\ UNCHANGED cookie
      <3>1. \A u \in Tab : tabs[u].sid # s /\ tabs[u].token # s
        BY <2>3 DEF Unused
      <3> QED
        BY <1>0, <2>3, <3>1, EmptyFits
    <2> QED
      BY <2>1, <2>2, <2>3
  <1>2. /\ tabs' \in [Tab -> TabState]
        /\ tabs'[t].sid = s /\ tabs'[t].copy = copy /\ tabs'[t].at = request.at
        /\ tabs'[t].flow = request.flow /\ tabs'[t].asked = request.asked
        /\ tabs'[t].token = request.token /\ tabs'[t].shown = request.shown
        /\ \A u \in Tab \ {t} : tabs'[u] = tabs[u]
    <2>1. [request EXCEPT !.sid = s, !.copy = copy] \in TabState
      BY DEF TabState
    <2> QED
      BY <1>0, <1>1, <2>1 DEF TabState
  <1>3. request.at \in InFlight /\ request.at \notin {"setUp", "writing", "form", "away"}
    BY DEF InFlight
  <1>4. \A u \in Tab : tabs'[u].token = NoSid \/
           (tabs'[u].token = tabs[u].token /\ tabs'[u].shown = tabs[u].shown)
    BY <1>2
  <1> DEFINE waits(u) == tabs'[u].at \in InFlight
  <1>5. ASSUME NEW u \in Tab, waits(u), NEW r \in Sid, r = tabs'[u].sid
        PROVE  /\ store'[r] # NoSession => store'[r].plan = tabs'[u].copy.plan
               /\ \A x \in Tab : tabs'[x].token = r => tabs'[x].shown = tabs'[u].copy.plan
               /\ HasPlan(tabs'[u].copy) /\ Fits(r, tabs'[u].copy)
    <2>1. CASE u = t
      BY <1>0, <1>1, <1>2, <1>4, <1>5, <2>1
    <2>2. CASE u # t
      <3>1. Waiting(u) /\ tabs'[u] = tabs[u]
        BY <1>2, <1>5, <2>2 DEF Waiting
      <3>2. /\ store[r] # NoSession => store[r].plan = tabs[u].copy.plan
            /\ \A x \in Tab : tabs[x].token = r => tabs[x].shown = tabs[u].copy.plan
            /\ HasPlan(tabs[u].copy) /\ Fits(r, tabs[u].copy)
        BY <1>5, <3>1 DEF IInv, OnePlan, WriterHasPlan, SessionsFit
      <3> QED
        BY <1>0, <1>1, <1>4, <3>1, <3>2
    <2> QED
      BY <2>1, <2>2
  <1>6. ASSUME NEW u \in Tab, NEW x \in Tab, waits(u), waits(x), tabs'[u].sid = tabs'[x].sid
        PROVE  tabs'[u].copy.plan = tabs'[x].copy.plan
    <2>1. CASE u # t /\ x # t
      BY <1>2, <1>6, <2>1 DEF IInv, OnePlan, Waiting
    <2>2. CASE u = t \/ x = t
      BY <1>1, <1>2, <1>6, <2>2 DEF Waiting
    <2> QED
      BY <2>1, <2>2
  <1>7. TypeOK'
    <2>1. \A u \in Tab : waits(u) => tabs'[u].sid # NoSid
      BY <1>0, <1>1, <1>2, <1>3 DEF Waiting
    <2>2. \A u \in Tab : tabs'[u].at \in {"form", "post"} => tabs'[u].token # NoSid
      BY <1>0, <1>2, <1>3 DEF IInv, TypeOK, Waits
    <2> QED
      BY <1>0, <1>1, <1>2, <2>1, <2>2 DEF TypeOK, Waiting, Waits
  <1>8. WriterHasPlan' /\ SessionsFit'
    <2>1. \A r \in Sid : store'[r] # NoSession => HasPlan(store'[r]) /\ Fits(r, store'[r])
      BY <1>1 DEF IInv, WriterHasPlan, SessionsFit
    <2>2. \A u \in Tab : waits(u) => tabs'[u].sid \in Sid
      BY <1>2, <1>7 DEF TypeOK, Waiting, TabState
    <2> QED
      BY <1>5, <2>1, <2>2 DEF WriterHasPlan, SessionsFit, Waiting
  <1>9. WritesToPlanShown' /\ SignInForAsked'
    BY <1>2, <1>3 DEF IInv, WritesToPlanShown, SignInForAsked, Waits
  <1>10. OnePlan'
    <2>1. \A u \in Tab : waits(u) => tabs'[u].sid \in Sid
      BY <1>2, <1>7 DEF TypeOK, Waiting, TabState
    <2> QED
      BY <1>5, <1>6, <2>1 DEF OnePlan, Waiting
  <1>11. FormsShowPlan'
    BY <1>1, <1>4 DEF IInv, FormsShowPlan
  <1>12. RequestsFit'
    <2> SUFFICES ASSUME NEW u \in Tab
                 PROVE  /\ ~waits(u) => tabs'[u].sid = NoSid
                        /\ tabs'[u].at = "writing" => tabs'[u].token = tabs'[u].sid
                        /\ tabs'[u].at = "setUp" =>
                              /\ tabs'[u].copy = [Empty EXCEPT !.user = tabs'[u].flow]
                              /\ tabs'[u].sid # cookie'
                              /\ \A x \in Tab : /\ tabs'[x].token # tabs'[u].sid
                                                /\ x # u => tabs'[x].sid # tabs'[u].sid
                        /\ tabs'[u].at \in SigningIn =>
                              /\ tabs'[u].flow \in Flow /\ tabs'[u].token = NoSid
                              /\ tabs'[u].flow = "handover" => tabs'[u].asked # NoOne
      BY DEF RequestsFit, Waiting, Waits, SigningIn
    <2>1. CASE u = t
      BY <1>2, <1>3, <2>1 DEF SigningIn
    <2>2. CASE u # t
      <3>1. tabs'[u] = tabs[u]
        BY <1>2, <2>2
      <3>2. /\ ~waits(u) => tabs[u].sid = NoSid
            /\ tabs[u].at = "writing" => tabs[u].token = tabs[u].sid
            /\ tabs[u].at \in SigningIn =>
                  /\ tabs[u].flow \in Flow /\ tabs[u].token = NoSid
                  /\ tabs[u].flow = "handover" => tabs[u].asked # NoOne
        BY <3>1 DEF IInv, RequestsFit, Waiting, Waits, SigningIn
      <3>3. ASSUME tabs[u].at = "setUp"
            PROVE  /\ tabs'[u].copy = [Empty EXCEPT !.user = tabs'[u].flow]
                   /\ tabs'[u].sid # cookie'
                   /\ \A x \in Tab : /\ tabs'[x].token # tabs'[u].sid
                                     /\ x # u => tabs'[x].sid # tabs'[u].sid
        <4>1. /\ tabs[u].copy = [Empty EXCEPT !.user = tabs[u].flow]
              /\ tabs[u].sid # cookie /\ tabs[u].sid # s /\ tabs[u].sid # NoSid
              /\ \A x \in Tab : /\ tabs[x].token # tabs[u].sid
                                /\ x # u => tabs[x].sid # tabs[u].sid
          BY <1>0, <1>1, <3>3 DEF IInv, RequestsFit, Waits, Waiting, InFlight
        <4>2. \A x \in Tab : tabs'[x].token # tabs'[u].sid
          BY <1>4, <3>1, <4>1
        <4>3. \A x \in Tab : x # u => tabs'[x].sid # tabs'[u].sid
          BY <1>2, <2>2, <3>1, <4>1
        <4> QED
          BY <1>1, <3>1, <4>1, <4>2, <4>3
      <3> QED
        BY <3>1, <3>2, <3>3
    <2> QED
      BY <2>1, <2>2
  <1> QED
    BY <1>7, <1>8, <1>9, <1>10, <1>11, <1>12 DEF IInv

\* An answer puts a session back, with the plan that all its copies have, or, when
\* the session is being set up, one that nobody else knows of yet.
LEMMA RespondStep ==
    ASSUME IInv, NEW t \in Tab, Waiting(t), NEW session \in Session, NEW page \in TabState,
           Respond(t, session, page),
           HasPlan(session), Fits(tabs[t].sid, session),
           session.plan = tabs[t].copy.plan \/ Waits(t, "setUp"),
           page.at \in {"idle", "form", "away"}, page.sid = NoSid,
           page.at = "form" => page.token # NoSid,
           page.at = "away" =>
              /\ page.flow \in Flow /\ page.token = NoSid
              /\ page.flow = "handover" => page.asked # NoOne,
           \/ page.token = NoSid
           \/ page.token = tabs[t].sid /\ page.shown = session.plan
    PROVE  IInv'
  <1> DEFINE s == tabs[t].sid
             waits(u) == tabs'[u].at \in InFlight
  <1>0. /\ store \in [Sid -> Session \cup {NoSession}] /\ cookie \in Sid \cup {NoSid}
        /\ tabs \in [Tab -> TabState] /\ ended \in Sid \cup {NoSid}
        /\ \A u \in Tab : Waiting(u) => tabs[u].sid # NoSid
        /\ s \in Sid
    BY DEF IInv, TypeOK, TabState
  <1>1. /\ tabs' = [tabs EXCEPT ![t] = page] /\ cookie' = s /\ ended' = ended
        /\ store' \in [Sid -> Session \cup {NoSession}]
        /\ \A r \in Sid \ {s} : store'[r] \in {store[r], NoSession}
        /\ store'[s] # NoSession =>
              store'[s].plan = session.plan /\ HasPlan(store'[s]) /\ Fits(s, store'[s])
    <2>1. PICK stored \in {session} \cup (IF session = tabs[t].copy THEN {store[s]} ELSE {}) :
             store' = [x \in Sid |-> IF x = s THEN stored
                                    ELSE IF x \in {s} \cup {tabs[u].sid : u \in Tab \ {t}}
                                         THEN store[x] ELSE NoSession]
      BY DEF Respond
    <2>2. stored = session \/ (stored = store[s] /\ session = tabs[t].copy)
      BY <2>1
    <2>3. store[s] # NoSession =>
             store[s].plan = tabs[t].copy.plan /\ HasPlan(store[s]) /\ Fits(s, store[s])
      BY <1>0 DEF IInv, OnePlan, WriterHasPlan, SessionsFit
    <2>4. stored \in Session \cup {NoSession}
      BY <1>0, <2>2
    <2> QED
      BY <1>0, <2>1, <2>2, <2>3, <2>4 DEF Respond
  <1>2. /\ tabs' \in [Tab -> TabState] /\ tabs'[t] = page
        /\ \A u \in Tab \ {t} : tabs'[u] = tabs[u]
    BY <1>0, <1>1
  <1>3. page.at \notin InFlight
    BY DEF InFlight
  <1>4. \A u \in Tab \ {t} : waits(u) <=> Waiting(u)
    BY <1>2 DEF Waiting
  \* what is known of the session outside of the request
  <1>5. /\ \A u \in Tab \ {t} : Waiting(u) /\ tabs[u].sid = s => tabs[u].copy.plan = session.plan
        /\ \A u \in Tab \ {t} : tabs[u].token = s => tabs[u].shown = session.plan
    <2>1. CASE session.plan = tabs[t].copy.plan
      BY <1>0, <2>1 DEF IInv, OnePlan
    <2>2. CASE Waits(t, "setUp")
      BY <2>2 DEF IInv, RequestsFit
    <2> QED
      BY <2>1, <2>2
  <1>6. ASSUME NEW u \in Tab, waits(u), NEW r \in Sid, r = tabs'[u].sid
        PROVE  /\ store'[r] # NoSession => store'[r].plan = tabs'[u].copy.plan
               /\ \A x \in Tab : tabs'[x].token = r => tabs'[x].shown = tabs'[u].copy.plan
               /\ \A x \in Tab : waits(x) /\ tabs'[x].sid = r =>
                                    tabs'[x].copy.plan = tabs'[u].copy.plan
               /\ HasPlan(tabs'[u].copy) /\ Fits(r, tabs'[u].copy)
    <2>1. u # t /\ Waiting(u) /\ tabs'[u] = tabs[u]
      BY <1>2, <1>3, <1>4, <1>6
    <2>2. /\ store[r] # NoSession => store[r].plan = tabs[u].copy.plan
          /\ \A x \in Tab : tabs[x].token = r => tabs[x].shown = tabs[u].copy.plan
          /\ \A x \in Tab : Waiting(x) /\ tabs[x].sid = r =>
                               tabs[x].copy.plan = tabs[u].copy.plan
          /\ HasPlan(tabs[u].copy) /\ Fits(r, tabs[u].copy)
      BY <1>6, <2>1 DEF IInv, OnePlan, WriterHasPlan, SessionsFit
    <2>3. \A x \in Tab : waits(x) => x # t /\ Waiting(x) /\ tabs'[x] = tabs[x]
      BY <1>2, <1>3, <1>4
    <2>4. \A x \in Tab : waits(x) /\ tabs'[x].sid = r =>
                            tabs'[x].copy.plan = tabs'[u].copy.plan
      BY <2>1, <2>2, <2>3
    <2>5. r = s => tabs[u].copy.plan = session.plan
      BY <1>5, <1>6, <2>1
    <2>6. store'[r] # NoSession => store'[r].plan = tabs'[u].copy.plan
      BY <1>1, <2>1, <2>2, <2>5
    <2>7. \A x \in Tab : tabs'[x].token = r => tabs'[x].shown = tabs'[u].copy.plan
      BY <1>0, <1>2, <2>1, <2>2, <2>5
    <2> QED
      BY <2>1, <2>2, <2>4, <2>6, <2>7
  <1> HIDE DEF waits
  <1>7. TypeOK'
    <2>1. \A u \in Tab : waits(u) => tabs'[u].sid # NoSid
      BY <1>0, <1>2, <1>3, <1>4 DEF waits
    <2>2. \A u \in Tab : tabs'[u].at \in {"form", "post"} => tabs'[u].token # NoSid
      BY <1>2 DEF IInv, TypeOK, Waits
    <2> QED
      BY <1>0, <1>1, <1>2, <2>1, <2>2 DEF TypeOK, Waiting, Waits, waits
  <1>8. \A u \in Tab : waits(u) => tabs'[u].sid \in Sid
    BY <1>2, <1>7 DEF TypeOK, Waiting, TabState, waits
  <1>9. WriterHasPlan' /\ SessionsFit'
    <2>1. \A r \in Sid : store'[r] # NoSession => HasPlan(store'[r]) /\ Fits(r, store'[r])
      BY <1>1 DEF IInv, WriterHasPlan, SessionsFit
    <2> QED
      BY <1>6, <1>8, <2>1 DEF WriterHasPlan, SessionsFit, Waiting, waits
  <1>10. WritesToPlanShown' /\ SignInForAsked'
    BY <1>2 DEF IInv, WritesToPlanShown, SignInForAsked, Waits
  <1>11. OnePlan'
    BY <1>6, <1>8 DEF OnePlan, Waiting, waits
  <1>12. FormsShowPlan'
    BY <1>0, <1>1, <1>2, <1>5 DEF IInv, FormsShowPlan
  <1>13. RequestsFit'
    <2> SUFFICES ASSUME NEW u \in Tab
                 PROVE  /\ ~waits(u) => tabs'[u].sid = NoSid
                        /\ tabs'[u].at = "writing" => tabs'[u].token = tabs'[u].sid
                        /\ tabs'[u].at = "setUp" =>
                              /\ tabs'[u].copy = [Empty EXCEPT !.user = tabs'[u].flow]
                              /\ tabs'[u].sid # cookie'
                              /\ \A x \in Tab : /\ tabs'[x].token # tabs'[u].sid
                                                /\ x # u => tabs'[x].sid # tabs'[u].sid
                        /\ tabs'[u].at \in SigningIn =>
                              /\ tabs'[u].flow \in Flow /\ tabs'[u].token = NoSid
                              /\ tabs'[u].flow = "handover" => tabs'[u].asked # NoOne
      BY DEF RequestsFit, Waiting, Waits, SigningIn, waits
    <2>1. CASE u = t
      BY <1>2, <2>1 DEF SigningIn
    <2>2. CASE u # t
      <3>1. tabs'[u] = tabs[u]
        BY <1>2, <2>2
      <3>2. /\ ~waits(u) => tabs[u].sid = NoSid
            /\ tabs[u].at = "writing" => tabs[u].token = tabs[u].sid
            /\ tabs[u].at \in SigningIn =>
                  /\ tabs[u].flow \in Flow /\ tabs[u].token = NoSid
                  /\ tabs[u].flow = "handover" => tabs[u].asked # NoOne
        BY <1>4, <2>2 DEF IInv, RequestsFit, Waiting, Waits, SigningIn
      <3>3. ASSUME tabs[u].at = "setUp"
            PROVE  /\ tabs'[u].copy = [Empty EXCEPT !.user = tabs'[u].flow]
                   /\ tabs'[u].sid # cookie'
                   /\ \A x \in Tab : /\ tabs'[x].token # tabs'[u].sid
                                     /\ x # u => tabs'[x].sid # tabs'[u].sid
        <4>1. /\ tabs[u].copy = [Empty EXCEPT !.user = tabs[u].flow]
              /\ tabs[u].sid # s /\ tabs[u].sid # NoSid
              /\ \A x \in Tab : /\ tabs[x].token # tabs[u].sid
                                /\ x # u => tabs[x].sid # tabs[u].sid
          BY <1>0, <2>2, <3>3 DEF IInv, RequestsFit, Waits, Waiting, InFlight
        <4> QED
          BY <1>1, <1>2, <3>1, <4>1
      <3> QED
        BY <3>1, <3>2, <3>3
    <2> QED
      BY <2>1, <2>2
  <1> QED
    BY <1>7, <1>9, <1>10, <1>11, <1>12, <1>13 DEF IInv

\* A tab that gives something up, and sessions that are gone, disturb nothing.
LEMMA DropStep ==
    ASSUME IInv, NEW page \in TabState,
           page.at \in {"idle", "unanswered"}, page.sid = NoSid, page.token = NoSid,
           tabs' \in [Tab -> TabState],
           \A u \in Tab : tabs'[u] \in {tabs[u], page},
           cookie' = cookie, ended' \in Sid \cup {NoSid},
           store' \in [Sid -> Session \cup {NoSession}],
           \A r \in Sid : store'[r] \in {store[r], NoSession}
    PROVE  IInv'
  <1> DEFINE waits(u) == tabs'[u].at \in InFlight
  <1>0. /\ tabs \in [Tab -> TabState] /\ tabs' \in [Tab -> TabState]
        /\ cookie \in Sid \cup {NoSid}
    BY DEF IInv, TypeOK
  <1>1. page.at \notin InFlight /\ page.at \notin SigningIn
    BY DEF InFlight, SigningIn
  <1>2. \A u \in Tab : tabs'[u] = tabs[u] \/ tabs'[u] = page
    BY <1>0
  <1>3. \A u \in Tab : waits(u) => Waiting(u) /\ tabs'[u] = tabs[u]
    BY <1>1, <1>2 DEF Waiting
  <1>4. \A u \in Tab : ~waits(u) => tabs'[u].sid = NoSid
    BY <1>1, <1>2 DEF IInv, RequestsFit, Waiting
  <1> HIDE DEF waits
  <1>5. TypeOK'
    <2>1. \A u \in Tab : waits(u) => tabs'[u].sid # NoSid
      BY <1>3 DEF IInv, TypeOK
    <2>2. \A u \in Tab : tabs'[u].at \in {"form", "post"} => tabs'[u].token # NoSid
      BY <1>2 DEF IInv, TypeOK, Waits
    <2> QED
      BY <1>0, <2>1, <2>2 DEF TypeOK, Waiting, Waits, waits
  <1>6. WriterHasPlan' /\ SessionsFit'
    BY <1>3 DEF IInv, WriterHasPlan, SessionsFit, Waiting, waits
  <1>7. WritesToPlanShown' /\ SignInForAsked'
    BY <1>2 DEF IInv, WritesToPlanShown, SignInForAsked, Waits
  <1>8. OnePlan'
    <2>1. \A u \in Tab : waits(u) => tabs[u].sid \in Sid
      BY <1>0, <1>3 DEF IInv, TypeOK, TabState
    <2> SUFFICES ASSUME NEW u \in Tab, waits(u)
                 PROVE  /\ store'[tabs[u].sid] # NoSession =>
                              store'[tabs[u].sid].plan = tabs[u].copy.plan
                        /\ \A x \in Tab : waits(x) /\ tabs[x].sid = tabs[u].sid =>
                                             tabs[x].copy.plan = tabs[u].copy.plan
                        /\ \A x \in Tab : tabs'[x].token = tabs[u].sid =>
                                             tabs'[x].shown = tabs[u].copy.plan
      BY <1>3 DEF OnePlan, Waiting, waits
    <2>2. /\ store[tabs[u].sid] # NoSession => store[tabs[u].sid].plan = tabs[u].copy.plan
          /\ \A x \in Tab : Waiting(x) /\ tabs[x].sid = tabs[u].sid =>
                               tabs[x].copy.plan = tabs[u].copy.plan
          /\ \A x \in Tab : tabs[x].token = tabs[u].sid => tabs[x].shown = tabs[u].copy.plan
      BY <1>3 DEF IInv, OnePlan
    <2> QED
      BY <1>2, <1>3, <2>1, <2>2
  <1>9. FormsShowPlan'
    BY <1>2 DEF IInv, FormsShowPlan
  <1>10. RequestsFit'
    <2> SUFFICES ASSUME NEW u \in Tab
                 PROVE  /\ ~waits(u) => tabs'[u].sid = NoSid
                        /\ tabs'[u].at = "writing" => tabs'[u].token = tabs'[u].sid
                        /\ tabs'[u].at = "setUp" =>
                              /\ tabs'[u].copy = [Empty EXCEPT !.user = tabs'[u].flow]
                              /\ tabs'[u].sid # cookie'
                              /\ \A x \in Tab : /\ tabs'[x].token # tabs'[u].sid
                                                /\ x # u => tabs'[x].sid # tabs'[u].sid
                        /\ tabs'[u].at \in SigningIn =>
                              /\ tabs'[u].flow \in Flow /\ tabs'[u].token = NoSid
                              /\ tabs'[u].flow = "handover" => tabs'[u].asked # NoOne
      BY DEF RequestsFit, Waiting, Waits, SigningIn, waits
    <2>1. CASE tabs'[u] = page
      BY <1>1, <1>4, <2>1 DEF SigningIn
    <2>2. CASE tabs'[u] = tabs[u]
      <3>1. tabs[u].at = "setUp" => tabs[u].sid # NoSid
        BY DEF IInv, TypeOK, Waiting, InFlight
      <3>2. /\ tabs[u].at = "writing" => tabs[u].token = tabs[u].sid
            /\ tabs[u].at = "setUp" =>
                  /\ tabs[u].copy = [Empty EXCEPT !.user = tabs[u].flow]
                  /\ tabs[u].sid # cookie
                  /\ \A x \in Tab : /\ tabs[x].token # tabs[u].sid
                                    /\ x # u => tabs[x].sid # tabs[u].sid
            /\ tabs[u].at \in SigningIn =>
                  /\ tabs[u].flow \in Flow /\ tabs[u].token = NoSid
                  /\ tabs[u].flow = "handover" => tabs[u].asked # NoOne
        BY DEF IInv, RequestsFit, Waits, SigningIn
      <3> QED
        BY <1>2, <1>4, <2>2, <3>1, <3>2
    <2> QED
      BY <1>2, <2>1, <2>2
  <1> QED
    BY <1>5, <1>6, <1>7, <1>8, <1>9, <1>10 DEF IInv

LEMMA Pages ==
    /\ Idle \in TabState /\ Idle.at = "idle" /\ Idle.sid = NoSid /\ Idle.token = NoSid
    /\ Idle.shown = NoOne
  BY EmptyFits DEF Idle, TabState

\* What is known of a request under way.
LEMMA InHand ==
    ASSUME IInv, NEW t \in Tab, Waiting(t)
    PROVE  /\ tabs[t] \in TabState /\ tabs[t].copy \in Session /\ tabs[t].sid \in Sid
           /\ HasPlan(tabs[t].copy) /\ Fits(tabs[t].sid, tabs[t].copy)
  BY DEF IInv, TypeOK, TabState, WriterHasPlan, SessionsFit

\* A session that is put back as it is, or with other attempts, crn or token.
LEMMA SameAccess ==
    ASSUME NEW session \in Session, NEW other \in Session, HasPlan(session),
           other.access = session.access, other.version = session.version,
           other.plan = session.plan, other.subject = session.subject
    PROVE  HasPlan(other)
  BY DEF HasPlan, AccessMode

LEMMA OtherAttempt ==
    ASSUME NEW session \in Session, NEW f \in Flow, NEW attempt \in Attempt,
           NEW crn \in Person \cup {NoOne}
    PROVE  LET other == [session EXCEPT !.crn = crn, !.state[f] = attempt] IN
           /\ other \in Session
           /\ other.access = session.access /\ other.version = session.version
           /\ other.plan = session.plan /\ other.subject = session.subject
           /\ other.token = session.token /\ other.crn = crn
           /\ other.state = [session.state EXCEPT ![f] = attempt]
           /\ session.state \in [Flow -> Attempt]
  BY DEF Session

LEMMA OpenStep == ASSUME IInv, NEW t \in Tab, Open(t) PROVE IInv'
  <1>1. PICK flow \in Flow, asked \in Person \cup {NoOne} :
           /\ flow = "handover" => asked # NoOne
           /\ Load(t, [Away(flow, asked) EXCEPT !.at = "open"])
    BY DEF Open
  <1> DEFINE request == [Away(flow, asked) EXCEPT !.at = "open"]
  <1>2. /\ request \in TabState /\ request.at = "open" /\ request.token = NoSid
        /\ request.flow = flow /\ request.asked = asked
    BY EmptyFits DEF Away, Idle, TabState, InFlight
  <1> HIDE DEF request
  <1>3. ~Waiting(t) /\ Load(t, request)
    BY <1>1 DEF Open, request
  <1> QED
    BY <1>1, <1>2, <1>3, LoadStep

LEMMA StartSignInStep == ASSUME IInv, NEW t \in Tab, StartSignIn(t) PROVE IInv'
  <1> DEFINE a == tabs[t]
             crn == IF a.flow = "hmpps" /\ a.asked # NoOne THEN a.asked ELSE a.copy.crn
             attempt == <<t, a.asked>>
             session == [a.copy EXCEPT !.crn = crn, !.state[a.flow] = attempt]
             page == Away(a.flow, a.asked)
  <1>1. Waiting(t) /\ Waits(t, "open") /\ Respond(t, session, page)
    BY DEF StartSignIn, Waiting, Waits, InFlight
  <1>2. /\ a.flow \in Flow /\ a.copy \in Session /\ a.asked \in Person \cup {NoOne}
        /\ a.flow = "handover" => a.asked # NoOne
        /\ HasPlan(a.copy) /\ Fits(a.sid, a.copy)
    BY <1>1, InHand DEF IInv, RequestsFit, Waits, TabState
  <1>3. attempt \in Attempt /\ attempt[2] = a.asked /\ crn \in Person \cup {NoOne}
    BY <1>2 DEF Attempt, Session
  <1>4. /\ session \in Session
        /\ session.access = a.copy.access /\ session.version = a.copy.version
        /\ session.plan = a.copy.plan /\ session.subject = a.copy.subject
        /\ session.token = a.copy.token /\ session.crn = crn
        /\ session.state = [a.copy.state EXCEPT ![a.flow] = attempt]
        /\ a.copy.state \in [Flow -> Attempt]
    <2> HIDE DEF attempt, crn
    <2> QED
      BY <1>2, <1>3, OtherAttempt
  <1>5. /\ page \in TabState /\ page.at = "away" /\ page.sid = NoSid /\ page.token = NoSid
        /\ page.flow = a.flow /\ page.asked = a.asked
    BY <1>2, EmptyFits DEF Away, Idle, TabState
  <1>6. HasPlan(session)
    BY <1>2, <1>4, SameAccess
  <1>7. Fits(a.sid, session)
    <2>1. ASSUME "hmpps" \in Flow, session.state["hmpps"][2] # NoOne
          PROVE  session.crn = session.state["hmpps"][2]
      <3>1. CASE a.flow = "hmpps"
        BY <1>3, <1>4, <2>1, <3>1
      <3>2. CASE a.flow # "hmpps"
        BY <1>2, <1>4, <2>1, <3>2 DEF Fits
      <3> QED
        BY <3>1, <3>2
    <2> QED
      BY <1>2, <1>4, <2>1 DEF Fits
  <1> HIDE DEF session, page
  <1> QED
    BY <1>1, <1>2, <1>4, <1>5, <1>6, <1>7, RespondStep

LEMMA CallbackStep == ASSUME IInv, NEW t \in Tab, Callback(t) PROVE IInv'
  <1> DEFINE request == [tabs[t] EXCEPT !.at = "callback"]
  <1>1. /\ ~Waiting(t) /\ Load(t, request) /\ tabs[t] \in TabState
        /\ tabs[t].flow \in Flow /\ tabs[t].token = NoSid
        /\ tabs[t].flow = "handover" => tabs[t].asked # NoOne
    BY DEF Callback, Waiting, Waits, InFlight, IInv, TypeOK, RequestsFit
  <1>2. /\ request \in TabState /\ request.at = "callback" /\ request.token = NoSid
        /\ request.flow = tabs[t].flow /\ request.asked = tabs[t].asked
    BY <1>1 DEF TabState, InFlight
  <1> HIDE DEF request
  <1> QED
    BY <1>1, <1>2, LoadStep

LEMMA GetEndStep == ASSUME IInv, NEW t \in Tab, Get(t) \/ End(t) PROVE IInv'
  <1>1. PICK at \in {"get", "end"} : ~Waiting(t) /\ Load(t, [Idle EXCEPT !.at = at])
    BY DEF Get, End
  <1> DEFINE request == [Idle EXCEPT !.at = at]
  <1>2. request \in TabState /\ request.at = at /\ request.token = NoSid
    BY EmptyFits DEF Idle, TabState, InFlight
  <1> HIDE DEF request
  <1>3. Load(t, request)
    BY <1>1 DEF request
  <1>4. at \notin SigningIn /\ at # "post"
    BY DEF SigningIn
  <1> QED
    BY <1>1, <1>2, <1>3, <1>4, LoadStep

LEMMA PostStep == ASSUME IInv, NEW t \in Tab, Post(t) PROVE IInv'
  <1> DEFINE request == [tabs[t] EXCEPT !.at = "post"]
  <1>1. ~Waiting(t) /\ Load(t, request) /\ tabs[t] \in TabState /\ tabs[t].token # NoSid
    BY DEF Post, Waiting, Waits, InFlight, IInv, TypeOK
  <1>2. /\ request \in TabState /\ request.at = "post" /\ request.token = tabs[t].token
        /\ request.shown = tabs[t].shown
    BY <1>1 DEF TabState, InFlight
  <1> HIDE DEF request
  <1>3. "post" \notin SigningIn
    BY DEF SigningIn
  <1> QED
    BY <1>1, <1>2, <1>3, LoadStep

\* The session is put back as it is, and the page has no form.
LEMMA RespondSame ==
    ASSUME IInv, NEW t \in Tab, Waiting(t), Respond(t, tabs[t].copy, Idle) PROVE IInv'
  <1>1. Idle.at \in {"idle", "form", "away"} /\ Idle.at # "form" /\ Idle.at # "away"
    BY Pages
  <1> QED
    BY <1>1, Pages, InHand, RespondStep

LEMMA RefuseWriteStep == ASSUME IInv, NEW t \in Tab, Refuse(t) \/ Write(t) PROVE IInv'
  <1>1. Waiting(t) /\ Respond(t, tabs[t].copy, Idle)
    BY DEF Refuse, Write, Waiting, Waits, InFlight
  <1> QED
    BY <1>1, RespondSame

\* A tab is left with nothing to submit.
LEMMA GiveUpStep == ASSUME IInv, NEW t \in Tab, Leave(t) \/ FailUnanswered(t) PROVE IInv'
  <1>1. PICK page \in {Idle} \cup {Unanswered(role) : role \in BOOLEAN} :
           tabs' = [tabs EXCEPT ![t] = page] /\ UNCHANGED <<store, cookie, ended>>
    BY DEF Leave, FailUnanswered
  <1>2. /\ page \in TabState /\ page.at \in {"idle", "unanswered"}
        /\ page.sid = NoSid /\ page.token = NoSid
    <2>1. ASSUME NEW role \in BOOLEAN
          PROVE  LET q == Unanswered(role) IN
                 q \in TabState /\ q.at = "unanswered" /\ q.sid = NoSid /\ q.token = NoSid
      <3>1. /\ Unanswered(role) = [Idle EXCEPT !.at = "unanswered", !.role = role]
            /\ Idle \in TabState
        BY Pages DEF Unanswered
      <3>2. Unanswered(role) \in TabState
        BY <3>1 DEF TabState
      <3>3. /\ Unanswered(role).at = "unanswered"
            /\ Unanswered(role).sid = NoSid /\ Unanswered(role).token = NoSid
        BY <3>1, Pages DEF TabState
      <3> QED
        BY <3>2, <3>3
    <2> QED
      BY <2>1, Pages
  <1>3. /\ tabs \in [Tab -> TabState] /\ ended \in Sid \cup {NoSid}
        /\ store \in [Sid -> Session \cup {NoSession}]
    BY DEF IInv, TypeOK
  <1>4. tabs' \in [Tab -> TabState] /\ \A u \in Tab : tabs'[u] \in {tabs[u], page}
    BY <1>1, <1>2, <1>3
  <1> QED
    BY <1>1, <1>2, <1>3, <1>4, DropStep

LEMMA ExpireStep == ASSUME IInv, NEW s \in Sid, Expire(s) PROVE IInv'
  <1>1. /\ tabs \in [Tab -> TabState] /\ ended \in Sid \cup {NoSid}
        /\ store \in [Sid -> Session \cup {NoSession}]
    BY DEF IInv, TypeOK
  <1>2. /\ UNCHANGED <<cookie, tabs, ended>>
        /\ store' \in [Sid -> Session \cup {NoSession}]
        /\ \A r \in Sid : store'[r] \in {store[r], NoSession}
    BY <1>1 DEF Expire
  <1> QED
    BY <1>1, <1>2, Pages, DropStep

LEMMA EndSessionStep == ASSUME IInv, NEW t \in Tab, EndSession(t) PROVE IInv'
  <1>1. Waiting(t)
    BY DEF EndSession, Waiting, Waits, InFlight
  <1>2. CASE Respond(t, tabs[t].copy, Idle)
    BY <1>1, <1>2, RespondSame
  <1>3. CASE /\ store' = [store EXCEPT ![tabs[t].sid] = NoSession]
             /\ ended' = tabs[t].sid
             /\ tabs' = [tabs EXCEPT ![t] = Idle]
             /\ UNCHANGED cookie
    <2>1. /\ tabs \in [Tab -> TabState] /\ store \in [Sid -> Session \cup {NoSession}]
          /\ tabs[t].sid \in Sid
      BY <1>1, InHand DEF IInv, TypeOK
    <2>2. /\ tabs' \in [Tab -> TabState] /\ \A u \in Tab : tabs'[u] \in {tabs[u], Idle}
          /\ store' \in [Sid -> Session \cup {NoSession}]
          /\ \A r \in Sid : store'[r] \in {store[r], NoSession}
      BY <1>3, <2>1, Pages
    <2> QED
      BY <1>3, <2>1, <2>2, Pages, DropStep
  <1> QED
    BY <1>2, <1>3 DEF EndSession

\* A session that may write has its plan, so that a form shows one.
LEMMA RenderStep == ASSUME IInv, NEW t \in Tab, Render(t) PROVE IInv'
  <1> DEFINE a == tabs[t]
             token == IF a.copy.token = NoSid THEN a.sid ELSE a.copy.token
             session == [a.copy EXCEPT !.token = token]
             page == IF AccessMode(a.copy) = "READ_WRITE" THEN Form(a.copy.plan, token)
                     ELSE Idle
  <1>1. Waiting(t) /\ Respond(t, session, page)
    BY DEF Render, Waiting, Waits, InFlight
  <1>2. /\ a.copy \in Session /\ a.sid \in Sid
        /\ HasPlan(a.copy) /\ Fits(a.sid, a.copy)
    BY <1>1, InHand
  <1>3. token = a.sid
    BY <1>2 DEF Fits
  <1>4. /\ session \in Session /\ session.token = a.sid
        /\ session.access = a.copy.access /\ session.version = a.copy.version
        /\ session.plan = a.copy.plan /\ session.subject = a.copy.subject
        /\ session.crn = a.copy.crn /\ session.state = a.copy.state
    BY <1>2, <1>3 DEF Session
  <1>5. HasPlan(session) /\ Fits(a.sid, session)
    BY <1>2, <1>4, SameAccess DEF Fits
  <1>6. a.copy.plan \in Person \cup {NoOne}
    BY <1>2 DEF Session
  <1>7. /\ page \in TabState /\ page.at \in {"idle", "form"} /\ page.sid = NoSid
        /\ page.at = "form" => page.token # NoSid
        /\ \/ page.token = NoSid
           \/ page.token = a.sid /\ page.shown = a.copy.plan
    <2>1. /\ Form(a.copy.plan, token) \in TabState /\ Form(a.copy.plan, token).at = "form"
          /\ Form(a.copy.plan, token).sid = NoSid /\ Form(a.copy.plan, token).token = a.sid
          /\ Form(a.copy.plan, token).shown = a.copy.plan
      BY <1>2, <1>3, <1>6, EmptyFits DEF Form, Idle, TabState
    <2>2. a.sid # NoSid
      BY <1>2
    <2> HIDE DEF token
    <2> QED
      BY <2>1, <2>2, Pages
  <1> HIDE DEF session, page
  <1> QED
    BY <1>1, <1>2, <1>4, <1>5, <1>7, RespondStep

\* The form's token is the session's own, so the form shows the session's plan.
LEMMA AcceptStep == ASSUME IInv, NEW t \in Tab, Accept(t) PROVE IInv'
  <1>1. Waiting(t) /\ Waits(t, "post")
    BY DEF Accept, Waiting, Waits, InFlight
  <1>2. CASE Respond(t, tabs[t].copy, Idle)
    BY <1>1, <1>2, RespondSame
  <1>3. CASE /\ tabs[t].token = tabs[t].copy.token
             /\ tabs' = [tabs EXCEPT ![t].at = "writing"]
             /\ UNCHANGED <<store, cookie, ended>>
    <2>1. /\ tabs \in [Tab -> TabState] /\ tabs[t] \in TabState /\ tabs[t].token # NoSid
      BY <1>1 DEF IInv, TypeOK
    <2>2. tabs[t].token = tabs[t].sid /\ tabs[t].copy.plan = tabs[t].shown
      BY <1>1, <1>3, <2>1, InHand DEF Fits, IInv, OnePlan
    <2>3. /\ tabs' \in [Tab -> TabState] /\ tabs'[t].at = "writing"
          /\ \A u \in Tab \ {t} : tabs'[u] = tabs[u]
          /\ \A u \in Tab :
                /\ tabs'[u].sid = tabs[u].sid /\ tabs'[u].copy = tabs[u].copy
                /\ tabs'[u].token = tabs[u].token /\ tabs'[u].shown = tabs[u].shown
                /\ tabs'[u].flow = tabs[u].flow /\ tabs'[u].asked = tabs[u].asked
      BY <1>3, <2>1 DEF TabState, InFlight
    <2>4. \A u \in Tab : Waiting(u)' <=> Waiting(u)
      BY <1>1, <2>3 DEF Waiting, InFlight
    <2>5. TypeOK'
      BY <1>3, <2>3, <2>4 DEF IInv, TypeOK, Waits
    <2>6. WriterHasPlan' /\ SessionsFit'
      BY <1>3, <2>3, <2>4 DEF IInv, WriterHasPlan, SessionsFit
    <2>7. WritesToPlanShown' /\ SignInForAsked'
      BY <2>2, <2>3 DEF IInv, WritesToPlanShown, SignInForAsked, Waits
    <2>8. OnePlan' /\ FormsShowPlan'
      BY <1>3, <2>3, <2>4 DEF IInv, OnePlan, FormsShowPlan
    <2>9. RequestsFit'
      BY <1>3, <2>2, <2>3, <2>4 DEF IInv, RequestsFit, Waits
    <2> QED
      BY <2>5, <2>6, <2>7, <2>8, <2>9 DEF IInv
  <1> QED
    BY <1>2, <1>3 DEF Accept

\* Signing in begins a session that nobody else knows of, for the person whose CRN
\* came with the attempt.
LEMMA LogInStep == ASSUME IInv, NEW t \in Tab, LogIn(t) PROVE IInv'
  <1> DEFINE a == tabs[t]
  <1>1. /\ Waiting(t) /\ a \in TabState /\ a.flow \in Flow /\ a.token = NoSid
        /\ a.flow = "handover" => a.asked # NoOne
        /\ a.copy \in Session /\ a.sid \in Sid
        /\ HasPlan(a.copy) /\ Fits(a.sid, a.copy)
    <2>1. Waiting(t) /\ Waits(t, "callback")
      BY DEF LogIn, Waiting, Waits, InFlight
    <2> QED
      BY <2>1, InHand DEF IInv, RequestsFit, Waits
  <1>2. CASE Respond(t, [a.copy EXCEPT !.state[a.flow] = NoAttempt], Idle)
    <2> DEFINE session == [a.copy EXCEPT !.state[a.flow] = NoAttempt]
    <2>1. NoAttempt \in Attempt /\ NoAttempt[2] = NoOne
      BY DEF NoAttempt, Attempt
    <2>2. /\ session \in Session
          /\ session.access = a.copy.access /\ session.version = a.copy.version
          /\ session.plan = a.copy.plan /\ session.subject = a.copy.subject
          /\ session.token = a.copy.token /\ session.crn = a.copy.crn
          /\ session.state = [a.copy.state EXCEPT ![a.flow] = NoAttempt]
          /\ a.copy.state \in [Flow -> Attempt]
      BY <1>1, <2>1 DEF Session
    <2>3. HasPlan(session)
      BY <1>1, <2>2, SameAccess
    <2>4. "hmpps" \in Flow => \/ session.state["hmpps"] = a.copy.state["hmpps"]
                              \/ session.state["hmpps"][2] = NoOne
      BY <1>1, <2>1, <2>2
    <2>5. Fits(a.sid, session)
      BY <1>1, <2>2, <2>4 DEF Fits
    <2>6. Idle.at \in {"idle", "form", "away"} /\ Idle.at # "form" /\ Idle.at # "away"
      BY Pages
    <2>7. Respond(t, session, Idle)
      BY <1>2
    <2> HIDE DEF session
    <2> QED
      BY <1>1, <2>2, <2>3, <2>5, <2>6, <2>7, Pages, RespondStep
  <1>3. ASSUME NEW s \in Sid, a.copy.state[a.flow] = <<t, a.asked>>, Unused(s),
               UNCHANGED cookie,
               store' = [store EXCEPT ![a.sid] = NoSession, ![s] = [Empty EXCEPT !.user = a.flow]],
               ended' = IF s = ended THEN NoSid ELSE ended,
               tabs' = [tabs EXCEPT ![t] =
                          [a EXCEPT !.at = "setUp", !.sid = s,
                                    !.copy = [Empty EXCEPT !.user = a.flow],
                                    !.shown = a.copy.crn]]
        PROVE  IInv'
    <2> DEFINE session == [Empty EXCEPT !.user = a.flow]
    <2>0. /\ store \in [Sid -> Session \cup {NoSession}] /\ cookie \in Sid \cup {NoSid}
          /\ tabs \in [Tab -> TabState] /\ ended \in Sid \cup {NoSid}
      BY DEF IInv, TypeOK
    <2>1. /\ session \in Session /\ HasPlan(session) /\ session.plan = NoOne
          /\ Fits(s, session)
      <3>1. /\ session.access = Empty.access /\ session.version = Empty.version
            /\ session.plan = Empty.plan /\ session.subject = Empty.subject
            /\ session.token = Empty.token /\ session.crn = Empty.crn
            /\ session.state = Empty.state
        BY DEF Empty
      <3>2. session \in Session
        BY <1>1, EmptyFits DEF Session
      <3> HIDE DEF session
      <3> QED
        BY <3>1, <3>2, EmptyFits, SameAccess DEF Fits
    <2>2. /\ a.sid # s /\ s # cookie
          /\ \A u \in Tab : tabs[u].sid # s /\ tabs[u].token # s
      BY <1>3 DEF Unused
    <2>3. "hmpps" \in Flow /\ a.flow = "hmpps" /\ a.asked # NoOne => a.copy.crn = a.asked
      BY <1>1, <1>3 DEF Fits
    <2>4. a.copy.crn \in Person \cup {NoOne}
      BY <1>1 DEF Session
    <2> HIDE DEF session
    <2>5. /\ store' \in [Sid -> Session \cup {NoSession}] /\ store'[s] = session
          /\ \A r \in Sid \ {s} : store'[r] \in {store[r], NoSession}
          /\ ended' \in Sid \cup {NoSid}
      BY <1>1, <1>3, <2>0, <2>1, <2>2 DEF session
    <2>6. [a EXCEPT !.at = "setUp", !.sid = s, !.copy = session, !.shown = a.copy.crn]
              \in TabState
      BY <1>1, <2>1, <2>4 DEF TabState, InFlight
    <2>7. /\ tabs' \in [Tab -> TabState]
          /\ \A u \in Tab \ {t} : tabs'[u] = tabs[u]
          /\ tabs'[t].at = "setUp" /\ tabs'[t].sid = s /\ tabs'[t].copy = session
          /\ tabs'[t].shown = a.copy.crn /\ tabs'[t].token = NoSid
          /\ tabs'[t].flow = a.flow /\ tabs'[t].asked = a.asked
      BY <1>1, <1>3, <2>0, <2>6 DEF TabState, session
    <2>8. "setUp" \in InFlight
      BY DEF InFlight
    <2>9. \A u \in Tab : Waiting(u)' <=> Waiting(u)
      BY <1>1, <2>7, <2>8 DEF Waiting
    <2>10. \A u \in Tab, r \in Sid : tabs'[u].token = r => u # t /\ r # s
      BY <2>2, <2>7
    <2>11. \A u \in Tab : u # t => tabs'[u].sid # s
      BY <2>2, <2>7
    <2>12. TypeOK'
      BY <2>0, <1>3, <2>5, <2>7, <2>9 DEF IInv, TypeOK, Waits
    <2>13. WriterHasPlan' /\ SessionsFit'
      BY <2>1, <2>5, <2>7, <2>9 DEF IInv, WriterHasPlan, SessionsFit
    <2>14. WritesToPlanShown' /\ SignInForAsked'
      BY <1>1, <2>3, <2>7 DEF IInv, WritesToPlanShown, SignInForAsked, Waits
    <2>15. OnePlan'
      <3> SUFFICES ASSUME NEW u \in Tab, Waiting(u)
                   PROVE  /\ store'[tabs'[u].sid] # NoSession =>
                                store'[tabs'[u].sid].plan = tabs'[u].copy.plan
                          /\ \A x \in Tab : Waiting(x) /\ tabs'[x].sid = tabs'[u].sid =>
                                               tabs'[x].copy.plan = tabs'[u].copy.plan
                          /\ \A x \in Tab : tabs'[x].token = tabs'[u].sid =>
                                               tabs'[x].shown = tabs'[u].copy.plan
        BY <2>9 DEF OnePlan
      <3>1. CASE u = t
        BY <2>5, <2>7, <2>10, <2>11, <3>1
      <3>2. CASE u # t
        <4>1. tabs[u].sid \in Sid /\ tabs'[u] = tabs[u] /\ tabs[u].sid # s
          BY <2>2, <2>7, <3>2, InHand
        <4>2. /\ store[tabs[u].sid] # NoSession => store[tabs[u].sid].plan = tabs[u].copy.plan
              /\ \A x \in Tab : Waiting(x) /\ tabs[x].sid = tabs[u].sid =>
                                   tabs[x].copy.plan = tabs[u].copy.plan
              /\ \A x \in Tab : tabs[x].token = tabs[u].sid => tabs[x].shown = tabs[u].copy.plan
          BY DEF IInv, OnePlan
        <4> QED
          BY <2>5, <2>7, <2>10, <4>1, <4>2
      <3> QED
        BY <3>1, <3>2
    <2>16. FormsShowPlan'
      BY <2>5, <2>7, <2>10 DEF IInv, FormsShowPlan
    <2>17. RequestsFit'
      <3> SUFFICES ASSUME NEW u \in Tab
                   PROVE  /\ ~Waiting(u) => tabs'[u].sid = NoSid
                          /\ tabs'[u].at = "writing" => tabs'[u].token = tabs'[u].sid
                          /\ tabs'[u].at = "setUp" =>
                                /\ tabs'[u].copy = [Empty EXCEPT !.user = tabs'[u].flow]
                                /\ tabs'[u].sid # cookie
                                /\ \A x \in Tab : tabs'[x].token # tabs'[u].sid
                                /\ \A x \in Tab : x # u => tabs'[x].sid # tabs'[u].sid
                          /\ tabs'[u].at \in SigningIn =>
                                /\ tabs'[u].flow \in Flow /\ tabs'[u].token = NoSid
                                /\ tabs'[u].flow = "handover" => tabs'[u].asked # NoOne
        BY <1>3, <2>9 DEF RequestsFit, Waits, SigningIn
      <3>1. CASE u = t
        BY <1>1, <2>2, <2>7, <2>10, <2>11, <3>1 DEF session
      <3>2. CASE u # t
        <4>1. tabs'[u] = tabs[u]
          BY <2>7, <3>2
        <4>2. /\ ~Waiting(u) => tabs[u].sid = NoSid
              /\ tabs[u].at = "writing" => tabs[u].token = tabs[u].sid
              /\ tabs[u].at \in SigningIn =>
                    /\ tabs[u].flow \in Flow /\ tabs[u].token = NoSid
                    /\ tabs[u].flow = "handover" => tabs[u].asked # NoOne
          BY DEF IInv, RequestsFit, Waits, SigningIn
        <4>3. ASSUME tabs[u].at = "setUp"
              PROVE  /\ tabs'[u].copy = [Empty EXCEPT !.user = tabs'[u].flow]
                     /\ tabs'[u].sid # cookie
                     /\ \A x \in Tab : tabs'[x].token # tabs'[u].sid
                     /\ \A x \in Tab : x # u => tabs'[x].sid # tabs'[u].sid
          <5>1. /\ tabs[u].copy = [Empty EXCEPT !.user = tabs[u].flow]
                /\ tabs[u].sid # cookie /\ tabs[u].sid # NoSid /\ tabs[u].sid # s
                /\ \A x \in Tab : tabs[x].token # tabs[u].sid
                /\ \A x \in Tab : x # u => tabs[x].sid # tabs[u].sid
            BY <2>2, <4>3 DEF IInv, TypeOK, RequestsFit, Waits, Waiting, InFlight
          <5> QED
            BY <2>7, <4>1, <5>1
        <4> QED
          BY <4>1, <4>2, <4>3
      <3> QED
        BY <3>1, <3>2
    <2> QED
      BY <2>12, <2>13, <2>14, <2>15, <2>16, <2>17 DEF IInv
  <1> QED
    BY <1>2, <1>3 DEF LogIn

\* However far the set-up of a session gets, it may write only when its plan is
\* there; and nobody has a form of it yet.
LEMMA SetUpStep == ASSUME IInv, NEW t \in Tab, SetUp(t) PROVE IInv'
  <1> DEFINE a == tabs[t]
  <1>1. /\ Waiting(t) /\ Waits(t, "setUp") /\ a \in TabState /\ a.flow \in Flow
        /\ a.copy \in Session /\ a.copy = [Empty EXCEPT !.user = a.flow]
        /\ a.flow = "handover" => a.asked # NoOne
        /\ a.sid \in Sid
    <2>1. Waiting(t) /\ Waits(t, "setUp")
      BY DEF SetUp, Waiting, Waits, InFlight
    <2> QED
      BY <2>1, InHand DEF IInv, RequestsFit, Waits
  <1>2. /\ a.asked \in Person \cup {NoOne} /\ a.shown \in Person \cup {NoOne}
    BY <1>1 DEF TabState
  <1>3. /\ a.copy.access = "none" /\ a.copy.version = "undefined"
        /\ a.copy.token = NoSid /\ a.copy.state = [f \in Flow |-> NoAttempt]
    BY <1>1 DEF Empty
  <1>4. PICK session \in Session :
           /\ Respond(t, session, Idle)
           /\ session.token = a.copy.token /\ session.state = a.copy.state
           /\ \/ session.access = "none"
              \/ session.version # "null"
              \/ session.plan # NoOne /\ session.subject = session.plan
    <2>1. CASE a.flow = "hmpps"
      <3>1. PICK session \in SetUpFromAuth(a.copy, a.shown) : Respond(t, session, Idle)
        BY <2>1 DEF SetUp
      <3> DEFINE principal == [a.copy EXCEPT !.access = "READ_WRITE"]
                 subject == [principal EXCEPT !.subject = a.shown]
                 whole == [subject EXCEPT !.plan = a.shown, !.version = "null"]
      <3>2. session \in {a.copy, principal} \/
               (a.shown # NoOne /\ session \in {subject, whole})
        BY <3>1 DEF SetUpFromAuth
      <3>3. /\ principal \in Session /\ principal.version = "undefined"
            /\ principal.token = a.copy.token /\ principal.state = a.copy.state
        BY <1>1, <1>3 DEF Session
      <3>4. /\ subject \in Session /\ subject.version = "undefined"
            /\ subject.token = a.copy.token /\ subject.state = a.copy.state
            /\ subject.subject = a.shown
        BY <1>2, <3>3 DEF Session
      <3>5. /\ whole \in Session /\ whole.plan = a.shown /\ whole.subject = a.shown
            /\ whole.token = a.copy.token /\ whole.state = a.copy.state
        BY <1>2, <3>4 DEF Session
      <3> HIDE DEF principal, subject, whole
      <3> QED
        BY <1>1, <1>3, <3>1, <3>2, <3>3, <3>4, <3>5
    <2>2. CASE a.flow = "handover"
      <3>1. PICK session \in SetUpFromHandover(a.copy, a.asked) : Respond(t, session, Idle)
        BY <2>2 DEF SetUp
      <3>2. a.asked \in Person /\ a.asked # NoOne
        BY <1>1, <1>2, <2>2
      <3> DEFINE subject(access) == [a.copy EXCEPT !.access = access, !.subject = a.asked]
                 whole(access, version) ==
                     [a.copy EXCEPT !.access = access, !.subject = a.asked, !.plan = a.asked,
                                    !.version = version]
      <3>3. \/ session = a.copy
            \/ \E access \in {"READ_WRITE", "READ_ONLY"} : session = subject(access)
            \/ \E access \in {"READ_WRITE", "READ_ONLY"}, version \in {"null", "number"} :
                  session = whole(access, version)
        BY <3>1 DEF SetUpFromHandover
      <3>4. ASSUME NEW access \in {"READ_WRITE", "READ_ONLY"}
            PROVE  /\ subject(access) \in Session /\ subject(access).version = "undefined"
                   /\ subject(access).token = a.copy.token
                   /\ subject(access).state = a.copy.state
        BY <1>1, <1>3, <3>2 DEF Session
      <3>5. ASSUME NEW access \in {"READ_WRITE", "READ_ONLY"},
                   NEW version \in {"null", "number"}
            PROVE  LET w == whole(access, version) IN
                   /\ w \in Session /\ w.plan = a.asked /\ w.subject = a.asked
                   /\ w.token = a.copy.token /\ w.state = a.copy.state
        BY <1>1, <1>3, <3>2 DEF Session
      <3> HIDE DEF subject, whole
      <3>6. CASE session = a.copy
        BY <1>1, <1>3, <3>1, <3>6
      <3>7. CASE \E access \in {"READ_WRITE", "READ_ONLY"} : session = subject(access)
        <4>1. /\ session \in Session /\ session.version = "undefined"
              /\ session.token = a.copy.token /\ session.state = a.copy.state
          BY <3>4, <3>7
        <4> QED
          BY <3>1, <4>1
      <3>8. CASE \E access \in {"READ_WRITE", "READ_ONLY"}, version \in {"null", "number"} :
                    session = whole(access, version)
        <4>1. /\ session \in Session
              /\ session.plan = a.asked /\ session.subject = a.asked
              /\ session.token = a.copy.token /\ session.state = a.copy.state
          BY <3>5, <3>8
        <4> QED
          BY <3>1, <3>2, <4>1
      <3> QED
        BY <3>3, <3>6, <3>7, <3>8
    <2> QED
      BY <1>1, <2>1, <2>2
  <1>5. HasPlan(session)
    BY <1>4 DEF HasPlan, AccessMode
  <1>6. NoAttempt[2] = NoOne
    BY DEF NoAttempt
  <1>7. Fits(a.sid, session)
    BY <1>3, <1>4, <1>6 DEF Fits
  <1>8. Idle.at \in {"idle", "form", "away"} /\ Idle.at # "form" /\ Idle.at # "away"
    BY Pages
  <1> QED
    BY <1>1, <1>4, <1>5, <1>7, <1>8, Pages, RespondStep

\* The inductive invariant.  It is about copies: a session is known by its id, but
\* what a request decides on is the copy it was given.
THEOREM InductiveInvariant == Spec => []IInv
  <1>1. Init => IInv
    <2> SUFFICES ASSUME Init PROVE IInv
      OBVIOUS
    <2>1. /\ \A s \in Sid : store[s] = NoSession
          /\ \A t \in Tab : tabs[t] = Idle
          /\ "idle" \notin InFlight
      BY DEF Init, InFlight
    <2>2. \A t \in Tab : ~Waiting(t) /\ tabs[t].at = "idle" /\ tabs[t].sid = NoSid
                         /\ tabs[t].token = NoSid
      BY <2>1, Pages DEF Waiting
    <2>3. TypeOK
      BY <2>2, Pages DEF Init, TypeOK, Waits
    <2>4. WriterHasPlan /\ SessionsFit /\ WritesToPlanShown /\ SignInForAsked
      BY <2>1, <2>2 DEF WriterHasPlan, SessionsFit, WritesToPlanShown, SignInForAsked, Waits
    <2>5. OnePlan /\ FormsShowPlan /\ RequestsFit
      BY <2>1, <2>2 DEF OnePlan, FormsShowPlan, RequestsFit, Waits
    <2> QED
      BY <2>3, <2>4, <2>5 DEF IInv
  <1>2. IInv /\ [Next]_vars => IInv'
    <2> SUFFICES ASSUME IInv, [Next]_vars PROVE IInv'
      OBVIOUS
    <2>1. CASE \E t \in Tab :
                  \/ Open(t) \/ StartSignIn(t) \/ Callback(t) \/ LogIn(t) \/ SetUp(t)
                  \/ Get(t) \/ Post(t) \/ Refuse(t) \/ FailUnanswered(t)
                  \/ Render(t) \/ Accept(t) \/ Write(t)
                  \/ End(t) \/ EndSession(t) \/ Leave(t)
      BY <2>1, OpenStep, StartSignInStep, CallbackStep, LogInStep, SetUpStep, GetEndStep,
         PostStep, RefuseWriteStep, GiveUpStep, RenderStep, AcceptStep, EndSessionStep
    <2>2. CASE \E s \in Sid : Expire(s)
      BY <2>2, ExpireStep
    <2>3. CASE UNCHANGED vars
      BY <2>3 DEF vars, IInv, TypeOK, WriterHasPlan, WritesToPlanShown, SignInForAsked,
                  SessionsFit, OnePlan, FormsShowPlan, RequestsFit, Waits, Waiting
    <2> QED
      BY <2>1, <2>2, <2>3 DEF Next
  <1> QED
    BY <1>1, <1>2, PTL DEF Spec

\* Sessions and requests have their types: every request has a session, and every
\* form is rendered with its token (setUpCsrf).
THEOREM TypeCorrect == Spec => []TypeOK
  <1>1. IInv => TypeOK
    BY DEF IInv
  <1> QED
    BY <1>1, InductiveInvariant, PTL

\* A session that may write has the current version of its subject's plan,
\* whatever call of the sign-in failed.
THEOREM WriterPlan == Spec => []WriterHasPlan
  <1>1. IInv => WriterHasPlan
    BY DEF IInv
  <1> QED
    BY <1>1, InductiveInvariant, PTL

\* A form is only accepted in a session of the plan that it shows, for any number
\* of tabs that sign in, end sessions and answer late.
THEOREM FormWrites == Spec => []WritesToPlanShown
  <1>1. IInv => WritesToPlanShown
    BY DEF IInv
  <1> QED
    BY <1>1, InductiveInvariant, PTL

\* Who signs in for a person's plan is given the plan of that person.
THEOREM AskedPerson == Spec => []SignInForAsked
  <1>1. IInv => SignInForAsked
    BY DEF IInv
  <1> QED
    BY <1>1, InductiveInvariant, PTL

-----------------------------------------------------------------------------
(***************************************************************************)
(* Landing.  Of each session that is stored, or in a request's hands, it   *)
(* is true that its user has agreed if it says so, and that a version that *)
(* its last attempt to sign in was for is the one it holds.                *)
(***************************************************************************)
Kept(x, n, agreed) ==
    /\ x \in LandingSession
    /\ x.signIn <= n
    /\ x.hasAgreedPrivacyPolicy => x.signIn \in agreed
    /\ \A w \in Window, v \in Version : x.state = <<w, v>> => x.previousVersion = v

\* What a tab shows, or has under way.
Fitting(e, n, agreed) ==
    /\ e \in WindowState
    /\ Kept(e.copy, n, agreed)
    /\ e.at \in UnderWay => e.sid # NoId
    /\ e.at \in {"privacy", "post"} => e.token # NoId
    /\ e.at = "setUp" /\ e.asked # NoVersion => e.landing = e.asked
    /\ e.at = "plan" =>
          /\ e.copy.signIn # 0
          /\ e.copy.mode = "READ_WRITE" => e.copy.signIn \in agreed

LandingIInv ==
    /\ sessions \in [Id -> LandingSession \cup {NotStored}]
    /\ \A s \in Id : sessions[s] # NotStored => Kept(sessions[s], signIns, agreedIn)
    /\ named \in Id \cup {NoId}
    /\ windows \in [Window -> WindowState]
    /\ \A w \in Window : Fitting(windows[w], signIns, agreedIn)
    /\ signIns \in 0..MaxSignIns
    /\ agreedIn \subseteq 1..signIns

LEMMA FreshKept ==
    ASSUME NEW n \in Nat, NEW agreed PROVE Fresh \in LandingSession /\ Kept(Fresh, n, agreed)
  <1>1. Fresh \in LandingSession
    BY LandingAssumption DEF Fresh, LandingSession
  <1>2. \A w \in Window, v \in Version : Fresh.state # <<w, v>>
    BY LandingAssumption DEF Fresh
  <1> QED BY <1>1, <1>2 DEF Kept, Fresh

LEMMA OtherFits ==
    ASSUME NEW n \in Nat, NEW agreed
    PROVE  /\ Fitting(Other, n, agreed)
           /\ \A target \in {"plan", "version", "privacy"} :
                 Fitting(RedirectTo(target), n, agreed)
  BY FreshKept DEF Other, RedirectTo, Fitting, WindowState, UnderWay

\* More sign-ins, and more agreements, take nothing away.
LEMMA MoreAgreed ==
    ASSUME NEW n \in Nat, NEW m \in Nat, n <= m, NEW agreed, NEW more, agreed \subseteq more
    PROVE  /\ \A x : Kept(x, n, agreed) => Kept(x, m, more)
           /\ \A e : Fitting(e, n, agreed) => Fitting(e, m, more)
  <1>1. ASSUME NEW x, Kept(x, n, agreed) PROVE Kept(x, m, more)
    <2>1. x.signIn \in Nat
      BY <1>1 DEF Kept, LandingSession
    <2> QED BY <1>1, <2>1 DEF Kept
  <1>2. ASSUME NEW e, Fitting(e, n, agreed) PROVE Fitting(e, m, more)
    BY <1>1, <1>2 DEF Fitting
  <1> QED BY <1>1, <1>2

\* One tab's step, and what it stores.
LEMMA OneWindow ==
    ASSUME LandingIInv, NEW w \in Window, NEW e,
           windows' = [windows EXCEPT ![w] = e],
           Fitting(e, signIns', agreedIn'),
           sessions' \in [Id -> LandingSession \cup {NotStored}],
           \A s \in Id : \/ sessions'[s] \in {sessions[s], NotStored}
                         \/ Kept(sessions'[s], signIns', agreedIn'),
           named' \in Id \cup {NoId},
           signIns' \in 0..MaxSignIns, signIns <= signIns',
           agreedIn \subseteq agreedIn', agreedIn' \subseteq 1..signIns'
    PROVE  LandingIInv'
  <1>1. signIns \in Nat /\ signIns' \in Nat
    BY LandingAssumption DEF LandingIInv
  <1>2. \A x : Kept(x, signIns, agreedIn) => Kept(x, signIns', agreedIn')
    BY <1>1, MoreAgreed
  <1>3. \A f : Fitting(f, signIns, agreedIn) => Fitting(f, signIns', agreedIn')
    BY <1>1, MoreAgreed
  <1>4. windows' \in [Window -> WindowState]
    BY DEF LandingIInv, Fitting
  <1>5. \A u \in Window : windows'[u] = IF u = w THEN e ELSE windows[u]
    BY DEF LandingIInv
  <1>6. ASSUME NEW u \in Window PROVE Fitting(windows'[u], signIns', agreedIn')
    <2>1. CASE u = w
      BY <1>5, <2>1
    <2>2. CASE u # w
      BY <1>3, <1>5, <2>2 DEF LandingIInv
    <2> QED BY <2>1, <2>2
  <1>7. ASSUME NEW s \in Id, sessions'[s] # NotStored
        PROVE  Kept(sessions'[s], signIns', agreedIn')
    BY <1>2, <1>7 DEF LandingIInv
  <1> QED BY <1>4, <1>6, <1>7 DEF LandingIInv

LEMMA WindowFacts ==
    ASSUME LandingIInv, NEW w \in Window
    PROVE  /\ windows[w] \in WindowState /\ Fitting(windows[w], signIns, agreedIn)
           /\ windows[w].copy \in LandingSession
           /\ Kept(windows[w].copy, signIns, agreedIn)
           /\ windows[w].at \in UnderWay => windows[w].sid \in Id
           /\ signIns \in Nat
  BY LandingAssumption DEF LandingIInv, Fitting, WindowState

LEMMA LoadSessionIInv ==
    ASSUME LandingIInv, NEW w \in Window, NEW request \in WindowState,
           LoadSession(w, request), request.at \in {"open", "callback", "get", "post"},
           request.at = "post" => request.token # NoId
    PROVE  LandingIInv'
  <1>1. PICK s \in Id, copy \in LandingSession :
           /\ windows' = [windows EXCEPT ![w] = [request EXCEPT !.sid = s, !.copy = copy]]
           /\ Kept(copy, signIns, agreedIn)
           /\ sessions' \in {sessions, [sessions EXCEPT ![s] = NotStored]}
           /\ UNCHANGED <<named, signIns, agreedIn>>
    <2>1. PICK s \in Id :
           \/ /\ sessions[s] # NotStored
              /\ windows' = [windows EXCEPT ![w] =
                     [request EXCEPT !.sid = s, !.copy = sessions[s]]]
              /\ UNCHANGED <<sessions, named, signIns, agreedIn>>
           \/ /\ windows' = [windows EXCEPT ![w] =
                     [request EXCEPT !.sid = s, !.copy = Fresh]]
              /\ sessions' = [sessions EXCEPT ![s] = NotStored]
              /\ UNCHANGED <<named, signIns, agreedIn>>
      BY DEF LoadSession
    <2>2. Fresh \in LandingSession /\ Kept(Fresh, signIns, agreedIn)
      BY WindowFacts, FreshKept
    <2>3. sessions[s] # NotStored =>
             sessions[s] \in LandingSession /\ Kept(sessions[s], signIns, agreedIn)
      BY DEF LandingIInv
    <2> QED BY <2>1, <2>2, <2>3
  <1> DEFINE e == [request EXCEPT !.sid = s, !.copy = copy]
  <1>2. /\ e \in WindowState /\ e.copy = copy /\ e.sid = s /\ e.at = request.at
        /\ e.token = request.token
    BY DEF WindowState
  <1>3. s # NoId
    BY LandingAssumption
  <1>4. windows' = [windows EXCEPT ![w] = e]
    BY <1>1
  <1> HIDE DEF e
  <1>5. Fitting(e, signIns', agreedIn')
    BY <1>1, <1>2, <1>3 DEF Fitting
  <1>6. /\ sessions' \in [Id -> LandingSession \cup {NotStored}]
        /\ \A x \in Id : sessions'[x] \in {sessions[x], NotStored}
    BY <1>1 DEF LandingIInv
  <1>7. /\ signIns' = signIns /\ agreedIn' = agreedIn /\ named' = named
        /\ signIns \in 0..MaxSignIns /\ agreedIn \subseteq 1..signIns
        /\ named \in Id \cup {NoId} /\ signIns <= signIns
    BY <1>1, WindowFacts DEF LandingIInv
  <1> QED BY <1>4, <1>5, <1>6, <1>7, OneWindow

LEMMA SaveSessionIInv ==
    ASSUME LandingIInv, NEW w \in Window, windows[w].at \in UnderWay,
           NEW session, NEW page, SaveSession(w, session, page),
           agreedIn \subseteq agreedIn', agreedIn' \subseteq 1..signIns,
           Kept(session, signIns, agreedIn'),
           Fitting(page, signIns, agreedIn')
    PROVE  LandingIInv'
  <1> DEFINE a == windows[w]
             reached == {a.sid} \cup {windows[u].sid : u \in Window \ {w}}
             After(saved) == [x \in Id |-> IF x = a.sid THEN saved
                                           ELSE IF x \in reached THEN sessions[x]
                                           ELSE NotStored]
  <1>1. a.sid \in Id /\ signIns \in Nat /\ sessions[a.sid] \in LandingSession \cup {NotStored}
    BY WindowFacts DEF LandingIInv
  <1>2. session \in LandingSession
    BY DEF Kept
  <1>3. PICK saved \in {session, sessions[a.sid]} : sessions' = After(saved)
    BY DEF SaveSession
  <1>4. /\ named' = a.sid /\ windows' = [windows EXCEPT ![w] = page]
        /\ signIns' = signIns
    BY DEF SaveSession
  <1>5. /\ sessions' \in [Id -> LandingSession \cup {NotStored}]
        /\ \A x \in Id : \/ sessions'[x] \in {sessions[x], NotStored}
                         \/ Kept(sessions'[x], signIns', agreedIn')
    BY <1>1, <1>2, <1>3, <1>4 DEF LandingIInv
  <1>6. signIns' \in 0..MaxSignIns /\ signIns <= signIns'
    BY <1>1, <1>4 DEF LandingIInv
  <1> HIDE DEF a
  <1> QED BY <1>1, <1>4, <1>5, <1>6, OneWindow

LEMMA LeavePageIInv == ASSUME LandingIInv, NEW w \in Window, LeavePage(w) PROVE LandingIInv'
  <1>1. /\ windows' = [windows EXCEPT ![w] = Other]
        /\ UNCHANGED <<sessions, named, signIns, agreedIn>>
    BY DEF LeavePage
  <1>2. /\ Fitting(Other, signIns', agreedIn')
        /\ sessions' \in [Id -> LandingSession \cup {NotStored}]
        /\ named' \in Id \cup {NoId} /\ signIns' \in 0..MaxSignIns
        /\ signIns <= signIns' /\ agreedIn' \subseteq 1..signIns'
    BY <1>1, WindowFacts, OtherFits DEF LandingIInv
  <1> QED BY <1>1, <1>2, OneWindow

LEMMA RequestsIInv ==
    ASSUME LandingIInv, NEW w \in Window,
           \/ FollowHandover(w) \/ ReturnFromHandover(w) \/ AskFor(w) \/ SubmitPrivacy(w)
    PROVE  LandingIInv'
  <1>1. /\ windows[w] \in WindowState
        /\ windows[w].at = "privacy" => windows[w].token # NoId
        /\ Other \in WindowState
    BY WindowFacts, OtherFits DEF Fitting
  <1>2. ASSUME NEW asked \in Version \cup {NoVersion},
               LoadSession(w, [Other EXCEPT !.at = "open", !.asked = asked])
        PROVE  LandingIInv'
    <2>1. [Other EXCEPT !.at = "open", !.asked = asked] \in WindowState
      BY <1>1 DEF WindowState, UnderWay
    <2> QED BY <1>1, <1>2, <2>1, LoadSessionIInv DEF WindowState
  <1>3. CASE ReturnFromHandover(w)
    <2>1. [windows[w] EXCEPT !.at = "callback"] \in WindowState
      BY <1>1 DEF WindowState, UnderWay
    <2> QED BY <1>1, <1>3, <2>1, LoadSessionIInv DEF WindowState, ReturnFromHandover
  <1>4. CASE AskFor(w)
    <2>1. [Other EXCEPT !.at = "get", !.target = windows[w].target] \in WindowState
      BY <1>1 DEF WindowState, UnderWay
    <2> QED BY <1>1, <1>4, <2>1, LoadSessionIInv DEF WindowState, AskFor
  <1>5. CASE SubmitPrivacy(w)
    <2>1. [Other EXCEPT !.at = "post", !.token = windows[w].token] \in WindowState
      BY <1>1 DEF WindowState, UnderWay
    <2> QED BY <1>1, <1>5, <2>1, LoadSessionIInv DEF WindowState, SubmitPrivacy
  <1> QED BY <1>2, <1>3, <1>4, <1>5 DEF FollowHandover

LEMMA StartHandoverIInv ==
    ASSUME LandingIInv, NEW w \in Window, StartHandover(w) PROVE LandingIInv'
  <1> DEFINE a == windows[w]
             previous == IF a.asked # NoVersion THEN a.asked ELSE a.copy.previousVersion
             session == [a.copy EXCEPT !.previousVersion = previous,
                                       !.state = <<w, a.asked>>]
             page == [Other EXCEPT !.at = "away", !.asked = a.asked]
  <1>1. /\ a.at = "open" /\ SaveSession(w, session, page) /\ agreedIn' = agreedIn
    BY DEF StartHandover
  <1>2. /\ a \in WindowState /\ Kept(a.copy, signIns, agreedIn) /\ signIns \in Nat
        /\ a.copy \in LandingSession /\ a.asked \in Version \cup {NoVersion}
    BY WindowFacts DEF WindowState
  <1>3. /\ session \in LandingSession /\ session.signIn = a.copy.signIn
        /\ session.hasAgreedPrivacyPolicy = a.copy.hasAgreedPrivacyPolicy
        /\ session.state = <<w, a.asked>> /\ session.previousVersion = previous
    BY <1>2 DEF LandingSession
  <1>4. \A u \in Window, v \in Version : session.state = <<u, v>> => previous = v
    BY <1>3, LandingAssumption
  <1>5. Kept(session, signIns, agreedIn)
    <2> HIDE DEF session, previous
    <2> QED BY <1>2, <1>3, <1>4 DEF Kept
  <1>6. Other \in WindowState /\ Kept(Other.copy, signIns, agreedIn)
    BY <1>2, OtherFits DEF Fitting
  <1>7. Fitting(page, signIns, agreedIn)
    <2>1. /\ page \in WindowState /\ page.copy = Other.copy /\ page.at = "away"
      BY <1>2, <1>6 DEF WindowState, UnderWay
    <2> HIDE DEF page
    <2> QED BY <1>6, <2>1 DEF Fitting, UnderWay
  <1>8. agreedIn \subseteq 1..signIns
    BY DEF LandingIInv
  <1> HIDE DEF session, page
  <1> QED BY <1>1, <1>5, <1>7, <1>8, SaveSessionIInv DEF UnderWay

LEMMA LogInHandoverIInv ==
    ASSUME LandingIInv, NEW w \in Window, LogInHandover(w) PROVE LandingIInv'
  <1> DEFINE a == windows[w]
  <1>1. PICK s \in Id, failed \in BOOLEAN :
           LET session == [Fresh EXCEPT !.signIn = IF failed THEN 0 ELSE signIns + 1]
           IN  /\ signIns' = IF failed THEN signIns ELSE signIns + 1
               /\ sessions' = IF failed THEN [sessions EXCEPT ![s] = NotStored]
                              ELSE [sessions EXCEPT ![a.sid] = NotStored, ![s] = session]
               /\ windows' = [windows EXCEPT ![w] =
                     [a EXCEPT !.at = "setUp", !.sid = s, !.copy = session,
                               !.landing = a.copy.previousVersion]]
    BY DEF LogInHandover
  <1>2. /\ a.at = "callback" /\ signIns < MaxSignIns /\ a.copy.state = <<w, a.asked>>
        /\ UNCHANGED <<named, agreedIn>>
    BY DEF LogInHandover
  <1>3. /\ a \in WindowState /\ Kept(a.copy, signIns, agreedIn) /\ signIns \in Nat
        /\ a.copy \in LandingSession /\ a.sid \in Id
    BY <1>2, WindowFacts DEF UnderWay
  <1> DEFINE session == [Fresh EXCEPT !.signIn = IF failed THEN 0 ELSE signIns + 1]
             e == [a EXCEPT !.at = "setUp", !.sid = s, !.copy = session,
                            !.landing = a.copy.previousVersion]
  <1>4. /\ signIns' \in 0..MaxSignIns /\ signIns <= signIns'
        /\ (IF failed THEN 0 ELSE signIns + 1) \in 0..MaxSignIns
        /\ (IF failed THEN 0 ELSE signIns + 1) <= signIns'
        /\ signIns' \in Nat
    BY <1>1, <1>2, <1>3, LandingAssumption
  <1>5. Fresh \in LandingSession /\ Kept(Fresh, signIns', agreedIn')
    BY <1>4, FreshKept
  <1>6. /\ session \in LandingSession /\ session.signIn <= signIns'
        /\ session.hasAgreedPrivacyPolicy = FALSE
        /\ session.state = Fresh.state /\ session.previousVersion = Fresh.previousVersion
    BY <1>4, <1>5 DEF LandingSession, Fresh
  <1>7. Kept(session, signIns', agreedIn')
    <2> HIDE DEF session
    <2> QED BY <1>5, <1>6 DEF Kept
  <1>8. windows' = [windows EXCEPT ![w] = e]
    BY <1>1
  <1>9. /\ sessions' \in [Id -> LandingSession \cup {NotStored}]
        /\ \A x \in Id : \/ sessions'[x] \in {sessions[x], NotStored}
                         \/ sessions'[x] = session
    <2>1. sessions' \in {[sessions EXCEPT ![s] = NotStored],
                         [sessions EXCEPT ![a.sid] = NotStored, ![s] = session]}
      BY <1>1
    <2> HIDE DEF session, a
    <2> QED BY <1>3, <1>6, <2>1 DEF LandingIInv
  <1>10. a.asked \in Version => a.copy.previousVersion = a.asked
    BY <1>2, <1>3 DEF Kept
  <1>11. Fitting(e, signIns', agreedIn')
    <2>1. a.copy.previousVersion \in Version \cup {NoVersion}
      BY <1>3 DEF LandingSession
    <2> HIDE DEF session
    <2>2. /\ e \in WindowState /\ e.copy = session /\ e.sid = s /\ e.at = "setUp"
          /\ e.asked = a.asked /\ e.landing = a.copy.previousVersion
          /\ a.asked \in Version \cup {NoVersion}
      BY <1>3, <1>6, <2>1 DEF WindowState, UnderWay
    <2>3. s # NoId
      BY LandingAssumption
    <2> HIDE DEF e, a
    <2> QED BY <1>7, <1>10, <2>2, <2>3 DEF Fitting
  <1>12. named' \in Id \cup {NoId} /\ agreedIn' = agreedIn /\ agreedIn' \subseteq 1..signIns'
    BY <1>2, <1>3, <1>4 DEF LandingIInv
  <1> HIDE DEF session, e, a
  <1> QED BY <1>4, <1>7, <1>8, <1>9, <1>11, <1>12, OneWindow

\* Answers that leave the session as it is, but for its mode and its attempt.
LEMMA AnswersKeep ==
    ASSUME LandingIInv, NEW w \in Window,
           NEW mode \in {"none", "READ_WRITE", "READ_ONLY"}
    PROVE  /\ Kept([windows[w].copy EXCEPT !.mode = mode], signIns, agreedIn)
           /\ Kept([windows[w].copy EXCEPT !.state = <<NoWindow, NoVersion>>],
                   signIns, agreedIn)
  <1> DEFINE c == windows[w].copy
  <1>1. c \in LandingSession /\ Kept(c, signIns, agreedIn)
    BY WindowFacts
  <1> HIDE DEF c
  <1>2. Kept([c EXCEPT !.mode = mode], signIns, agreedIn)
    <2> DEFINE d == [c EXCEPT !.mode = mode]
    <2>1. /\ d \in LandingSession /\ d.signIn = c.signIn /\ d.state = c.state
          /\ d.hasAgreedPrivacyPolicy = c.hasAgreedPrivacyPolicy
          /\ d.previousVersion = c.previousVersion
      BY <1>1 DEF LandingSession
    <2> HIDE DEF d
    <2>2. Kept(d, signIns, agreedIn)
      BY <1>1, <2>1 DEF Kept
    <2> QED BY <2>2 DEF d
  <1>3. Kept([c EXCEPT !.state = <<NoWindow, NoVersion>>], signIns, agreedIn)
    <2> DEFINE d == [c EXCEPT !.state = <<NoWindow, NoVersion>>]
    <2>1. /\ d \in LandingSession /\ d.signIn = c.signIn
          /\ d.state = <<NoWindow, NoVersion>>
          /\ d.hasAgreedPrivacyPolicy = c.hasAgreedPrivacyPolicy
      BY <1>1 DEF LandingSession
    <2>2. \A u \in Window, v \in Version : <<NoWindow, NoVersion>> # <<u, v>>
      BY LandingAssumption
    <2> HIDE DEF d
    <2>3. Kept(d, signIns, agreedIn)
      BY <1>1, <2>1, <2>2 DEF Kept
    <2> QED BY <2>3 DEF d
  <1> QED BY <1>2, <1>3 DEF c

LEMMA AnswersIInv ==
    ASSUME LandingIInv, NEW w \in Window,
           \/ RefuseHandover(w) \/ SetUpHandover(w) \/ ShowPrivacy(w)
           \/ ShowVersion(w) \/ RefusePage(w)
    PROVE  LandingIInv'
  <1> DEFINE a == windows[w]
  <1>1. /\ a \in WindowState /\ Kept(a.copy, signIns, agreedIn) /\ signIns \in Nat
        /\ a.at \in UnderWay => a.sid \in Id /\ a.sid # NoId
        /\ agreedIn \subseteq 1..signIns
    BY WindowFacts, LandingAssumption DEF LandingIInv
  <1>2. ASSUME NEW session, NEW page, a.at \in UnderWay, SaveSession(w, session, page),
               agreedIn' = agreedIn, Kept(session, signIns, agreedIn),
               Fitting(page, signIns, agreedIn)
        PROVE  LandingIInv'
    BY <1>1, <1>2, SaveSessionIInv
  <1>3. Fitting(Other, signIns, agreedIn) /\ Other \in WindowState
    BY <1>1, OtherFits DEF Fitting
  <1>4. CASE RefuseHandover(w)
    <2>1. Kept([a.copy EXCEPT !.state = <<NoWindow, NoVersion>>], signIns, agreedIn)
      BY AnswersKeep
    <2> QED BY <1>2, <1>3, <1>4, <2>1 DEF RefuseHandover, UnderWay
  <1>5. CASE SetUpHandover(w)
    <2>1. \A mode \in {"none", "READ_WRITE", "READ_ONLY"} :
             Kept([a.copy EXCEPT !.mode = mode], signIns, agreedIn)
      BY AnswersKeep
    <2>2. PICK mode \in {"none", "READ_WRITE", "READ_ONLY"},
               page \in {Other} \cup {RedirectTo(t) : t \in {"plan", "version", "privacy"}} :
             SaveSession(w, [a.copy EXCEPT !.mode = mode], page)
      BY <1>5 DEF SetUpHandover
    <2>3. Fitting(page, signIns, agreedIn)
      BY <1>1, <2>2, OtherFits
    <2> QED BY <1>2, <1>5, <2>1, <2>2, <2>3 DEF SetUpHandover, UnderWay
  <1>6. CASE ShowPrivacy(w)
    <2> DEFINE page == [Page(w, "privacy") EXCEPT !.token = a.sid]
    <2>1. /\ a.at \in {"get", "post"} /\ agreedIn' = agreedIn
          /\ SaveSession(w, a.copy, page)
      BY <1>6 DEF ShowPrivacy, AskedFor
    <2>2. a.sid \in Id /\ a.sid # NoId
      BY <1>1, <2>1 DEF UnderWay
    <2>3. Fitting(page, signIns, agreedIn)
      <3>1. /\ page \in WindowState /\ page.copy = Other.copy
            /\ page.at = "privacy" /\ page.token = a.sid
        BY <1>3, <2>2 DEF Page, WindowState, UnderWay
      <3>2. Kept(Other.copy, signIns, agreedIn)
        BY <1>3 DEF Fitting
      <3> HIDE DEF page
      <3> QED BY <2>2, <3>1, <3>2 DEF Fitting, UnderWay
    <2> HIDE DEF page
    <2> QED BY <1>1, <1>2, <2>1, <2>3 DEF UnderWay
  <1>7. CASE ShowVersion(w)
    <2>1. Fitting(Page(w, "version"), signIns, agreedIn)
      BY <1>3 DEF Page, Fitting, WindowState, UnderWay
    <2> QED BY <1>1, <1>2, <1>7, <2>1 DEF ShowVersion, AskedFor, UnderWay
  <1>8. CASE RefusePage(w)
    BY <1>1, <1>2, <1>3, <1>8 DEF RefusePage, UnderWay
  <1> QED BY <1>4, <1>5, <1>6, <1>7, <1>8

LEMMA ShowPlanIInv == ASSUME LandingIInv, NEW w \in Window, ShowPlan(w) PROVE LandingIInv'
  <1> DEFINE c == windows[w].copy
  <1>1. /\ c \in LandingSession /\ Kept(c, signIns, agreedIn) /\ signIns \in Nat
        /\ agreedIn \subseteq 1..signIns
    BY WindowFacts DEF LandingIInv
  <1>2. /\ windows[w].at = "get" /\ LetThrough(c) /\ agreedIn' = agreedIn
        /\ SaveSession(w, c, IF c.hasAgreedPrivacyPolicy \/ c.mode = "READ_ONLY"
                             THEN PlanPage(w) ELSE RedirectTo("privacy"))
    BY DEF ShowPlan, AskedFor
  <1>3. Fitting(RedirectTo("privacy"), signIns, agreedIn) /\ Fitting(Other, signIns, agreedIn)
    BY <1>1, OtherFits
  <1>4. ASSUME c.hasAgreedPrivacyPolicy \/ c.mode = "READ_ONLY"
        PROVE  Fitting(PlanPage(w), signIns, agreedIn)
    <2> DEFINE d == [Fresh EXCEPT !.signIn = c.signIn, !.mode = c.mode]
    <2>1. Kept(Fresh, signIns, agreedIn) /\ Fresh \in LandingSession
      BY <1>1, FreshKept
    <2>2. /\ d \in LandingSession /\ d.signIn = c.signIn /\ d.mode = c.mode
          /\ d.hasAgreedPrivacyPolicy = FALSE /\ d.state = Fresh.state
          /\ d.previousVersion = Fresh.previousVersion
      BY <1>1, <2>1 DEF LandingSession, Fresh
    <2>3. PlanPage(w) = [Other EXCEPT !.at = "plan", !.copy = d]
      BY DEF PlanPage, Page, Other
    <2> HIDE DEF d
    <2>4. Kept(d, signIns, agreedIn)
      BY <1>1, <2>1, <2>2 DEF Kept
    <2>5. /\ c.signIn # 0
          /\ c.mode = "READ_WRITE" => c.signIn \in agreedIn
      BY <1>1, <1>2, <1>4 DEF LetThrough, Kept
    <2>6. Other \in WindowState
      BY <1>3 DEF Fitting
    <2>7. /\ PlanPage(w) \in WindowState /\ PlanPage(w).copy = d /\ PlanPage(w).at = "plan"
      BY <2>2, <2>3, <2>6 DEF WindowState, UnderWay
    <2> QED BY <2>2, <2>4, <2>5, <2>7 DEF Fitting, UnderWay
  <1>5. Fitting(IF c.hasAgreedPrivacyPolicy \/ c.mode = "READ_ONLY"
                THEN PlanPage(w) ELSE RedirectTo("privacy"), signIns, agreedIn)
    BY <1>3, <1>4
  <1> HIDE DEF c
  <1> QED BY <1>1, <1>2, <1>5, SaveSessionIInv DEF UnderWay

LEMMA AgreePrivacyIInv ==
    ASSUME LandingIInv, NEW w \in Window, AgreePrivacy(w) PROVE LandingIInv'
  <1> DEFINE c == windows[w].copy
             session == [c EXCEPT !.hasAgreedPrivacyPolicy = TRUE]
  <1>1. /\ windows[w].at = "post" /\ LetThrough(c)
        /\ SaveSession(w, session, RedirectTo("plan"))
        /\ agreedIn' = agreedIn \cup {c.signIn}
    BY DEF AgreePrivacy
  <1>2. /\ c \in LandingSession /\ Kept(c, signIns, agreedIn) /\ signIns \in Nat
        /\ agreedIn \subseteq 1..signIns
    BY WindowFacts DEF LandingIInv
  <1>3. c.signIn \in 1..signIns
    BY <1>1, <1>2 DEF LetThrough, Kept, LandingSession
  <1>4. /\ session \in LandingSession /\ session.signIn = c.signIn
        /\ session.state = c.state /\ session.previousVersion = c.previousVersion
    BY <1>2 DEF LandingSession
  <1> HIDE DEF c, session
  <1>5. Kept(session, signIns, agreedIn')
    BY <1>1, <1>2, <1>4 DEF Kept
  <1>6. Fitting(RedirectTo("plan"), signIns, agreedIn')
    BY <1>2, OtherFits
  <1>7. agreedIn \subseteq agreedIn' /\ agreedIn' \subseteq 1..signIns
    BY <1>1, <1>2, <1>3
  <1> QED BY <1>1, <1>5, <1>6, <1>7, SaveSessionIInv DEF UnderWay

LEMMA LandingInitIInv == LandingInit => LandingIInv
  <1> SUFFICES ASSUME LandingInit PROVE LandingIInv
    OBVIOUS
  <1>1. \A w \in Window : windows[w] = Other
    BY DEF LandingInit
  <1>2. Fitting(Other, signIns, agreedIn) /\ Other \in WindowState
    BY OtherFits DEF LandingInit, Fitting
  <1>3. windows \in [Window -> WindowState]
    BY <1>2 DEF LandingInit
  <1> QED BY <1>1, <1>2, <1>3, LandingAssumption DEF LandingInit, LandingIInv

LEMMA LandingNextIInv == LandingIInv /\ [LandingNext]_landingVars => LandingIInv'
  <1> SUFFICES ASSUME LandingIInv, [LandingNext]_landingVars PROVE LandingIInv'
    OBVIOUS
  <1>1. ASSUME NEW w \in Window, StartHandover(w) \/ LogInHandover(w) \/ LeavePage(w)
                                 \/ ShowPlan(w) \/ AgreePrivacy(w)
        PROVE  LandingIInv'
    BY <1>1, StartHandoverIInv, LogInHandoverIInv, LeavePageIInv, ShowPlanIInv,
       AgreePrivacyIInv
  <1>2. ASSUME NEW w \in Window, \/ FollowHandover(w) \/ ReturnFromHandover(w)
                                 \/ AskFor(w) \/ SubmitPrivacy(w)
        PROVE  LandingIInv'
    BY <1>2, RequestsIInv
  <1>3. ASSUME NEW w \in Window, \/ RefuseHandover(w) \/ SetUpHandover(w) \/ ShowPrivacy(w)
                                 \/ ShowVersion(w) \/ RefusePage(w)
        PROVE  LandingIInv'
    BY <1>3, AnswersIInv
  <1>4. CASE UNCHANGED landingVars
    BY <1>4 DEF landingVars, LandingIInv
  <1> QED BY <1>1, <1>2, <1>3, <1>4 DEF LandingNext

LEMMA LandingInvariance == LandingSpec => []LandingIInv
  BY LandingInitIInv, LandingNextIInv, PTL DEF LandingSpec

\* Sessions, tabs and agreements have their types, and every form its token.
THEOREM LandingTypeCorrect == LandingSpec => []LandingTypeOK
  <1>1. LandingIInv => LandingTypeOK
    BY DEF LandingIInv, LandingTypeOK, Fitting
  <1> QED BY <1>1, LandingInvariance, PTL

\* Nobody sees the plan unasked: for any number of tabs, sign-ins and failures of
\* the store, who may change the plan has agreed to the privacy screen since
\* signing in.
THEOREM PrivacyFirst == LandingSpec => []PlanAfterPrivacy
  <1>1. LandingIInv => PlanAfterPrivacy
    BY DEF LandingIInv, PlanAfterPrivacy, Fitting
  <1> QED BY <1>1, LandingInvariance, PTL

\* Who signed in from the link of a previous version is sent to that version.
THEOREM AskedVersion == LandingSpec => []VersionAsAsked
  <1>1. LandingIInv => VersionAsAsked
    BY DEF LandingIInv, VersionAsAsked, Fitting
  <1> QED BY <1>1, LandingInvariance, PTL
=============================================================================
