---------------------------- MODULE ServiceCalls ----------------------------
(***************************************************************************)
(* What the REST client promises the handlers that call the services,      *)
(* without tokens, attempts, retries and timeouts.                         *)
(*                                                                         *)
(* A request has one call at a time, and is told how it ended.  A write    *)
(* happens once or not at all: once before a result, not at all before     *)
(* "not found", and who is told of an error knows neither, as it may even  *)
(* happen later.  A delete that was told as done, or its goal as not       *)
(* found, is done.  "null" is only for calls that read.                    *)
(***************************************************************************)
CONSTANT Request

VARIABLES
    asked,   \* what each request's last call is to do
    told,    \* how it ended, as the request was told
    done,    \* the requests whose write has happened
    goal     \* the goal is there

vars == <<asked, told, done, goal>>

Init ==
    /\ asked = [r \in Request |-> "nothing"]
    /\ told = [r \in Request |-> "nothing"]
    /\ done = {}
    /\ goal = TRUE

Free(r) == asked[r] = "nothing" \/ told[r] # "nothing"

\* The request makes a call, or its next one.
Ask(r) ==
    /\ Free(r)
    /\ \E what \in {"read", "write", "delete"} : asked' = [asked EXCEPT ![r] = what]
    /\ told' = [told EXCEPT ![r] = "nothing"]
    /\ done' = done \ {r}
    /\ UNCHANGED goal

\* The request ends, and another can take its place.
Leave(r) ==
    /\ Free(r)
    /\ asked' = [asked EXCEPT ![r] = "nothing"]
    /\ told' = [told EXCEPT ![r] = "nothing"]
    /\ done' = done \ {r}
    /\ UNCHANGED goal

Write(r) ==
    /\ asked[r] = "write" /\ told[r] \in {"nothing", "error"}
    /\ r \notin done
    /\ done' = done \cup {r}
    /\ UNCHANGED <<asked, told, goal>>

Delete(r) ==
    /\ asked[r] = "delete" /\ told[r] \in {"nothing", "error"}
    /\ goal /\ ~goal'
    /\ UNCHANGED <<asked, told, done>>

\* What the state of the services lets the request be told.
MayTell(r, outcome) ==
    CASE outcome = "result" -> /\ asked[r] = "write" => r \in done
                               /\ asked[r] = "delete" => ~goal
      [] outcome = "not found" -> /\ asked[r] = "write" => r \notin done
                                  /\ asked[r] = "delete" => ~goal
      [] outcome = "null" -> asked[r] = "read"
      [] outcome = "error" -> TRUE

Tell(r, outcome) ==
    /\ asked[r] # "nothing" /\ told[r] = "nothing"
    /\ MayTell(r, outcome)
    /\ told' = [told EXCEPT ![r] = outcome]
    /\ UNCHANGED <<asked, done, goal>>

Next ==
    \E r \in Request :
        \/ Ask(r) \/ Leave(r) \/ Write(r) \/ Delete(r)
        \/ \E outcome \in {"result", "null", "not found", "error"} : Tell(r, outcome)

Spec == Init /\ [][Next]_vars
=============================================================================
