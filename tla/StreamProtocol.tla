--------------------------- MODULE StreamProtocol ---------------------------
(***************************************************************************)
(* What a stream promises its client: a state machine driven by one        *)
(* request at a time, each performed at one instant and answered once.     *)
(* How the worker gets there, in how many steps, does not show.            *)
(***************************************************************************)

CONSTANTS
  Requests,     \* what a client may ask for
  Edges,        \* <<request, from, to>>: a request moves the stream along an edge
  Spontaneous   \* <<from, to>>: moves the stream makes on its own

VARIABLES state, request, answer

protocolVars == <<state, request, answer>>

Nothing == "none"

Init == state = "STANDBY" /\ request = Nothing /\ answer = Nothing

Issue(r) ==
  /\ request = Nothing
  /\ request' = r
  /\ UNCHANGED <<state, answer>>

Pending == request # Nothing /\ answer = Nothing

Possible == {e \in Edges : e[1] = request /\ e[2] = state}

Perform ==
  /\ Pending
  /\ \E e \in Possible : state' = e[3]
  /\ answer' = "OK"
  /\ UNCHANGED request

\* Only a request that could have been performed makes the stream fail; the
\* answer itself may still be OK, the failure shows in the state that is
\* reported with it.
Fail ==
  /\ Pending
  /\ Possible # {}
  /\ state' = "ERROR"
  /\ answer' \in {"OK", "BAD_VALUE"}
  /\ UNCHANGED request

Refuse ==
  /\ Pending
  /\ Possible = {}
  /\ answer' = CASE request = "getStatus" -> "OK"
                 [] request = "malformed" -> "BAD_VALUE"
                 [] OTHER                 -> "INVALID_OPERATION"
  /\ UNCHANGED <<state, request>>

Answer ==
  /\ answer # Nothing
  /\ request' = Nothing
  /\ answer' = Nothing
  /\ UNCHANGED state

Move ==
  /\ \E m \in Spontaneous : state = m[1] /\ state' = m[2]
  /\ UNCHANGED <<request, answer>>

\* The transport broke down: the request under way is never answered.
Break ==
  /\ state # "CLOSED"
  /\ state' = "ERROR"
  /\ answer' = Nothing
  /\ UNCHANGED request

Close ==
  /\ answer = Nothing
  /\ state' = "CLOSED"
  /\ UNCHANGED <<request, answer>>

Next ==
  \/ \E r \in Requests : Issue(r)
  \/ Perform \/ Fail \/ Refuse \/ Answer \/ Move \/ Break \/ Close

Spec == Init /\ [][Next]_protocolVars
=============================================================================
