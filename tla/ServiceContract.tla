-------------------------- MODULE ServiceContract --------------------------
(***************************************************************************)
(* What the process promises its callers about admission and shutdown      *)
(* (docs/operations.md, "Shutdown"), with no servers, goroutines or        *)
(* channels: analysis calls are accepted only while the service is open,   *)
(* an accepted call is answered unless the shutdown deadline cuts it off,  *)
(* and the Market Data connection goes away only after the last one.       *)
(***************************************************************************)
CONSTANT Calls   \* the analysis calls

VARIABLES
  phase,      \* "down", "open", "draining" or "closed"
  expired,    \* the shutdown deadline has passed
  work        \* each call's fate

vars == <<phase, expired, work>>

Fates == {"waiting", "working", "refused", "answered", "aborted"}

Init ==
  /\ phase = "down"
  /\ expired = FALSE
  /\ work = [c \in Calls |-> "waiting"]

Settle(c, from, to) ==
  /\ work[c] = from
  /\ work' = [work EXCEPT ![c] = to]
  /\ UNCHANGED <<phase, expired>>

(* A service that fails to start goes straight from down to closed.        *)
Open  == phase = "down" /\ phase' = "open" /\ UNCHANGED <<expired, work>>
Abandon == phase = "down" /\ phase' = "closed" /\ UNCHANGED <<expired, work>>
Drain == phase = "open" /\ phase' = "draining" /\ UNCHANGED <<expired, work>>

Expire ==
  /\ phase \in {"open", "draining"}
  /\ expired' = TRUE
  /\ UNCHANGED <<phase, work>>

Accept(c) == phase = "open" /\ Settle(c, "waiting", "working")
Refuse(c) == phase \in {"down", "draining"} /\ Settle(c, "waiting", "refused")
Answer(c) == phase \in {"open", "draining"} /\ Settle(c, "working", "answered")
Abort(c)  == phase = "draining" /\ expired /\ Settle(c, "working", "aborted")

Close ==
  /\ phase = "draining"
  /\ \A c \in Calls : work[c] # "working"
  /\ phase' = "closed"
  /\ UNCHANGED <<expired, work>>

Next ==
  \/ Open \/ Abandon \/ Drain \/ Expire \/ Close
  \/ \E c \in Calls : Accept(c) \/ Refuse(c) \/ Answer(c) \/ Abort(c)

Spec == Init /\ [][Next]_vars
=============================================================================
