------------------------------ MODULE Connection ------------------------------
(***************************************************************************)
(* What the coordinator takes a FinderHomeClient to be, and what           *)
(* ClientLifecycle models of it: a connection that is established once,    *)
(* answers calls while it lives, and answers none once it has died or has  *)
(* been closed.                                                            *)
(***************************************************************************)

CONSTANT Calls

VARIABLES status, phase

vars == <<status, phase>>

Init ==
    /\ status = "handshaking"
    /\ phase = [c \in Calls |-> "idle"]

Goto(c, from, to) ==
    /\ phase[c] \in from
    /\ phase' = [phase EXCEPT ![c] = to]
    /\ UNCHANGED status

Establish == status = "handshaking" /\ status' = "live" /\ UNCHANGED phase

Die == status \in {"handshaking", "live"} /\ status' = "dead" /\ UNCHANGED phase

Close == status' = "closed" /\ UNCHANGED phase

\* A call may be made on a dead or closed connection: it is not told.
Request(c) == status # "handshaking" /\ Goto(c, {"idle"}, "waiting")

Refuse(c) == status # "handshaking" /\ Goto(c, {"idle"}, "failed")

Answer(c) == status = "live" /\ Goto(c, {"waiting"}, "answered")

Return(c) == Goto(c, {"answered"}, "returned")

\* An error response, or the timeout, also of an answer that has arrived.
Fail(c) == Goto(c, {"waiting", "answered"}, "failed")

Next ==
    \/ Establish \/ Die \/ Close
    \/ \E c \in Calls :
          Request(c) \/ Refuse(c) \/ Answer(c) \/ Return(c) \/ Fail(c)

Spec == Init /\ [][Next]_vars
=============================================================================
