--------------------------- MODULE CommandService ----------------------------
(***************************************************************************)
(* What the command path of FinderYouCoordinator promises to its callers:  *)
(* a call is sent at most MaxAttempts times, one call at a time, and every *)
(* send that the cloud accepted is settled before the call succeeds, is    *)
(* given up as offline or is sent again.  A call that fails otherwise      *)
(* fails in a send.                                                        *)
(***************************************************************************)
EXTENDS Naturals

CONSTANTS Commands, MaxAttempts

VARIABLES phase,   \* what each call is doing
          sends    \* how many sends each call has started

vars == <<phase, sends>>

Phases == {"idle", "waiting", "sending", "settling", "ok", "offline", "failed"}

TypeOK ==
    /\ phase \in [Commands -> Phases]
    /\ sends \in [Commands -> 0 .. MaxAttempts]

Init ==
    /\ phase = [c \in Commands |-> "idle"]
    /\ sends = [c \in Commands |-> 0]

\* A call waits for its turn, before its first send or before a further one.
Wait(c) ==
    /\ phase[c] \in {"idle", "settling"}
    /\ sends[c] < MaxAttempts
    /\ phase' = [phase EXCEPT ![c] = "waiting"]
    /\ UNCHANGED sends

Send(c) ==
    /\ phase[c] \in {"idle", "waiting", "settling"}
    /\ sends[c] < MaxAttempts
    /\ \A d \in Commands : phase[d] # "sending"
    /\ phase' = [phase EXCEPT ![c] = "sending"]
    /\ sends' = [sends EXCEPT ![c] = @ + 1]

Accept(c) ==
    /\ phase[c] = "sending"
    /\ phase' = [phase EXCEPT ![c] = "settling"]
    /\ UNCHANGED sends

Fail(c) ==
    /\ phase[c] = "sending"
    /\ phase' = [phase EXCEPT ![c] = "failed"]
    /\ UNCHANGED sends

Succeed(c) ==
    /\ phase[c] = "settling"
    /\ phase' = [phase EXCEPT ![c] = "ok"]
    /\ UNCHANGED sends

\* Offline is the verdict of MaxAttempts sends, never of fewer.
GiveUp(c) ==
    /\ phase[c] = "settling"
    /\ sends[c] = MaxAttempts
    /\ phase' = [phase EXCEPT ![c] = "offline"]
    /\ UNCHANGED sends

Next ==
    \E c \in Commands :
        Wait(c) \/ Send(c) \/ Accept(c) \/ Fail(c) \/ Succeed(c) \/ GiveUp(c)

Spec == Init /\ [][Next]_vars
=============================================================================
