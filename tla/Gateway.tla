------------------------------- MODULE Gateway -------------------------------
(***************************************************************************)
(* The world behind the cloud API, as coordinator.py and PROTOCOL.md use   *)
(* it: who holds the live-client claim, what the gateway was told to do,   *)
(* where the shutters are, and what the cloud's plant cache says of them.  *)
(* None of it is code of this repository.                                  *)
(***************************************************************************)
EXTENDS Naturals

CONSTANTS
    Shutters,
    Positions,
    NoPosition     \* no position cached, or no command pending

VARIABLES
    claim,         \* this integration is the live client
    truth,         \* where each shutter is
    goal,          \* the command the gateway is working on
    cache          \* what GetPlant answers: position and motion of each shutter

GatewayTypeOK ==
    /\ claim \in BOOLEAN
    /\ truth \in [Shutters -> Positions]
    /\ goal \in [Shutters -> Positions \union {NoPosition}]
    /\ cache \in [Shutters -> [position : Positions \union {NoPosition}, moving : BOOLEAN]]

GatewayInit ==
    /\ claim = TRUE
    /\ truth \in [Shutters -> Positions]
    /\ goal = [s \in Shutters |-> NoPosition]
    /\ cache \in [Shutters -> [position : Positions \union {NoPosition}, moving : {FALSE}]]

\* A shutter is driven while its command is pending and it is elsewhere.
Driven(s) == goal[s] \notin {NoPosition, truth[s]}

\* A command frame for s reaches the cloud.  Without the claim it goes nowhere;
\* under the claim the gateway queues it, which may clear the cached position,
\* and the mesh delivers it or loses it.
Route(s, p) ==
    \/ /\ claim'
       /\ goal' \in {goal, [goal EXCEPT ![s] = p]}
       /\ cache' \in {cache, [cache EXCEPT ![s].position = NoPosition]}
    \/ /\ ~claim'
       /\ UNCHANGED <<goal, cache>>

\* The shutter arrives, or has nothing to do.
Arrive(s) ==
    /\ goal[s] # NoPosition
    /\ truth' = [truth EXCEPT ![s] = goal[s]]
    /\ goal' = [goal EXCEPT ![s] = NoPosition]
    /\ UNCHANGED <<claim, cache>>

\* Telemetry reaches the cache, or what is cached expires.
Report(s) ==
    /\ cache' = [cache EXCEPT ![s] = [position |-> truth[s], moving |-> Driven(s)]]
    /\ UNCHANGED <<claim, truth, goal>>

Expire(s) ==
    /\ cache' = [cache EXCEPT ![s].position = NoPosition]
    /\ UNCHANGED <<claim, truth, goal>>

\* Another app opens its notification channel.
Takeover ==
    /\ claim' = FALSE
    /\ UNCHANGED <<truth, goal, cache>>
=============================================================================
