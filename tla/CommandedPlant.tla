---------------------------- MODULE CommandedPlant ----------------------------
(***************************************************************************)
(* The command path (SendCommand) over the gateway (Gateway): what the     *)
(* coordinator reads is what the cloud caches, a handshake is what wins    *)
(* the live-client claim back, and a frame reaches the gateway only under  *)
(* the claim.  It relates what a service call reports to what happened.    *)
(***************************************************************************)
EXTENDS SendCommand

CONSTANTS
    Shutters,
    ShutterOf      \* the shutter each service call is for

ASSUME ShutterOfAssumption == ShutterOf \in [Commands -> Shutters]

VARIABLES
    claim, truth, goal, cache,   \* see Gateway
    arrived,    \* the cloud got the frame that the call waits for
    routed,     \* a frame of the call reached the cloud under the claim (auxiliary)
    drove       \* the motor ran since the call began (auxiliary)

INSTANCE Gateway

world == <<claim, truth, goal, cache>>
plantVars == <<vars, world, arrived, routed, drove>>

PlantTypeOK ==
    /\ TypeOK
    /\ GatewayTypeOK
    /\ arrived \in [Commands -> BOOLEAN]
    /\ routed \in [Commands -> BOOLEAN]
    /\ drove \in [Commands -> BOOLEAN]

PlantInit ==
    /\ Init
    /\ GatewayInit
    /\ arrived = [c \in Commands |-> FALSE]
    /\ routed = [c \in Commands |-> FALSE]
    /\ drove = [c \in Commands |-> FALSE]

-----------------------------------------------------------------------------
\* A connection is only opened with the handshake, which wins the claim.
Connects == claim' = (claim \/ (connected' /\ ~connected))

\* The same for an operation that may lose its connection and open another.
Reconnects == claim' \in {claim, TRUE} /\ (connected' /\ ~connected => claim')

\* What the cloud answers when the call reads the plant.
Cached(c) == cache[ShutterOf[c]]

PlantBegin(c, p) ==
    /\ Begin(c, p)
    /\ UNCHANGED <<world, arrived, routed>>

\* A frame is written, and reaches the cloud or is lost with the connection.
PlantTransmit(c) ==
    /\ Transmit(c)
    /\ Connects
    /\ \/ /\ Route(ShutterOf[c], target[c])
          /\ arrived' = [arrived EXCEPT ![c] = TRUE]
          /\ routed' = [routed EXCEPT ![c] = @ \/ claim']
       \/ UNCHANGED <<goal, cache, arrived, routed>>
    /\ UNCHANGED truth

\* The answer to a frame needs the frame to have arrived.
PlantAnswer(c) ==
    /\ SendAccepted(c) /\ arrived[c]
    /\ arrived' = [arrived EXCEPT ![c] = FALSE]
    /\ UNCHANGED <<world, routed>>

PlantError(c) ==
    /\ SendErrored(c) \/ SendFails(c)
    /\ arrived' = [arrived EXCEPT ![c] = FALSE]
    /\ Reconnects
    /\ UNCHANGED <<truth, goal, cache, routed>>

\* The call reads the plant: it is told what the cloud has cached.
PlantRead(c) ==
    /\ \/ FetchBaseline(c, Cached(c))
       \/ FetchBaselineFails(c)
       \/ VerifySucceeds(c, Cached(c))
       \/ \E alive \in BOOLEAN : VerifyPoll(c, alive) /\ (alive => ~Evidence(c, Cached(c)))
       \/ RefreshDone(c)
    /\ Reconnects
    /\ UNCHANGED <<truth, goal, cache, arrived, routed>>

\* The call drops the connection, or waits for the lock.
PlantDrop(c) ==
    /\ PreemptDone(c) \/ RetryDone(c) \/ ReclaimDone(c) \/ Acquire(c)
    /\ UNCHANGED <<world, arrived, routed>>

PlantPoll(outcome) ==
    /\ Poll(outcome)
    /\ Reconnects
    /\ UNCHANGED <<truth, goal, cache, arrived, routed>>

PlantTime ==
    /\ TelemetryAges \/ Tick
    /\ UNCHANGED <<world, arrived, routed>>

\* The other app opens between two calls of this history, not during one.
World ==
    /\ \/ \E s \in Shutters : Arrive(s) \/ Report(s) \/ Expire(s)
       \/ InFlight = {} /\ Takeover
    /\ UNCHANGED <<vars, arrived, routed>>

\* The motor of a call's shutter has run once the gateway drives it.
NoteMotor ==
    drove' = [c \in Commands |->
                 drove[c] \/ (pc'[c] \notin {"idle"} \union Ended /\ Driven(ShutterOf[c])')]

PlantNext ==
    /\ \/ \E c \in Commands :
             \/ \E p \in Positions : PlantBegin(c, p)
             \/ PlantTransmit(c)
             \/ PlantAnswer(c)
             \/ PlantError(c)
             \/ PlantRead(c)
             \/ PlantDrop(c)
       \/ \E outcome \in PollOutcomes : PlantPoll(outcome)
       \/ PlantTime
       \/ World
    /\ NoteMotor

PlantSpec == PlantInit /\ [][PlantNext]_plantVars

-----------------------------------------------------------------------------
(* Properties of calls that do not overlap.                                *)

\* A call that the fast path reports as done, or that is given up as offline,
\* was sent under the claim at least once: when the other app took the claim
\* before the call, the call itself has won it back.
EndsUnderClaim ==
    \A c \in Commands :
        pc[c] = "offline" \/ (pc[c] = "ok" /\ via[c] = "fast") => routed[c]

\* When a call returns or raises, suspicion is raised exactly if it took the
\* fast path: earlier suspicion is gone, and the in-line reclaim leaves none.
SuspicionMatchesOutcome ==
    [][\A c \in Commands : pc[c] \notin Ended /\ pc'[c] \in Ended =>
          unverified' = IF pc'[c] = "ok" /\ via[c] = "fast" THEN 1 ELSE 0]_plantVars

\* A call that is reported done by evidence of the motor had the motor run.
EvidenceMeansMotorRan ==
    \A c \in Commands : pc[c] = "ok" /\ via[c] = "evidence" => drove[c]
=============================================================================
