-------------------------- MODULE CommandedPlantProofs --------------------------
(***************************************************************************)
(* What holds of the command path over the gateway: what it keeps of       *)
(* SendCommand, for any calls, and what a verdict means for calls that do  *)
(* not overlap.                                                            *)
(***************************************************************************)
EXTENDS CommandedPlant, SendCommandProofs, FiniteSetTheorems

\* Calls that do not overlap: the next begins when nobody is in flight.
OneAtATime == MaxInFlight = 1 /\ IsFiniteSet(Commands)

Alone == \A c, d \in Commands : c \in InFlight /\ d \in InFlight => c = d

\* Until a call settles, the count is what it was when its attempt began; after
\* it, the count is what became of the attempt.
CountFollows ==
    \A c \in Commands :
        /\ pc[c] \in {"queued", "verify", "retry"} \union Sending => unverified = pre[c]
        /\ pc[c] = "refresh" =>
               \/ via[c] \in {"noop", "evidence"} /\ unverified = 0
               \/ via[c] = "fast" /\ unverified = pre[c] + 1

\* With a limit of one, no attempt begins under suspicion.
NoSuspicionCarried == UnverifiedLimit <= 1 => \A c \in Commands : pre[c] = 0

SoloInv == Alone /\ CountFollows /\ NoSuspicionCarried /\ FastPathRetried

-----------------------------------------------------------------------------
(* The command path for itself, one call at a time.                        *)

\* Where nobody is in flight, nobody holds the lock.
LEMMA NobodyHolds ==
    ASSUME Inv, InFlight = {}
    PROVE  sendLock = NoCommand
BY DEF Inv, TypeOK, SendsSerialized, InFlight, Sending, Ended

\* A call begins when nobody is in flight.
LEMMA BeginsAlone ==
    ASSUME OneAtATime, NEW c \in Commands, NEW p \in Positions, Begin(c, p)
    PROVE  InFlight = {}
<1>1. IsFiniteSet(InFlight)
  BY FS_Subset DEF InFlight, OneAtATime
<1>2. Cardinality(InFlight) < 1
  BY DEF Begin, OneAtATime
<1>3. Cardinality(InFlight) \in Nat
  BY <1>1, FS_CardinalityType
<1> QED
  BY <1>1, <1>2, <1>3, FS_EmptySet

\* Every step leaves at most one call in flight.
LEMMA NextAlone ==
    ASSUME OneAtATime, Inv, Alone, [Next]_vars
    PROVE  Alone'
<1> USE DEF Inv, TypeOK, Alone, InFlight
<1>1. CASE UNCHANGED pc
  BY <1>1
<1>2. ASSUME NEW c \in Commands, NEW place, Goto(c, place), c \in InFlight
      PROVE  Alone'
  BY <1>2 DEF Goto
<1>3. ASSUME NEW c \in Commands, NEW place, Goto(c, place), InFlight = {}
      PROVE  Alone'
  BY <1>3 DEF Goto
<1>4. ASSUME NEW c \in Commands, NEW n, NEW count, StartAttempt(c, n, count)
      PROVE  \E place : Goto(c, place)
  BY <1>4 DEF StartAttempt, JoinLock
<1>5. ASSUME NEW c \in Commands, NEW p \in Positions, Begin(c, p)
      PROVE  Alone'
  <2>1. \E place : Goto(c, place)
    BY <1>4, <1>5 DEF Begin
  <2> QED
    BY <1>3, <1>5, <2>1, BeginsAlone
<1>6. ASSUME NEW c \in Commands, Step(c)
      PROVE  Alone'
  <2>1. c \in InFlight
    BY <1>6 DEF Step, PreemptDone, Acquire, FetchBaseline, FetchBaselineFails, Transmit,
                SendErrored, SendFails, SendAccepted, VerifySucceeds, VerifyPoll, RetryDone,
                RefreshDone, ReclaimDone, Ended
  <2>2. UNCHANGED pc \/ \E place : Goto(c, place)
    <3>1. CASE PreemptDone(c) \/ RetryDone(c) \/ ReclaimDone(c)
      BY <1>4, <3>1 DEF PreemptDone, RetryDone, ReclaimDone
    <3>2. CASE ~(PreemptDone(c) \/ RetryDone(c) \/ ReclaimDone(c))
      BY <1>6, <3>2 DEF Step, Acquire, FetchBaseline, FetchBaselineFails, Transmit,
                SendErrored, SendFails, SendAccepted, VerifySucceeds, VerifyPoll,
                VerifyTimesOut, RefreshDone, Settle
    <3> QED
      BY <3>1, <3>2
  <2> QED
    BY <1>1, <1>2, <2>1, <2>2
<1>7. CASE Environment
  BY <1>1, <1>7 DEF Environment, Poll, TelemetryAges, Tick
<1>8. CASE UNCHANGED vars
  BY <1>1, <1>8 DEF vars
<1> QED
  BY <1>5, <1>6, <1>7, <1>8 DEF Next

\* What an attempt that begins leaves behind: nothing is counted yet.
LEMMA StartKeepsSolo ==
    ASSUME Inv, SoloInv, NEW c \in Commands, NEW n \in 0 .. MaxAttempts - 1,
           NEW count \in Nat, StartAttempt(c, n, count),
           \A d \in Commands : d # c => d \notin InFlight,
           pc[c] \notin Ended, UNCHANGED via,
           \A d \in Commands : d # c => reclaimed'[d] = reclaimed[d],
           UnverifiedLimit <= 1 => count = 0
    PROVE  CountFollows' /\ NoSuspicionCarried' /\ FastPathRetried'
<1> USE DEF Inv, TypeOK, SoloInv
<1>1. /\ \A d \in Commands : d # c => pc'[d] = pc[d]
      /\ pc'[c] \in {"gap", "queued"}
      /\ pre' = [pre EXCEPT ![c] = count] /\ unverified' = count
      /\ attempt' = [attempt EXCEPT ![c] = n]
  BY DEF StartAttempt, JoinLock, Goto
<1>2. CountFollows'
  BY <1>1 DEF CountFollows, InFlight, Sending, Ended
<1>3. NoSuspicionCarried'
  BY <1>1 DEF NoSuspicionCarried
<1>4. FastPathRetried'
  BY <1>1 DEF FastPathRetried
<1> QED
  BY <1>2, <1>3, <1>4

\* Every step of a call keeps the books of the call in flight.
LEMMA StepKeepsSolo ==
    ASSUME Inv, SoloInv, NEW c \in Commands, Step(c)
    PROVE  CountFollows' /\ NoSuspicionCarried' /\ FastPathRetried'
<1> USE BoundsAssumption DEF Inv, TypeOK, SoloInv
<1>1. c \in InFlight
  BY DEF InFlight, Step, PreemptDone, Acquire, FetchBaseline, FetchBaselineFails, Transmit,
         SendErrored, SendFails, SendAccepted, VerifySucceeds, VerifyPoll, RetryDone,
         RefreshDone, ReclaimDone, Ended
<1>2. \A d \in Commands : d # c => d \notin InFlight
  BY <1>1 DEF Alone
<1>3. CASE PreemptDone(c)
  <2>1. 0 \in 0 .. MaxAttempts - 1
    OBVIOUS
  <2> QED
    BY <1>2, <1>3, <2>1, StartKeepsSolo DEF PreemptDone, cycle, Ended
<1>4. CASE RetryDone(c)
  <2>1. attempt[c] + 1 \in 0 .. MaxAttempts - 1
    BY <1>4 DEF RetryDone, AttemptsCounted
  <2>2. UnverifiedLimit <= 1 => unverified = 0
    BY <1>4 DEF RetryDone, CountFollows, NoSuspicionCarried
  <2> QED
    BY <1>2, <1>4, <2>1, <2>2, StartKeepsSolo DEF RetryDone, cycle, Ended
<1>5. CASE ReclaimDone(c)
  <2>1. attempt[c] + 1 \in 0 .. MaxAttempts - 1
    BY <1>5 DEF ReclaimDone, AttemptsCounted
  <2>2. UnverifiedLimit <= 1 => pre[c] = 0
    BY DEF NoSuspicionCarried
  <2> QED
    BY <1>2, <1>5, <2>1, <2>2, StartKeepsSolo DEF ReclaimDone, cycle, Ended
\* In the send section nothing is counted.
<1>6. ASSUME NEW place \in Sending \union {"failed"}, Goto(c, place),
             pc[c] \in {"queued"} \union Sending, UNCHANGED <<local, via, unverified>>
      PROVE  CountFollows' /\ NoSuspicionCarried' /\ FastPathRetried'
  BY <1>6 DEF CountFollows, NoSuspicionCarried, FastPathRetried, Goto, local, Sending
<1>7. CASE SendAccepted(c)
  <2>1. \A d \in Commands : d # c => pc[d] \in {"idle"} \union Ended
    BY <1>2 DEF InFlight
  <2>2. unverified = pre[c] /\ UNCHANGED local
    BY <1>7 DEF SendAccepted, CountFollows, Sending
  <2>3. CASE Settle(c, "refresh", "noop") /\ unverified' = 0
    BY <2>1, <2>2, <2>3 DEF Settle, CountFollows, NoSuspicionCarried, FastPathRetried, Goto,
              local, Sending, Ended
  <2>4. CASE Settle(c, "refresh", "fast") /\ unverified' = unverified + 1
    BY <2>1, <2>2, <2>4 DEF Settle, CountFollows, NoSuspicionCarried, FastPathRetried, Goto,
              local, Sending, Ended
  <2>5. CASE Goto(c, "verify") /\ UNCHANGED <<via, unverified>>
    BY <2>1, <2>2, <2>5 DEF CountFollows, NoSuspicionCarried, FastPathRetried, Goto,
              local, Sending, Ended
  <2> QED
    BY <1>7, <2>3, <2>4, <2>5 DEF SendAccepted
<1>8. ASSUME NEW reading \in Readings, VerifySucceeds(c, reading)
      PROVE  CountFollows' /\ NoSuspicionCarried' /\ FastPathRetried'
  <2>1. \A d \in Commands : d # c => pc[d] \in {"idle"} \union Ended
    BY <1>2 DEF InFlight
  <2> QED
    BY <1>8, <2>1 DEF VerifySucceeds, Settle, CountFollows, NoSuspicionCarried, FastPathRetried,
                      Goto, local, Sending, Ended
<1>9. ASSUME NEW alive \in BOOLEAN, VerifyPoll(c, alive)
      PROVE  CountFollows' /\ NoSuspicionCarried' /\ FastPathRetried'
  BY <1>9 DEF VerifyPoll, VerifyTimesOut, Settle, CountFollows, NoSuspicionCarried,
              FastPathRetried, Goto, local, Sending
<1>10. CASE RefreshDone(c)
  <2>1. pc[c] = "refresh" /\ UNCHANGED <<local, via, unverified>>
    BY <1>10 DEF RefreshDone, cycle
  <2>2. CASE NeedsReclaim(c) /\ Goto(c, "reclaim")
    BY <2>1, <2>2 DEF CountFollows, NoSuspicionCarried, FastPathRetried, Goto, local, Sending
  <2>3. CASE ~NeedsReclaim(c) /\ Goto(c, "ok")
    <3>1. via[c] = "fast" => reclaimed[c] \/ attempt[c] + 1 = MaxAttempts
      <4>1. attempt[c] \in 0 .. MaxAttempts - 1 /\ pre[c] \in Nat
        OBVIOUS
      <4>2. via[c] = "fast" => unverified = pre[c] + 1
        BY <2>1 DEF CountFollows
      <4>3. via[c] = "fast" => unverified > pre[c]
        BY <4>1, <4>2
      <4>4. via[c] = "fast" => reclaimed[c] \/ ~(attempt[c] + 1 < MaxAttempts)
        BY <2>3, <4>3 DEF NeedsReclaim
      <4> QED
        BY <4>1, <4>4
    <3> QED
      BY <2>1, <2>3, <3>1 DEF CountFollows, NoSuspicionCarried, FastPathRetried, Goto, local,
                              Sending
  <2> QED
    BY <1>10, <2>2, <2>3 DEF RefreshDone
<1>11. CASE Acquire(c)
  BY <1>6, <1>11 DEF Acquire, cycle, health, Sending
<1>12. ASSUME NEW reading \in Readings, FetchBaseline(c, reading)
       PROVE  CountFollows' /\ NoSuspicionCarried' /\ FastPathRetried'
  BY <1>6, <1>12 DEF FetchBaseline, Sending
<1>13. CASE FetchBaselineFails(c) \/ Transmit(c) \/ SendErrored(c) \/ SendFails(c)
  BY <1>6, <1>13 DEF FetchBaselineFails, Transmit, SendErrored, SendFails, cycle, Sending
<1> QED
  BY <1>3, <1>4, <1>5, <1>7, <1>8, <1>9, <1>10, <1>11, <1>12, <1>13 DEF Step

\* A call that begins does so without suspicion, or drops the client first.
LEMMA BeginKeepsSolo ==
    ASSUME OneAtATime, Inv, SoloInv, NEW c \in Commands, NEW p \in Positions, Begin(c, p)
    PROVE  CountFollows' /\ NoSuspicionCarried' /\ FastPathRetried'
<1> USE BoundsAssumption DEF Inv, TypeOK, SoloInv
<1>1. InFlight = {} /\ sendLock = NoCommand
  BY BeginsAlone, NobodyHolds
<1>2. CASE ShouldPreempt
  BY <1>2 DEF Begin, Goto, CountFollows, NoSuspicionCarried, FastPathRetried, cycle, Sending
<1>3. CASE ~ShouldPreempt
  <2>1. StartAttempt(c, 0, unverified) /\ UNCHANGED <<via, reclaimed>> /\ pc[c] \notin Ended
    BY <1>3 DEF Begin, cycle, Ended
  <2>2. unverified < UnverifiedLimit
    BY <1>1, <1>3 DEF ShouldPreempt
  <2>3. UnverifiedLimit <= 1 => unverified = 0
    BY <2>2
  <2>4. 0 \in 0 .. MaxAttempts - 1
    OBVIOUS
  <2> QED
    BY <1>1, <2>1, <2>3, <2>4, StartKeepsSolo
<1> QED
  BY <1>2, <1>3

\* Every step keeps what is true of a call that is alone.
LEMMA NextSolo ==
    ASSUME OneAtATime, Inv, SoloInv, [Next]_vars
    PROVE  SoloInv'
<1>1. CASE UNCHANGED <<pc, local, via, unverified>>
  BY <1>1 DEF SoloInv, Alone, CountFollows, NoSuspicionCarried, FastPathRetried, InFlight, local
<1>2. CASE Environment
  BY <1>1, <1>2 DEF Environment, Poll, TelemetryAges, Tick, cycle, health
<1>3. CASE UNCHANGED vars
  BY <1>1, <1>3 DEF vars, cycle, health
<1>4. ASSUME NEW c \in Commands, (\E p \in Positions : Begin(c, p)) \/ Step(c)
      PROVE  CountFollows' /\ NoSuspicionCarried' /\ FastPathRetried'
  BY <1>4, BeginKeepsSolo, StepKeepsSolo
<1>5. Alone'
  BY NextAlone DEF SoloInv
<1> QED
  BY <1>2, <1>3, <1>4, <1>5 DEF Next, SoloInv

\* It is true at first.
LEMMA InitSolo == Init => SoloInv
BY BoundsAssumption
DEF Init, SoloInv, Alone, CountFollows, NoSuspicionCarried, FastPathRetried, InFlight, Sending

-----------------------------------------------------------------------------
\* A call of its own that takes the fast path is sent once more after a fresh
\* handshake, unless no attempt is left: the in-line reclaim of _send_command works
\* on the command it is for, for any budget and any limit.
THEOREM FastPathIsRetried ==
    ASSUME OneAtATime
    PROVE  Spec => []FastPathRetried
<1>1. Init => SoloInv
  BY InitSolo
<1>2. Inv /\ SoloInv /\ [Next]_vars => SoloInv'
  BY NextSolo
<1>3. SoloInv => FastPathRetried
  BY DEF SoloInv
<1> QED
  BY <1>1, <1>2, <1>3, Invariance, PTL DEF Spec

-----------------------------------------------------------------------------
(* Over the gateway, for any calls.                                        *)

PlantInv == Inv /\ PlantTypeOK

\* What the cloud has cached is something that a call can read.
LEMMA CachedType ==
    ASSUME GatewayTypeOK, NEW c \in Commands
    PROVE  Cached(c) \in Readings
BY ShutterOfAssumption DEF GatewayTypeOK, Cached, Readings

\* A step of the plant is a step of the command path, or leaves it alone.
LEMMA PlantStepIsStep ==
    ASSUME GatewayTypeOK, [PlantNext]_plantVars
    PROVE  [Next]_vars
<1>1. ASSUME NEW c \in Commands, PlantRead(c)
      PROVE  Step(c)
  <2>1. Cached(c) \in Readings
    BY CachedType
  <2> QED
    BY <1>1, <2>1 DEF PlantRead, Step
<1>2. ASSUME NEW c \in Commands, PlantTransmit(c) \/ PlantAnswer(c) \/ PlantError(c) \/ PlantDrop(c)
      PROVE  Step(c)
  BY <1>2 DEF PlantTransmit, PlantAnswer, PlantError, PlantDrop, Step
<1>3. ASSUME NEW c \in Commands, NEW p \in Positions, PlantBegin(c, p)
      PROVE  Begin(c, p)
  BY <1>3 DEF PlantBegin
<1>4. CASE (\E outcome \in PollOutcomes : PlantPoll(outcome)) \/ PlantTime
  BY <1>4 DEF PlantPoll, PlantTime, Next, Environment
<1>5. CASE World \/ UNCHANGED plantVars
  BY <1>5 DEF World, plantVars
<1> QED
  BY <1>1, <1>2, <1>3, <1>4, <1>5 DEF PlantNext, Next

\* The cloud only ever holds positions and commands that there are.
LEMMA PlantKeepsTypes ==
    ASSUME PlantInv, [PlantNext]_plantVars
    PROVE  /\ GatewayTypeOK'
           /\ arrived' \in [Commands -> BOOLEAN]
           /\ routed' \in [Commands -> BOOLEAN]
           /\ drove' \in [Commands -> BOOLEAN]
<1> USE ShutterOfAssumption DEF PlantInv, PlantTypeOK, GatewayTypeOK
<1>1. CASE UNCHANGED plantVars
  BY <1>1 DEF plantVars, world
<1>2. CASE PlantNext
  <2>1. drove' \in [Commands -> BOOLEAN]
    BY <1>2 DEF PlantNext, NoteMotor
  <2> DEFINE Others == arrived' \in [Commands -> BOOLEAN] /\ routed' \in [Commands -> BOOLEAN]
  <2>2. ASSUME NEW c \in Commands, PlantTransmit(c)
        PROVE  GatewayTypeOK' /\ Others
    <3>1. claim' \in BOOLEAN /\ UNCHANGED truth
      BY <2>2 DEF PlantTransmit, Connects, Transmit
    <3>2. CASE UNCHANGED <<goal, cache, arrived, routed>>
      BY <3>1, <3>2
    <3>3. CASE /\ Route(ShutterOf[c], target[c])
               /\ arrived' = [arrived EXCEPT ![c] = TRUE]
               /\ routed' = [routed EXCEPT ![c] = @ \/ claim']
      <4>1. Others
        BY <3>1, <3>3
      <4>2. target[c] \in Positions \union {NoPosition} /\ ShutterOf[c] \in Shutters
        BY DEF Inv, TypeOK
      <4>3. goal' \in {goal, [goal EXCEPT ![ShutterOf[c]] = target[c]]}
        BY <3>3 DEF Route
      <4>4. cache' \in {cache, [cache EXCEPT ![ShutterOf[c]].position = NoPosition]}
        BY <3>3 DEF Route
      <4>5. goal' \in [Shutters -> Positions \union {NoPosition}]
        BY <4>2, <4>3
      <4>6. cache' \in [Shutters -> [position : Positions \union {NoPosition}, moving : BOOLEAN]]
        BY <4>2, <4>4
      <4>7. GatewayTypeOK'
        BY <3>1, <4>5, <4>6
      <4> QED
        BY <4>1, <4>7
    <3> QED
      BY <2>2, <3>2, <3>3 DEF PlantTransmit
  <2>3. ASSUME Reconnects \/ UNCHANGED claim, UNCHANGED <<truth, goal, cache>>
        PROVE  GatewayTypeOK'
    <3>1. claim' \in {claim, TRUE}
      BY <2>3 DEF Reconnects
    <3> QED
      BY <2>3, <3>1
  <2>4. ASSUME NEW c \in Commands, PlantAnswer(c) \/ PlantError(c)
        PROVE  GatewayTypeOK' /\ Others
    BY <2>3, <2>4 DEF PlantAnswer, PlantError, world
  <2>5. ASSUME NEW c \in Commands,
               PlantRead(c) \/ PlantDrop(c) \/ \E p \in Positions : PlantBegin(c, p)
        PROVE  GatewayTypeOK' /\ Others
    BY <2>3, <2>5 DEF PlantRead, PlantDrop, PlantBegin, world
  <2>6. ASSUME (\E outcome \in PollOutcomes : PlantPoll(outcome)) \/ PlantTime
        PROVE  GatewayTypeOK' /\ Others
    BY <2>3, <2>6 DEF PlantPoll, PlantTime, world
  <2>7. ASSUME NEW s \in Shutters, Arrive(s) \/ Report(s) \/ Expire(s),
               UNCHANGED <<arrived, routed>>
        PROVE  GatewayTypeOK' /\ Others
    <3>1. CASE Arrive(s)
      <4>1. goal[s] \in Positions
        BY <3>1 DEF Arrive
      <4> QED
        BY <2>7, <3>1, <4>1 DEF Arrive
    <3>2. CASE Report(s)
      <4>1. Driven(s) \in BOOLEAN /\ truth[s] \in Positions
        BY DEF Driven
      <4>2. cache' \in [Shutters -> [position : Positions \union {NoPosition}, moving : BOOLEAN]]
        BY <3>2, <4>1 DEF Report
      <4> QED
        BY <2>7, <3>2, <4>2 DEF Report
    <3>3. CASE Expire(s)
      <4>1. cache' \in [Shutters -> [position : Positions \union {NoPosition}, moving : BOOLEAN]]
        BY <3>3 DEF Expire
      <4> QED
        BY <2>7, <3>3, <4>1 DEF Expire
    <3> QED
      BY <2>7, <3>1, <3>2, <3>3
  <2>8. ASSUME World
        PROVE  GatewayTypeOK' /\ Others
    <3>1. UNCHANGED <<arrived, routed>>
      BY <2>8 DEF World
    <3>2. CASE Takeover
      BY <3>1, <3>2 DEF Takeover
    <3> QED
      BY <2>7, <2>8, <3>1, <3>2 DEF World
  <2> QED
    BY <1>2, <2>1, <2>2, <2>4, <2>5, <2>6, <2>8 DEF PlantNext
<1> QED
  BY <1>1, <1>2

\* The invariant of the command path, and the types of what is behind the cloud.
LEMMA NextPlantInv ==
    ASSUME PlantInv, [PlantNext]_plantVars
    PROVE  PlantInv'
<1>1. Inv /\ [Next]_vars
  BY PlantStepIsStep DEF PlantInv, PlantTypeOK
<1>2. Inv'
  BY <1>1, NextTypeOK, NextSerialized, NextAttempts, NextGapKept DEF Inv
<1> QED
  BY <1>2, PlantKeepsTypes DEF PlantInv, PlantTypeOK, Inv

\* It is true at first.
LEMMA InitPlantInv == PlantInit => PlantInv
BY InitInv, PositionsAssumption
DEF PlantInit, GatewayInit, PlantInv, PlantTypeOK, GatewayTypeOK, Inv

\* The command path keeps its invariant with any gateway behind the cloud.
THEOREM PlantInvariance == PlantSpec => []PlantInv
BY InitPlantInv, NextPlantInv, PTL DEF PlantSpec

\* Type correctness of the command path and of what is behind the cloud.
THEOREM PlantTypeCorrect == PlantSpec => []PlantTypeOK
BY PlantInvariance, PTL DEF PlantInv

\* The command path over the gateway is a command path: what is proved of
\* SendCommand, its exclusion, its gap and the promises of CommandService, holds of
\* it whatever the cloud answers.
THEOREM PlantKeepsPath == PlantSpec => Spec
<1>1. PlantInit => Init
  BY DEF PlantInit
<1>2. PlantInv /\ [PlantNext]_plantVars => [Next]_vars
  BY PlantStepIsStep DEF PlantInv, PlantTypeOK
<1> QED
  BY <1>1, <1>2, PlantInvariance, PTL DEF PlantSpec, Spec

-----------------------------------------------------------------------------
(* What a verdict says of the claim.                                       *)

\* While a call makes a further attempt, the claim can only be missing where the
\* connection is missing too, and that is opened with a handshake.
ClaimKept == \A c \in InFlight : attempt[c] >= 1 => claim \/ ~connected

\* An answer can only be under way for a frame that is waited for.
ArrivedAwaits == \A c \in Commands : arrived[c] => pc[c] = "await"

\* What became of a further attempt became of a frame sent under the claim.
RoutedInTime ==
    \A c \in Commands : attempt[c] >= 1 =>
        /\ arrived[c] => routed[c]
        /\ pc[c] \in {"verify", "refresh", "ok", "offline"} => routed[c]

ReclaimCounted == \A c \in Commands : reclaimed[c] => attempt[c] >= 1

ClaimInv == ClaimKept /\ ArrivedAwaits /\ RoutedInTime /\ ReclaimCounted

\* An attempt after the first is what a reclaim makes.
LEMMA NextReclaimCounted ==
    ASSUME Inv, ReclaimCounted, [Next]_vars
    PROVE  ReclaimCounted'
<1> USE BoundsAssumption DEF Inv, TypeOK, ReclaimCounted
<1>1. CASE UNCHANGED <<attempt, reclaimed>>
  BY <1>1
<1>2. ASSUME NEW c \in Commands, NEW p \in Positions, Begin(c, p)
      PROVE  ReclaimCounted'
  <2>1. ~reclaimed[c] /\ UNCHANGED reclaimed
    BY <1>2 DEF Begin, AttemptsCounted
  <2>2. UNCHANGED attempt \/ attempt' = [attempt EXCEPT ![c] = 0]
    BY <1>2 DEF Begin, StartAttempt
  <2> QED
    BY <2>1, <2>2
<1>3. ASSUME NEW c \in Commands, Step(c)
      PROVE  ReclaimCounted'
  <2>1. CASE PreemptDone(c)
    <3>1. ~reclaimed[c] /\ UNCHANGED reclaimed
      BY <2>1 DEF PreemptDone, AttemptsCounted
    <3>2. attempt' = [attempt EXCEPT ![c] = 0]
      BY <2>1 DEF PreemptDone, StartAttempt
    <3> QED
      BY <3>1, <3>2
  <2>2. CASE RetryDone(c) \/ ReclaimDone(c)
    <3>1. attempt' = [attempt EXCEPT ![c] = attempt[c] + 1]
      BY <2>2 DEF RetryDone, ReclaimDone, StartAttempt
    <3>2. reclaimed' = [reclaimed EXCEPT ![c] = TRUE] \/ UNCHANGED reclaimed
      BY <2>2 DEF RetryDone, ReclaimDone
    <3> QED
      BY <3>1, <3>2
  <2>3. CASE ~(PreemptDone(c) \/ RetryDone(c) \/ ReclaimDone(c))
    BY <1>1, <1>3, <2>3
    DEF Step, Acquire, FetchBaseline, FetchBaselineFails, Transmit, SendErrored, SendFails,
        SendAccepted, VerifySucceeds, VerifyPoll, RefreshDone, local
  <2> QED
    BY <2>1, <2>2, <2>3
<1>4. CASE Environment
  BY <1>1, <1>4 DEF Environment, Poll, TelemetryAges, Tick, local
<1>5. CASE UNCHANGED vars
  BY <1>1, <1>5 DEF vars, local
<1> QED
  BY <1>2, <1>3, <1>4, <1>5 DEF Next

\* The claim is only lost while nobody is in flight, and a further attempt begins
\* with the connection dropped.
LEMMA NextClaimKept ==
    ASSUME PlantInv, ClaimKept, [PlantNext]_plantVars
    PROVE  ClaimKept'
<1> USE BoundsAssumption DEF PlantInv, Inv, TypeOK, ClaimKept
<1>1. ASSUME UNCHANGED attempt, InFlight' \subseteq InFlight,
             UNCHANGED <<claim, connected>> \/ Connects \/ Reconnects
      PROVE  ClaimKept'
  <2>1. claim \/ ~connected => claim' \/ ~connected'
    BY <1>1 DEF Connects, Reconnects
  <2>2. ASSUME NEW d \in InFlight', attempt'[d] >= 1
        PROVE  claim' \/ ~connected'
    BY <1>1, <2>1, <2>2
  <2> QED
    BY <2>2
<1>2. ASSUME ~connected'
      PROVE  ClaimKept'
  BY <1>2
<1>3. ASSUME NEW c \in Commands, NEW p \in Positions, PlantBegin(c, p)
      PROVE  ClaimKept'
  <2>1. attempt[c] = 0 /\ UNCHANGED <<claim, connected>>
    BY <1>3 DEF PlantBegin, Begin, world, AttemptsCounted
  <2>2. UNCHANGED attempt \/ attempt' = [attempt EXCEPT ![c] = 0]
    BY <1>3 DEF PlantBegin, Begin, StartAttempt
  <2>3. \A d \in Commands : d # c => pc'[d] = pc[d]
    BY <1>3 DEF PlantBegin, Begin, StartAttempt, JoinLock, Goto
  <2>4. ASSUME NEW d \in InFlight', attempt'[d] >= 1
        PROVE  d \in InFlight /\ attempt[d] >= 1
    BY <2>1, <2>2, <2>3, <2>4 DEF InFlight
  <2> QED
    BY <2>1, <2>4
<1>4. ASSUME NEW c \in Commands, NEW place, Goto(c, place), c \in InFlight
      PROVE  InFlight' \subseteq InFlight
  BY <1>4 DEF Goto, InFlight
<1>5. ASSUME NEW c \in Commands, PlantTransmit(c) \/ PlantAnswer(c) \/ PlantError(c)
      PROVE  ClaimKept'
  <2>1. c \in InFlight /\ \E place : Goto(c, place)
    BY <1>5 DEF PlantTransmit, PlantAnswer, PlantError, Transmit, SendAccepted, SendErrored,
                SendFails, Settle, InFlight, Ended
  <2>2. UNCHANGED attempt
    BY <1>5 DEF PlantTransmit, PlantAnswer, PlantError, Transmit, SendAccepted, SendErrored,
                SendFails, local
  <2>3. UNCHANGED <<claim, connected>> \/ Connects \/ Reconnects
    BY <1>5 DEF PlantTransmit, PlantAnswer, PlantError, SendAccepted, world
  <2> QED
    BY <1>1, <1>4, <2>1, <2>2, <2>3
<1>6. ASSUME NEW c \in Commands, PlantRead(c)
      PROVE  ClaimKept'
  <2>1. c \in InFlight
    BY <1>6 DEF PlantRead, FetchBaseline, FetchBaselineFails, VerifySucceeds, VerifyPoll,
                RefreshDone, InFlight, Ended
  <2>2. UNCHANGED pc \/ \E place : Goto(c, place)
    BY <1>6 DEF PlantRead, FetchBaseline, FetchBaselineFails, VerifySucceeds, VerifyPoll,
                VerifyTimesOut, RefreshDone, Settle
  <2>3. InFlight' \subseteq InFlight
    BY <1>4, <2>1, <2>2 DEF InFlight
  <2>4. UNCHANGED attempt /\ Reconnects
    BY <1>6 DEF PlantRead, FetchBaseline, FetchBaselineFails, VerifySucceeds, VerifyPoll,
                RefreshDone, local
  <2> QED
    BY <1>1, <2>3, <2>4
<1>7. ASSUME NEW c \in Commands, PlantDrop(c)
      PROVE  ClaimKept'
  <2>1. CASE Acquire(c)
    <3>1. c \in InFlight /\ UNCHANGED attempt /\ UNCHANGED <<claim, connected>>
      BY <1>7, <2>1 DEF PlantDrop, Acquire, InFlight, Ended, local, health, world
    <3> QED
      BY <1>1, <1>4, <2>1, <3>1 DEF Acquire
  <2>2. CASE PreemptDone(c) \/ RetryDone(c) \/ ReclaimDone(c)
    BY <1>2, <2>2 DEF PreemptDone, RetryDone, ReclaimDone
  <2> QED
    BY <1>7, <2>1, <2>2 DEF PlantDrop
<1>8. ASSUME NEW outcome, PlantPoll(outcome)
      PROVE  ClaimKept'
  BY <1>1, <1>8 DEF PlantPoll, Poll, InFlight, local
<1>9. CASE PlantTime
  BY <1>1, <1>9 DEF PlantTime, TelemetryAges, Tick, InFlight, local, health, world
<1>10. CASE World
  <2>1. UNCHANGED <<pc, attempt, connected>>
    BY <1>10 DEF World, vars, local, health
  <2>2. CASE UNCHANGED claim
    BY <1>1, <2>1, <2>2 DEF InFlight
  <2>3. CASE InFlight = {}
    BY <2>1, <2>3 DEF InFlight
  <2> QED
    BY <1>10, <2>2, <2>3 DEF World, Arrive, Report, Expire
<1>11. CASE UNCHANGED plantVars
  BY <1>1, <1>11 DEF plantVars, vars, world, local, health, InFlight
<1> QED
  BY <1>3, <1>5, <1>6, <1>7, <1>8, <1>9, <1>10, <1>11 DEF PlantNext

\* A frame of a further attempt is written under the claim; a settled attempt is
\* one whose frame was answered.
LEMMA NextRouted ==
    ASSUME PlantInv, ClaimInv, [PlantNext]_plantVars
    PROVE  ArrivedAwaits' /\ RoutedInTime'
<1> USE BoundsAssumption
    DEF PlantInv, PlantTypeOK, Inv, TypeOK, ClaimInv, ArrivedAwaits, RoutedInTime
<1>1. CASE UNCHANGED <<pc, attempt, arrived, routed>>
  BY <1>1
\* A call goes where it need not have been routed, and no frame is under way.
<1>2. ASSUME NEW c \in Commands,
             NEW place \in {"preempt", "queued", "gap", "send", "failed", "retry", "reclaim"},
             Goto(c, place), ~arrived'[c], UNCHANGED routed,
             \A d \in Commands : d # c => arrived'[d] = arrived[d] /\ attempt'[d] = attempt[d]
      PROVE  ArrivedAwaits' /\ RoutedInTime'
  BY <1>2 DEF Goto
<1>3. ASSUME NEW c \in Commands, NEW n, NEW count, StartAttempt(c, n, count),
             pc[c] # "await", UNCHANGED <<arrived, routed>>
      PROVE  ArrivedAwaits' /\ RoutedInTime'
  BY <1>2, <1>3 DEF StartAttempt, JoinLock
\* A call settles further.
<1>4. ASSUME NEW c \in Commands, NEW place \in {"refresh", "ok", "offline"}, Goto(c, place),
             pc[c] \in {"verify", "refresh"}, UNCHANGED <<attempt, arrived, routed>>
      PROVE  ArrivedAwaits' /\ RoutedInTime'
  BY <1>4 DEF Goto
<1>5. ASSUME NEW c \in Commands, NEW p \in Positions, PlantBegin(c, p)
      PROVE  ArrivedAwaits' /\ RoutedInTime'
  <2>1. CASE ShouldPreempt
    BY <1>2, <1>5, <2>1 DEF PlantBegin, Begin
  <2>2. CASE ~ShouldPreempt
    BY <1>3, <1>5, <2>2 DEF PlantBegin, Begin
  <2> QED
    BY <2>1, <2>2
<1>6. ASSUME NEW c \in Commands, PlantTransmit(c)
      PROVE  ArrivedAwaits' /\ RoutedInTime'
  <2>1. pc[c] = "send" /\ Goto(c, "await") /\ UNCHANGED attempt /\ connected' = TRUE
    BY <1>6 DEF PlantTransmit, Transmit, local
  <2>2. attempt[c] >= 1 => claim'
    <3>1. c \in InFlight
      BY <2>1 DEF InFlight, Ended
    <3> QED
      BY <1>6, <2>1, <3>1 DEF PlantTransmit, Connects, ClaimKept
  <2>3. CASE UNCHANGED <<arrived, routed>>
    BY <2>1, <2>3 DEF Goto
  <2>4. CASE arrived' = [arrived EXCEPT ![c] = TRUE] /\ routed' = [routed EXCEPT ![c] = @ \/ claim']
    <3>1. attempt[c] >= 1 => routed'[c]
      BY <2>2, <2>4
    <3>2. \A d \in Commands : d # c => arrived'[d] = arrived[d] /\ routed'[d] = routed[d]
      BY <2>4
    <3> QED
      BY <2>1, <3>1, <3>2 DEF Goto
  <2> QED
    BY <1>6, <2>3, <2>4 DEF PlantTransmit
<1>7. ASSUME NEW c \in Commands, PlantAnswer(c)
      PROVE  ArrivedAwaits' /\ RoutedInTime'
  <2>1. /\ pc[c] = "await" /\ arrived[c] /\ UNCHANGED <<attempt, routed>>
        /\ arrived' = [arrived EXCEPT ![c] = FALSE]
        /\ Goto(c, "refresh") \/ Goto(c, "verify")
    BY <1>7 DEF PlantAnswer, SendAccepted, Settle, local
  <2> QED
    BY <2>1 DEF Goto
<1>8. ASSUME NEW c \in Commands, PlantError(c)
      PROVE  ArrivedAwaits' /\ RoutedInTime'
  <2>1. /\ \E place \in {"send", "failed"} : Goto(c, place)
        /\ UNCHANGED <<attempt, routed>>
        /\ arrived' = [arrived EXCEPT ![c] = FALSE]
    BY <1>8 DEF PlantError, SendErrored, SendFails, local
  <2> QED
    BY <1>2, <2>1
<1>9. ASSUME NEW c \in Commands, PlantRead(c)
      PROVE  ArrivedAwaits' /\ RoutedInTime'
  <2>1. pc[c] \in {"gap", "verify", "refresh"} /\ UNCHANGED <<attempt, arrived, routed>>
    BY <1>9 DEF PlantRead, FetchBaseline, FetchBaselineFails, VerifySucceeds, VerifyPoll,
                RefreshDone, local
  <2>2. \/ UNCHANGED pc
        \/ \E place \in {"send", "failed", "retry", "reclaim"} : Goto(c, place)
        \/ pc[c] # "gap" /\ \E place \in {"refresh", "ok", "offline"} : Goto(c, place)
    BY <1>9 DEF PlantRead, FetchBaseline, FetchBaselineFails, VerifySucceeds, VerifyPoll,
                VerifyTimesOut, RefreshDone, Settle
  <2> QED
    BY <1>1, <1>2, <1>4, <2>1, <2>2
<1>10. ASSUME NEW c \in Commands, PlantDrop(c)
       PROVE  ArrivedAwaits' /\ RoutedInTime'
  <2>1. pc[c] # "await" /\ UNCHANGED <<arrived, routed>>
    BY <1>10 DEF PlantDrop, PreemptDone, RetryDone, ReclaimDone, Acquire
  <2>2. CASE Acquire(c)
    BY <1>2, <2>1, <2>2 DEF Acquire, local
  <2> QED
    BY <1>3, <1>10, <2>1, <2>2 DEF PlantDrop, PreemptDone, RetryDone, ReclaimDone
<1>11. ASSUME NEW outcome, PlantPoll(outcome)
       PROVE  ArrivedAwaits' /\ RoutedInTime'
  BY <1>1, <1>11 DEF PlantPoll, Poll, local
<1>12. CASE PlantTime
  BY <1>1, <1>12 DEF PlantTime, TelemetryAges, Tick, local
<1>13. CASE World \/ UNCHANGED plantVars
  BY <1>1, <1>13 DEF World, plantVars, vars, local
<1> QED
  BY <1>5, <1>6, <1>7, <1>8, <1>9, <1>10, <1>11, <1>12, <1>13 DEF PlantNext

\* What is known of the claim and of arrived frames is kept by every step.
LEMMA NextClaimInv ==
    ASSUME PlantInv, ClaimInv, [PlantNext]_plantVars
    PROVE  ClaimInv'
<1>1. Inv /\ [Next]_vars
  BY PlantStepIsStep DEF PlantInv, PlantTypeOK
<1> QED
  BY <1>1, NextReclaimCounted, NextClaimKept, NextRouted DEF ClaimInv

\* It is true at first.
LEMMA InitClaimInv == PlantInit => ClaimInv
BY BoundsAssumption
DEF PlantInit, Init, ClaimInv, ClaimKept, ArrivedAwaits, RoutedInTime, ReclaimCounted, InFlight

\* A call that is given up as offline was sent under the claim, however many calls
\* there are beside it: the gateway, and not the other app, is why it failed.
THEOREM OfflineUnderClaim ==
    ASSUME MaxAttempts > 1
    PROVE  PlantSpec => [](\A c \in Commands : pc[c] = "offline" => routed[c])
<1>1. PlantInv /\ ClaimInv => \A c \in Commands : pc[c] = "offline" => routed[c]
  BY BoundsAssumption DEF PlantInv, Inv, AttemptsCounted, ClaimInv, RoutedInTime
<1> QED
  BY <1>1, InitClaimInv, NextClaimInv, PlantInvariance, PTL DEF PlantSpec

\* The same for calls one at a time that the fast path reports as done: a takeover
\* before the call is undone by the handshake of its in-line reclaim.
THEOREM ClaimWonBack ==
    ASSUME OneAtATime, MaxAttempts > 1
    PROVE  PlantSpec => []EndsUnderClaim
<1>1. ASSUME PlantInv, ClaimInv, FastPathRetried
      PROVE  EndsUnderClaim
  <2>1. ASSUME NEW c \in Commands, pc[c] = "offline"
        PROVE  attempt[c] >= 1
    BY <1>1, <2>1, BoundsAssumption DEF PlantInv, Inv, AttemptsCounted
  <2>2. ASSUME NEW c \in Commands, pc[c] = "ok", via[c] = "fast"
        PROVE  attempt[c] >= 1
    BY <1>1, <2>2, BoundsAssumption DEF PlantInv, Inv, TypeOK, FastPathRetried, ClaimInv, ReclaimCounted
  <2> QED
    BY <1>1, <2>1, <2>2 DEF ClaimInv, RoutedInTime, EndsUnderClaim
<1> QED
  BY <1>1, InitClaimInv, NextClaimInv, PlantInvariance, PlantKeepsPath, FastPathIsRetried, PTL
  DEF PlantSpec

-----------------------------------------------------------------------------
(* What a verdict says of suspicion.                                       *)

\* Who ends the call, and what it leaves of the count.
LEMMA EndingLeavesCount ==
    ASSUME Inv, SoloInv, UnverifiedLimit <= 1, [Next]_vars,
           NEW c \in Commands, pc[c] \notin Ended, pc'[c] \in Ended
    PROVE  unverified' = IF pc'[c] = "ok" /\ via[c] = "fast" THEN 1 ELSE 0
<1> USE DEF Inv, TypeOK
<1>1. pre[c] = 0
  BY DEF SoloInv, NoSuspicionCarried
<1>2. ~UNCHANGED pc
  OBVIOUS
<1>3. ASSUME NEW d \in Commands, NEW n, NEW count, StartAttempt(d, n, count)
      PROVE  FALSE
  BY <1>3 DEF StartAttempt, JoinLock, Goto, Ended
<1>4. ASSUME NEW d \in Commands, NEW p \in Positions, Begin(d, p)
      PROVE  FALSE
  BY <1>3, <1>4 DEF Begin, Goto, Ended
<1>5. ASSUME NEW d \in Commands, PreemptDone(d) \/ RetryDone(d) \/ ReclaimDone(d)
      PROVE  FALSE
  BY <1>3, <1>5 DEF PreemptDone, RetryDone, ReclaimDone
<1>6. ASSUME NEW d \in Commands,
             Acquire(d) \/ (\E reading \in Readings : FetchBaseline(d, reading)) \/ Transmit(d)
                 \/ SendErrored(d)
      PROVE  FALSE
  BY <1>6 DEF Acquire, FetchBaseline, Transmit, SendErrored, Goto, Ended
<1>7. ASSUME NEW d \in Commands, SendAccepted(d) \/ \E reading \in Readings : VerifySucceeds(d, reading)
      PROVE  FALSE
  BY <1>7 DEF SendAccepted, VerifySucceeds, Settle, Goto, Ended
<1>8. ASSUME NEW d \in Commands, FetchBaselineFails(d) \/ SendFails(d)
      PROVE  pc'[c] = "failed" /\ unverified' = 0
  <2>1. d = c /\ pc[c] \in Sending /\ UNCHANGED unverified /\ pc'[c] = "failed"
    BY <1>8 DEF FetchBaselineFails, SendFails, Goto, Ended, Sending
  <2> QED
    BY <1>1, <2>1 DEF SoloInv, CountFollows
<1>9. ASSUME NEW d \in Commands, NEW alive \in BOOLEAN, VerifyPoll(d, alive)
      PROVE  pc'[c] = "offline" /\ unverified' = 0
  <2>1. d = c /\ pc[c] = "verify" /\ UNCHANGED unverified /\ pc'[c] = "offline"
    BY <1>9 DEF VerifyPoll, VerifyTimesOut, Settle, Goto, Ended
  <2> QED
    BY <1>1, <2>1 DEF SoloInv, CountFollows
<1>10. ASSUME NEW d \in Commands, RefreshDone(d)
       PROVE  unverified' = IF pc'[c] = "ok" /\ via[c] = "fast" THEN 1 ELSE 0
  <2>1. d = c /\ pc[c] = "refresh" /\ UNCHANGED <<unverified, via>> /\ pc'[c] = "ok"
    BY <1>10 DEF RefreshDone, Goto, cycle, Ended
  <2>2. \/ via[c] \in {"noop", "evidence"} /\ unverified = 0
        \/ via[c] = "fast" /\ unverified = 1
    BY <1>1, <2>1 DEF SoloInv, CountFollows
  <2> QED
    BY <2>1, <2>2
<1> QED
  BY <1>2, <1>4, <1>5, <1>6, <1>7, <1>8, <1>9, <1>10
  DEF Next, Step, Environment, Poll, TelemetryAges, Tick, vars

\* When a call of its own returns or raises, suspicion is raised exactly if it took
\* the fast path, with the limit of one that the code has.
THEOREM SuspicionIsHonest ==
    ASSUME OneAtATime, UnverifiedLimit <= 1
    PROVE  PlantSpec => SuspicionMatchesOutcome
<1>1. ASSUME PlantInv, SoloInv, [PlantNext]_plantVars
      PROVE  [\A c \in Commands : pc[c] \notin Ended /\ pc'[c] \in Ended =>
                 unverified' = IF pc'[c] = "ok" /\ via[c] = "fast" THEN 1 ELSE 0]_plantVars
  <2>1. Inv /\ [Next]_vars
    BY <1>1, PlantStepIsStep DEF PlantInv, PlantTypeOK
  <2> QED
    BY <1>1, <2>1, EndingLeavesCount
<1>2. PlantInit => SoloInv
  BY InitSolo DEF PlantInit
<1>3. PlantInv /\ SoloInv /\ [PlantNext]_plantVars => SoloInv'
  BY PlantStepIsStep, NextSolo DEF PlantInv, PlantTypeOK
<1> QED
  BY <1>1, <1>2, <1>3, PlantInvariance, PTL DEF PlantSpec, SuspicionMatchesOutcome

=============================================================================
