----------------------------- MODULE SendCommand -----------------------------
(***************************************************************************)
(* The command path of FinderYouCoordinator (coordinator.py):              *)
(* _should_preemptive_rehandshake, _send_command, _send_and_verify and     *)
(* _wait_for_motor_evidence, with the polls of _async_update_data that run *)
(* beside them.                                                            *)
(*                                                                         *)
(* Every element of Commands is one service call (async_open,              *)
(* async_close_shutter or async_set_position): one asyncio task.  The      *)
(* tasks share an event loop, so a step runs from one await to the next    *)
(* and the steps of different calls interleave only there.                 *)
(*                                                                         *)
(* The answers of the cloud are the parameters of the actions, so that a   *)
(* module that models the cloud can conjoin its own choice of them.  A     *)
(* call that never returns is not modelled: connecting has no timeout in   *)
(* the code and is assumed to end.                                         *)
(***************************************************************************)
EXTENDS Naturals, Sequences, FiniteSets

CONSTANTS
    Commands,         \* the service calls of one history
    NoCommand,        \* "the lock is free"
    Positions,        \* the positions a call asks for or a shutter reports
    NoPosition,       \* None: the cloud has no position for the shutter
    MaxAttempts,      \* MAX_SEND_ATTEMPTS
    UnverifiedLimit,  \* PREEMPTIVE_HANDSHAKE_UNVERIFIED_SENDS
    SendGap,          \* COMMAND_SEND_GAP, in ticks
    VerifyPolls,      \* bound: the polls that fit into VERIFY_TIMEOUT
    MaxInFlight       \* bound: the service calls in flight at once

ASSUME CommandsAssumption == NoCommand \notin Commands
ASSUME PositionsAssumption == NoPosition \notin Positions
ASSUME BoundsAssumption ==
    /\ MaxAttempts \in Nat \ {0}
    /\ UnverifiedLimit \in Nat
    /\ SendGap \in Nat
    /\ VerifyPolls \in Nat \ {0}
    /\ MaxInFlight \in Nat \ {0}

VARIABLES
    pc,          \* where each call is suspended
    target,      \* the position the call asks for
    attempt,     \* the loop variable of _send_command
    pre,         \* pre_count
    reclaimed,   \* inline_reclaim_used
    retried,     \* the second try of _run_or_reconnect(do_call) is running
    baseline,    \* baseline_position
    polls,       \* polls made by _wait_for_motor_evidence
    via,         \* how _send_and_verify last returned (auxiliary)
    sendLock,    \* the holder of _send_lock, or NoCommand
    waiters,     \* the queue of _send_lock, woken first come first served
    unverified,  \* _unverified_send_count
    telemetry,   \* _last_telemetry_change_ts: none, or its age against the limit
    connected,   \* _client is not None
    sinceSend,   \* ticks since _last_send_ts, up to SendGap
    sinceWire    \* ticks since a command frame was written, up to SendGap

local  == <<target, attempt, pre, reclaimed>>
cycle  == <<retried, baseline, polls, via>>
lock   == <<sendLock, waiters>>
health == <<unverified, telemetry, connected>>
clocks == <<sinceSend, sinceWire>>
vars   == <<pc, local, cycle, lock, health, clocks>>

-----------------------------------------------------------------------------
(* The places a call can be.                                               *)

\* Inside "async with self._send_lock".
Sending == {"gap", "send", "await"}
\* After the send was accepted, outside the lock.
Settling == {"verify", "refresh", "retry", "reclaim"}
\* The service call has returned or raised.
Ended == {"ok", "offline", "failed"}
Places == {"idle", "preempt", "queued"} \union Sending \union Settling \union Ended

InFlight == {c \in Commands : pc[c] \notin {"idle"} \union Ended}

\* What one read of a shutter's slice yields.
Readings == [position : Positions \union {NoPosition}, moving : BOOLEAN]

\* A poll of _async_update_data stamps the telemetry, because a slice differs from
\* the poll before; does not, because none does or there was none; or fails.
PollOutcomes == {"stamped", "quiet", "failed"}

TypeOK ==
    /\ pc \in [Commands -> Places]
    /\ target \in [Commands -> Positions \union {NoPosition}]
    /\ attempt \in [Commands -> 0 .. MaxAttempts - 1]
    /\ pre \in [Commands -> Nat]
    /\ reclaimed \in [Commands -> BOOLEAN]
    /\ retried \in [Commands -> BOOLEAN]
    /\ baseline \in [Commands -> Positions \union {NoPosition}]
    /\ polls \in [Commands -> 0 .. VerifyPolls]
    /\ via \in [Commands -> {"none", "noop", "fast", "evidence", "timeout"}]
    /\ sendLock \in Commands \union {NoCommand}
    /\ waiters \in Seq(Commands)
    /\ unverified \in Nat
    /\ telemetry \in {"none", "fresh", "stale"}
    /\ connected \in BOOLEAN
    /\ sinceSend \in 0 .. SendGap
    /\ sinceWire \in 0 .. SendGap

\* The first refresh of the config entry has run before any cover exists.
Init ==
    /\ pc = [c \in Commands |-> "idle"]
    /\ target = [c \in Commands |-> NoPosition]
    /\ attempt = [c \in Commands |-> 0]
    /\ pre = [c \in Commands |-> 0]
    /\ reclaimed = [c \in Commands |-> FALSE]
    /\ retried = [c \in Commands |-> FALSE]
    /\ baseline = [c \in Commands |-> NoPosition]
    /\ polls = [c \in Commands |-> 0]
    /\ via = [c \in Commands |-> "none"]
    /\ sendLock = NoCommand
    /\ waiters = <<>>
    /\ unverified = 0
    /\ telemetry = "none"
    /\ connected = TRUE
    /\ sinceSend = SendGap
    /\ sinceWire = SendGap

-----------------------------------------------------------------------------
(* Steps shared by several handlers.                                       *)

Goto(c, place) == pc' = [pc EXCEPT ![c] = place]

\* Seeded fault: a newcomer takes the lock although it is held.
JoinLockBarging(c) ==
    /\ sendLock' = c
    /\ UNCHANGED waiters
    /\ Goto(c, "gap")

\* asyncio.Lock.acquire: taken at once only when it is free and nobody waits.
JoinLock(c) ==
    \/ /\ sendLock = NoCommand /\ waiters = <<>>
       /\ sendLock' = c
       /\ UNCHANGED waiters
       /\ Goto(c, "gap")
    \/ /\ sendLock # NoCommand \/ waiters # <<>>
       /\ waiters' = Append(waiters, c)
       /\ UNCHANGED sendLock
       /\ Goto(c, "queued")

\* Leaving "async with": the first waiter takes the lock when it next runs.
ReleaseLock == sendLock' = NoCommand /\ UNCHANGED waiters

\* The head of the loop: pre_count is read before the lock is awaited.
StartAttempt(c, n, count) ==
    /\ attempt' = [attempt EXCEPT ![c] = n]
    /\ pre' = [pre EXCEPT ![c] = count]
    /\ unverified' = count
    /\ JoinLock(c)

\* _send_and_verify returns: its locals are gone, only the outcome is kept.
Settle(c, place, how) ==
    /\ Goto(c, place)
    /\ via' = [via EXCEPT ![c] = how]
    /\ baseline' = [baseline EXCEPT ![c] = NoPosition]
    /\ polls' = [polls EXCEPT ![c] = 0]

\* _async_update_data and _track_telemetry_freshness.
PollEffect(outcome) ==
    /\ connected' = (outcome # "failed")
    /\ telemetry' = IF outcome = "stamped" THEN "fresh" ELSE telemetry

-----------------------------------------------------------------------------
(* _send_command up to its first attempt.                                  *)

ShouldPreempt ==
    /\ sendLock = NoCommand
    /\ telemetry = "stale" \/ unverified >= UnverifiedLimit

\* A service call starts: it drops the client first, or goes for the lock.  (A
\* drop that finds no client does not suspend the task; here it may.)
Begin(c, goal) ==
    /\ pc[c] = "idle"
    /\ Cardinality(InFlight) < MaxInFlight
    /\ target' = [target EXCEPT ![c] = goal]
    /\ \/ /\ ShouldPreempt
          /\ Goto(c, "preempt")
          /\ UNCHANGED <<attempt, pre, lock, unverified>>
       \/ /\ ~ShouldPreempt
          /\ StartAttempt(c, 0, unverified)
    /\ UNCHANGED <<reclaimed, cycle, telemetry, connected, clocks>>

\* The preemptive _drop_client returns.
PreemptDone(c) ==
    /\ pc[c] = "preempt"
    /\ connected' = FALSE
    /\ StartAttempt(c, 0, 0)
    /\ UNCHANGED <<target, reclaimed, cycle, telemetry, clocks>>

-----------------------------------------------------------------------------
(* The send section of _send_and_verify.                                   *)

\* Seeded fault: the woken waiter stays in the queue.
AcquireStaying(c) ==
    /\ pc[c] = "queued"
    /\ sendLock = NoCommand
    /\ waiters # <<>> /\ Head(waiters) = c
    /\ sendLock' = c
    /\ UNCHANGED waiters
    /\ Goto(c, "gap")
    /\ UNCHANGED <<local, cycle, health, clocks>>

Acquire(c) ==
    /\ pc[c] = "queued"
    /\ sendLock = NoCommand
    /\ waiters # <<>> /\ Head(waiters) = c
    /\ sendLock' = c
    /\ waiters' = Tail(waiters)
    /\ Goto(c, "gap")
    /\ UNCHANGED <<local, cycle, health, clocks>>

\* Seeded fault: the baseline is read and the send follows without the sleep.
FetchBaselineHasty(c, reading) ==
    /\ pc[c] = "gap"
    /\ baseline' = [baseline EXCEPT ![c] = reading.position]
    /\ connected' = TRUE
    /\ Goto(c, "send")
    /\ UNCHANGED <<local, retried, polls, via, lock, unverified, telemetry,
                   clocks>>

\* The sleep is over and the plant is read.
FetchBaseline(c, reading) ==
    /\ pc[c] = "gap"
    /\ sinceSend = SendGap
    /\ baseline' = [baseline EXCEPT ![c] = reading.position]
    /\ connected' = TRUE
    /\ Goto(c, "send")
    /\ UNCHANGED <<local, retried, polls, via, lock, unverified, telemetry,
                   clocks>>

\* Seeded fault: the error path keeps the lock.
FetchBaselineFailsHolding(c) ==
    /\ pc[c] = "gap"
    /\ sinceSend = SendGap
    /\ connected' \in BOOLEAN
    /\ Goto(c, "failed")
    /\ UNCHANGED <<local, cycle, lock, unverified, telemetry, clocks>>

\* Both tries of the read fail: the exception leaves the service call.
FetchBaselineFails(c) ==
    /\ pc[c] = "gap"
    /\ sinceSend = SendGap
    /\ connected' \in BOOLEAN
    /\ ReleaseLock
    /\ Goto(c, "failed")
    /\ UNCHANGED <<local, cycle, unverified, telemetry, clocks>>

\* The command frame is written on the connection.
Transmit(c) ==
    /\ pc[c] = "send"
    /\ connected' = TRUE
    /\ sinceWire' = 0
    /\ Goto(c, "await")
    /\ UNCHANGED <<local, cycle, lock, unverified, telemetry, sinceSend>>

\* The first try of do_call fails, before or after its frame: reconnect.
SendErrored(c) ==
    /\ pc[c] \in {"send", "await"}
    /\ ~retried[c]
    /\ retried' = [retried EXCEPT ![c] = TRUE]
    /\ connected' = FALSE
    /\ Goto(c, "send")
    /\ UNCHANGED <<local, baseline, polls, via, lock, unverified, telemetry,
                   clocks>>

\* The second try fails too: the exception leaves the service call.
SendFails(c) ==
    /\ pc[c] \in {"send", "await"}
    /\ retried[c]
    /\ retried' = [retried EXCEPT ![c] = FALSE]
    /\ baseline' = [baseline EXCEPT ![c] = NoPosition]
    /\ connected' \in BOOLEAN
    /\ ReleaseLock
    /\ Goto(c, "failed")
    /\ UNCHANGED <<local, polls, via, unverified, telemetry, clocks>>

\* The cloud accepts the command.  The lock is released and the baseline
\* decides, without an await, whether the send has to be verified.
SendAccepted(c) ==
    /\ pc[c] = "await"
    /\ sinceSend' = 0
    /\ retried' = [retried EXCEPT ![c] = FALSE]
    /\ ReleaseLock
    /\ \/ /\ baseline[c] = target[c]
          /\ unverified' = 0
          /\ Settle(c, "refresh", "noop")
       \/ /\ baseline[c] = NoPosition /\ telemetry = "fresh"
          /\ unverified' = unverified + 1
          /\ Settle(c, "refresh", "fast")
       \/ /\ baseline[c] # target[c]
          /\ ~(baseline[c] = NoPosition /\ telemetry = "fresh")
          /\ Goto(c, "verify")
          /\ UNCHANGED <<baseline, polls, via, unverified>>
    /\ UNCHANGED <<local, telemetry, connected, sinceWire>>

-----------------------------------------------------------------------------
(* _wait_for_motor_evidence.                                               *)

Evidence(c, reading) == reading.position # baseline[c] \/ reading.moving

\* A poll of the verification shows that the motor ran.
VerifySucceeds(c, reading) ==
    /\ pc[c] = "verify"
    /\ Evidence(c, reading)
    /\ unverified' = 0
    /\ connected' = TRUE
    /\ Settle(c, "refresh", "evidence")
    /\ UNCHANGED <<local, retried, lock, telemetry, clocks>>

\* Seeded fault: the call gives up one attempt too early.
VerifyTimesOutEarly(c) ==
    Settle(c, IF attempt[c] + 2 >= MaxAttempts THEN "offline" ELSE "retry", "timeout")

\* Seeded fault: the call never gives up.
VerifyTimesOutForever(c) == Settle(c, "retry", "timeout")

\* The deadline has passed: GatewayOfflineError, caught by _send_command.
VerifyTimesOut(c) ==
    Settle(c, IF attempt[c] = MaxAttempts - 1 THEN "offline" ELSE "retry", "timeout")

\* A poll fails or shows nothing new, before or after the deadline.
VerifyPoll(c, alive) ==
    /\ pc[c] = "verify"
    /\ connected' = alive
    /\ \/ /\ polls[c] + 1 < VerifyPolls
          /\ polls' = [polls EXCEPT ![c] = @ + 1]
          /\ UNCHANGED <<pc, baseline, via>>
       \/ VerifyTimesOut(c)
    /\ UNCHANGED <<local, retried, lock, unverified, telemetry, clocks>>

-----------------------------------------------------------------------------
(* The loop of _send_command.                                              *)

\* The _drop_client after a timeout returns.
RetryDone(c) ==
    /\ pc[c] = "retry"
    /\ connected' = FALSE
    /\ StartAttempt(c, attempt[c] + 1, unverified)
    /\ UNCHANGED <<target, reclaimed, cycle, telemetry, clocks>>

\* Seeded fault: one unverified send is not enough for the in-line reclaim.
NeedsReclaimTwice(c) ==
    /\ unverified > pre[c] + 1
    /\ ~reclaimed[c]
    /\ attempt[c] + 1 < MaxAttempts

NeedsReclaim(c) ==
    /\ unverified > pre[c]
    /\ ~reclaimed[c]
    /\ attempt[c] + 1 < MaxAttempts

\* async_request_refresh returns: the debouncer has polled or will do so later.
RefreshDone(c) ==
    /\ pc[c] = "refresh"
    /\ Goto(c, IF NeedsReclaim(c) THEN "reclaim" ELSE "ok")
    /\ \/ \E outcome \in PollOutcomes : PollEffect(outcome)
       \/ UNCHANGED <<telemetry, connected>>
    /\ UNCHANGED <<local, cycle, lock, unverified, clocks>>

\* Seeded fault: the in-line reclaim sends again over the same connection.
ReclaimDoneConnected(c) ==
    /\ pc[c] = "reclaim"
    /\ reclaimed' = [reclaimed EXCEPT ![c] = TRUE]
    /\ StartAttempt(c, attempt[c] + 1, pre[c])
    /\ UNCHANGED <<target, cycle, telemetry, connected, clocks>>

\* Seeded fault: the in-line reclaim keeps the count of the attempt it repeats.
ReclaimDoneCounting(c) ==
    /\ pc[c] = "reclaim"
    /\ connected' = FALSE
    /\ reclaimed' = [reclaimed EXCEPT ![c] = TRUE]
    /\ StartAttempt(c, attempt[c] + 1, unverified)
    /\ UNCHANGED <<target, cycle, telemetry, clocks>>

\* The _drop_client of the in-line reclaim returns.
ReclaimDone(c) ==
    /\ pc[c] = "reclaim"
    /\ connected' = FALSE
    /\ reclaimed' = [reclaimed EXCEPT ![c] = TRUE]
    /\ StartAttempt(c, attempt[c] + 1, pre[c])
    /\ UNCHANGED <<target, cycle, telemetry, clocks>>

-----------------------------------------------------------------------------
(* What happens beside the service calls.                                  *)

Poll(outcome) ==
    /\ PollEffect(outcome)
    /\ UNCHANGED <<pc, local, cycle, lock, unverified, clocks>>

\* PREEMPTIVE_HANDSHAKE_TELEMETRY_AGE has passed since the last difference.
TelemetryAges ==
    /\ telemetry = "fresh"
    /\ telemetry' = "stale"
    /\ UNCHANGED <<pc, local, cycle, lock, unverified, connected, clocks>>

Tick ==
    /\ sinceSend < SendGap \/ sinceWire < SendGap
    /\ sinceSend' = IF sinceSend < SendGap THEN sinceSend + 1 ELSE SendGap
    /\ sinceWire' = IF sinceWire < SendGap THEN sinceWire + 1 ELSE SendGap
    /\ UNCHANGED <<pc, local, cycle, lock, health>>

-----------------------------------------------------------------------------
\* What a call does once it has begun.
Step(c) ==
    \/ PreemptDone(c)
    \/ Acquire(c)
    \/ \E reading \in Readings : FetchBaseline(c, reading)
    \/ FetchBaselineFails(c)
    \/ Transmit(c)
    \/ SendErrored(c)
    \/ SendFails(c)
    \/ SendAccepted(c)
    \/ \E reading \in Readings : VerifySucceeds(c, reading)
    \/ \E alive \in BOOLEAN : VerifyPoll(c, alive)
    \/ RetryDone(c)
    \/ RefreshDone(c)
    \/ ReclaimDone(c)

Environment ==
    \/ \E outcome \in PollOutcomes : Poll(outcome)
    \/ TelemetryAges
    \/ Tick

Next ==
    \/ \E c \in Commands : (\E goal \in Positions : Begin(c, goal)) \/ Step(c)
    \/ Environment

Spec == Init /\ [][Next]_vars

\* The event loop runs every task whose await is over, and time passes.
Fairness == WF_vars(Tick) /\ \A c \in Commands : WF_vars(Step(c))

FairSpec == Spec /\ Fairness

-----------------------------------------------------------------------------
(* Properties.                                                             *)

\* At most one call is between taking and releasing _send_lock, and the lock is
\* held exactly by that call: no path out of the section forgets to release it.
SendsSerialized ==
    \A c \in Commands : (pc[c] \in Sending) <=> (sendLock = c)

\* The calls waiting for the lock are the ones in its queue, each of them once.
QueueMatchesWaiters ==
    /\ \A c \in Commands :
          (pc[c] = "queued") <=> (\E i \in 1 .. Len(waiters) : waiters[i] = c)
    /\ \A i, j \in 1 .. Len(waiters) : waiters[i] = waiters[j] => i = j

\* The first frame of an attempt is written at least COMMAND_SEND_GAP after the
\* last command the cloud accepted, whichever call sent that one.
FirstFrame(c) == pc[c] = "send" /\ pc'[c] = "await" /\ ~retried[c]

AcceptedSpacing ==
    [][\A c \in Commands : FirstFrame(c) => sinceSend = SendGap]_vars

\* A call that takes the fast path is sent once more after a fresh handshake,
\* unless no attempt is left: the in-line reclaim works on that same command.
FastPathRetried ==
    \A c \in Commands :
        pc[c] = "ok" /\ via[c] = "fast" => reclaimed[c] \/ attempt[c] + 1 = MaxAttempts

\* The in-line reclaim goes by what became of the call's own attempt, whatever other
\* calls do to the shared counter while it waits for its refresh: a call that took the
\* fast path is sent once more if it may be, and one whose motor was seen to run, or
\* whose shutter was at its target, is not.
ReclaimFollowsOutcome ==
    [][\A c \in Commands :
          pc[c] = "refresh" /\ pc'[c] # "refresh" =>
              (pc'[c] = "reclaim" <=>
                   via[c] = "fast" /\ ~reclaimed[c] /\ attempt[c] + 1 < MaxAttempts)]_vars

\* The preemptive handshake of one call leaves the client of a call that is
\* being verified alone.
VerifyNotYanked ==
    [][\A c, d \in Commands :
          pc[c] = "preempt" /\ pc'[c] # "preempt" /\ pc[d] = "verify" => connected' = connected]_vars

\* Command frames are never closer than COMMAND_SEND_GAP on the wire.
SendsSpaced ==
    [][\A c \in Commands : pc[c] = "send" /\ pc'[c] = "await" => sinceWire = SendGap]_vars

\* Every service call returns or raises.
EveryCommandEnds == \A c \in Commands : (c \in InFlight) ~> (pc[c] \in Ended)

-----------------------------------------------------------------------------
(* Refinement of CommandService.                                           *)

Phase ==
    [c \in Commands |->
        IF pc[c] \in {"preempt", "queued"} THEN "waiting"
        ELSE IF pc[c] \in Sending THEN "sending"
        ELSE IF pc[c] \in Settling THEN "settling"
        ELSE pc[c]]

SendsStarted ==
    [c \in Commands |->
        IF pc[c] \in {"idle", "preempt", "queued"} THEN attempt[c] ELSE attempt[c] + 1]

Service == INSTANCE CommandService WITH phase <- Phase, sends <- SendsStarted

\* The command path keeps the promises of CommandService: sends of different
\* calls never overlap, a call makes at most MaxAttempts of them, succeeds only
\* after one the cloud accepted, and is offline only after the last of them.
ImplementsService == Service!Spec
=============================================================================
