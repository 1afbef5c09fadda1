--------------------------- MODULE SendCommandProofs ---------------------------
(***************************************************************************)
(* What holds of SendCommand for every set of calls, every number of       *)
(* attempts and every gap.                                                 *)
(***************************************************************************)
EXTENDS SendCommand, SequenceTheorems, TLAPS

\* How far a call can have counted its attempts where it is.
AttemptsCounted ==
    \A c \in Commands :
        /\ pc[c] \in {"idle", "preempt"} => attempt[c] = 0
        /\ pc[c] \in {"retry", "reclaim"} => attempt[c] + 1 < MaxAttempts
        /\ pc[c] = "offline" => attempt[c] = MaxAttempts - 1

\* A call about to write its first frame has slept, and nobody has had a send
\* accepted since; only the send section can be in its second try.
GapKept ==
    \A c \in Commands :
        /\ pc[c] = "send" /\ ~retried[c] => sinceSend = SendGap
        /\ pc[c] \notin {"send", "await"} => ~retried[c]

Inv ==
    /\ TypeOK
    /\ SendsSerialized
    /\ AttemptsCounted
    /\ GapKept

-----------------------------------------------------------------------------
\* The state predicates hold initially.
LEMMA InitInv == Init => Inv
BY CommandsAssumption, PositionsAssumption, BoundsAssumption
DEF Init, Inv, TypeOK, SendsSerialized, AttemptsCounted, GapKept, Places, Sending,
    Settling, Ended

\* Starting an attempt keeps the types, whatever was read as pre_count.
LEMMA StartAttemptType ==
    ASSUME TypeOK, NEW c \in Commands, NEW n \in 0 .. MaxAttempts - 1,
           NEW count \in Nat, StartAttempt(c, n, count)
    PROVE  /\ pc' \in [Commands -> Places]
           /\ attempt' \in [Commands -> 0 .. MaxAttempts - 1]
           /\ pre' \in [Commands -> Nat]
           /\ unverified' \in Nat
           /\ sendLock' \in Commands \union {NoCommand}
           /\ waiters' \in Seq(Commands)
<1>1. CASE sendLock' = c /\ UNCHANGED waiters /\ Goto(c, "gap")
  BY <1>1 DEF TypeOK, StartAttempt, Goto, Places, Sending
<1>2. CASE waiters' = Append(waiters, c) /\ UNCHANGED sendLock /\ Goto(c, "queued")
  <2>1. waiters' \in Seq(Commands)
    BY <1>2, AppendProperties DEF TypeOK
  <2> QED
    BY <1>2, <2>1 DEF TypeOK, StartAttempt, Goto, Places
<1> QED
  BY <1>1, <1>2 DEF StartAttempt, JoinLock

\* Every step keeps the types.
LEMMA NextTypeOK ==
    ASSUME Inv, [Next]_vars
    PROVE  TypeOK'
<1> USE BoundsAssumption, PositionsAssumption DEF Inv
<1>1. CASE UNCHANGED vars
  BY <1>1 DEF TypeOK, vars, local, cycle, lock, health, clocks
<1>2. ASSUME NEW c \in Commands, NEW goal \in Positions, Begin(c, goal)
      PROVE  TypeOK'
  <2>1. CASE ShouldPreempt
    BY <1>2, <2>1 DEF Begin, TypeOK, StartAttempt, Goto, Places, cycle, lock, clocks
  <2>2. CASE ~ShouldPreempt
    <3>1. StartAttempt(c, 0, unverified)
      BY <1>2, <2>2 DEF Begin
    <3>2. 0 \in 0 .. MaxAttempts - 1 /\ unverified \in Nat
      BY DEF TypeOK
    <3> QED
      BY <1>2, <3>1, <3>2, StartAttemptType DEF Begin, TypeOK, cycle, clocks
  <2> QED
    BY <2>1, <2>2
<1>3. ASSUME NEW c \in Commands, Step(c)
      PROVE  TypeOK'
  <2>1. CASE PreemptDone(c)
    <3>1. 0 \in 0 .. MaxAttempts - 1
      OBVIOUS
    <3> QED
      BY <2>1, <3>1, StartAttemptType DEF PreemptDone, TypeOK, cycle, clocks
  <2>2. CASE Acquire(c)
    BY <2>2 DEF Acquire, TypeOK, Goto, Places, Sending, local, cycle, health, clocks
  <2>3. ASSUME NEW reading \in Readings, FetchBaseline(c, reading)
        PROVE  TypeOK'
    BY <2>3 DEF FetchBaseline, TypeOK, Goto, Places, Sending, Readings, local, lock, clocks
  <2>4. CASE FetchBaselineFails(c)
    BY <2>4 DEF FetchBaselineFails, ReleaseLock, TypeOK, Goto, Places, Ended, local,
                cycle, clocks
  <2>5. CASE Transmit(c)
    BY <2>5 DEF Transmit, TypeOK, Goto, Places, Sending, local, cycle, lock
  <2>6. CASE SendErrored(c)
    BY <2>6 DEF SendErrored, TypeOK, Goto, Places, Sending, local, lock, clocks
  <2>7. CASE SendFails(c)
    BY <2>7 DEF SendFails, ReleaseLock, TypeOK, Goto, Places, Ended, local, clocks
  <2>8. CASE SendAccepted(c)
    <3>1. pc' \in [Commands -> Places]
      BY <2>8 DEF SendAccepted, Settle, TypeOK, Goto, Places, Settling
    <3>2. unverified' \in Nat
      <4>1. unverified \in Nat
        BY DEF TypeOK
      <4>2. unverified' \in {0, unverified + 1, unverified}
        BY <2>8 DEF SendAccepted
      <4> QED
        BY <4>1, <4>2
    <3> DEFINE SettledType ==
                 /\ via \in [Commands -> {"none", "noop", "fast", "evidence", "timeout"}]
                 /\ baseline \in [Commands -> Positions \union {NoPosition}]
                 /\ polls \in [Commands -> 0 .. VerifyPolls]
    <3>3. ASSUME UNCHANGED <<baseline, polls, via, unverified>>
          PROVE  SettledType'
      BY <3>3 DEF TypeOK
    <3>4. ASSUME NEW how \in {"noop", "fast"}, Settle(c, "refresh", how)
          PROVE  SettledType'
      BY <3>4 DEF Settle, TypeOK
    <3>5. SettledType'
      BY <2>8, <3>3, <3>4 DEF SendAccepted
    <3>6. /\ sinceSend' = 0
          /\ retried' = [retried EXCEPT ![c] = FALSE]
          /\ sendLock' = NoCommand
          /\ UNCHANGED <<waiters, local, telemetry, connected, sinceWire>>
      BY <2>8 DEF SendAccepted, ReleaseLock
    <3>7. 0 \in 0 .. SendGap
      OBVIOUS
    <3> QED
      BY <3>1, <3>2, <3>5, <3>6, <3>7 DEF TypeOK, local
  <2>9. ASSUME NEW reading \in Readings, VerifySucceeds(c, reading)
        PROVE  TypeOK'
    BY <2>9 DEF VerifySucceeds, Settle, TypeOK, Goto, Places, Settling, local, lock, clocks
  <2>10. ASSUME NEW alive \in BOOLEAN, VerifyPoll(c, alive)
         PROVE  TypeOK'
    <3>1. CASE polls[c] + 1 < VerifyPolls /\ polls' = [polls EXCEPT ![c] = @ + 1]
               /\ UNCHANGED <<pc, baseline, via>>
      BY <2>10, <3>1 DEF VerifyPoll, TypeOK, local, lock, clocks
    <3>2. CASE VerifyTimesOut(c)
      BY <2>10, <3>2 DEF VerifyPoll, VerifyTimesOut, Settle, TypeOK, Goto, Places, Settling,
                         Ended, local, lock, clocks
    <3> QED
      BY <2>10, <3>1, <3>2 DEF VerifyPoll
  <2>11. CASE RetryDone(c)
    <3>1. attempt[c] + 1 \in 0 .. MaxAttempts - 1
      BY <2>11 DEF RetryDone, AttemptsCounted, TypeOK
    <3> QED
      BY <2>11, <3>1, StartAttemptType DEF RetryDone, TypeOK, cycle, clocks
  <2>12. CASE RefreshDone(c)
    BY <2>12 DEF RefreshDone, PollEffect, PollOutcomes, TypeOK, Goto, Places, Settling,
                 Ended, local, cycle, lock, clocks
  <2>13. CASE ReclaimDone(c)
    <3>1. attempt[c] + 1 \in 0 .. MaxAttempts - 1 /\ pre[c] \in Nat
      BY <2>13 DEF ReclaimDone, AttemptsCounted, TypeOK
    <3> QED
      BY <2>13, <3>1, StartAttemptType DEF ReclaimDone, TypeOK, cycle, clocks
  <2> QED
    BY <1>3, <2>1, <2>2, <2>3, <2>4, <2>5, <2>6, <2>7, <2>8, <2>9, <2>10, <2>11, <2>12,
       <2>13 DEF Step
<1>4. CASE Environment
  <2>1. ASSUME NEW outcome \in PollOutcomes, Poll(outcome)
        PROVE  TypeOK'
    BY <2>1 DEF Poll, PollEffect, PollOutcomes, TypeOK, local, cycle, lock, clocks
  <2>2. CASE TelemetryAges
    BY <2>2 DEF TelemetryAges, TypeOK, local, cycle, lock, clocks
  <2>3. CASE Tick
    BY <2>3 DEF Tick, TypeOK, local, cycle, lock, health
  <2> QED
    BY <1>4, <2>1, <2>2, <2>3 DEF Environment
<1> QED
  BY <1>1, <1>2, <1>3, <1>4 DEF Next

-----------------------------------------------------------------------------
\* Only the call that takes the lock enters the section, and the one that
\* releases it leaves.
LEMMA NextSerialized ==
    ASSUME Inv, [Next]_vars
    PROVE  SendsSerialized'
<1> USE CommandsAssumption DEF Inv, TypeOK, SendsSerialized
<1>1. CASE UNCHANGED vars
  BY <1>1 DEF vars, lock
<1>2. ASSUME NEW c \in Commands, StartAttempt(c, attempt'[c], unverified'), pc[c] \notin Sending
      PROVE  SendsSerialized'
  BY <1>2 DEF StartAttempt, JoinLock, Goto, Sending
<1>3. ASSUME NEW c \in Commands, NEW goal \in Positions, Begin(c, goal)
      PROVE  SendsSerialized'
  <2>1. pc[c] \notin Sending
    BY <1>3 DEF Begin, Sending
  <2>2. CASE ShouldPreempt
    BY <1>3, <2>1, <2>2 DEF Begin, Goto, Sending, lock
  <2>3. CASE ~ShouldPreempt
    BY <1>3, <1>2, <2>1, <2>3 DEF Begin, StartAttempt
  <2> QED
    BY <2>2, <2>3
<1>4. ASSUME NEW c \in Commands, Step(c)
      PROVE  SendsSerialized'
  <2>1. CASE PreemptDone(c) \/ RetryDone(c) \/ ReclaimDone(c)
    <3>1. pc[c] \notin Sending
      BY <2>1 DEF PreemptDone, RetryDone, ReclaimDone, Sending
    <3>2. StartAttempt(c, attempt'[c], unverified')
      BY <2>1 DEF PreemptDone, RetryDone, ReclaimDone, StartAttempt
    <3> QED
      BY <1>2, <3>1, <3>2
  <2>2. CASE Acquire(c)
    BY <2>2 DEF Acquire, Goto, Sending
  <2>3. ASSUME NEW reading \in Readings, FetchBaseline(c, reading)
        PROVE  SendsSerialized'
    BY <2>3 DEF FetchBaseline, Goto, Sending, lock
  <2>4. CASE Transmit(c) \/ SendErrored(c)
    BY <2>4 DEF Transmit, SendErrored, Goto, Sending, lock
  <2>5. CASE FetchBaselineFails(c) \/ SendFails(c)
    BY <2>5 DEF FetchBaselineFails, SendFails, ReleaseLock, Goto, Sending
  <2>6. CASE SendAccepted(c)
    <3>1. \E place \in {"refresh", "verify"} : Goto(c, place)
      BY <2>6 DEF SendAccepted, Settle
    <3>2. pc[c] = "await" /\ sendLock' = NoCommand
      BY <2>6 DEF SendAccepted, ReleaseLock
    <3> QED
      BY <3>1, <3>2 DEF Goto, Sending
  <2>7. ASSUME NEW place \in Places \ Sending, Goto(c, place), pc[c] \notin Sending,
               UNCHANGED lock
        PROVE  SendsSerialized'
    BY <2>7 DEF Goto, lock
  <2>8. ASSUME NEW reading \in Readings, VerifySucceeds(c, reading)
        PROVE  SendsSerialized'
    BY <2>7, <2>8 DEF VerifySucceeds, Settle, Sending, Settling, Places
  <2>9. ASSUME NEW alive \in BOOLEAN, VerifyPoll(c, alive)
        PROVE  SendsSerialized'
    <3>1. CASE UNCHANGED pc
      BY <2>9, <3>1 DEF VerifyPoll, lock
    <3>2. CASE VerifyTimesOut(c)
      BY <2>7, <2>9, <3>2 DEF VerifyPoll, VerifyTimesOut, Settle, Sending, Settling, Ended,
                              Places
    <3> QED
      BY <2>9, <3>1, <3>2 DEF VerifyPoll
  <2>10. CASE RefreshDone(c)
    BY <2>7, <2>10 DEF RefreshDone, Sending, Settling, Ended, Places
  <2> QED
    BY <1>4, <2>1, <2>2, <2>3, <2>4, <2>5, <2>6, <2>8, <2>9, <2>10 DEF Step
<1>5. CASE Environment
  BY <1>5 DEF Environment, Poll, TelemetryAges, Tick, lock
<1> QED
  BY <1>1, <1>3, <1>4, <1>5 DEF Next

-----------------------------------------------------------------------------
\* A step moves one call at most, and never out of "idle" but by Begin; where the
\* call goes, the count of its attempts fits.
LEMMA NextAttempts ==
    ASSUME Inv, [Next]_vars
    PROVE  AttemptsCounted'
<1> USE BoundsAssumption DEF Inv, TypeOK, AttemptsCounted
<1>1. CASE UNCHANGED <<pc, attempt>>
  BY <1>1
<1>2. ASSUME NEW c \in Commands, NEW place \in Places \ {"idle", "preempt", "retry", "reclaim", "offline"},
             Goto(c, place),
             \E n \in 0 .. MaxAttempts - 1 : attempt' = [attempt EXCEPT ![c] = n]
      PROVE  AttemptsCounted'
  BY <1>2 DEF Goto
<1>3. ASSUME NEW c \in Commands, NEW n \in 0 .. MaxAttempts - 1, NEW count, StartAttempt(c, n, count)
      PROVE  AttemptsCounted'
  BY <1>2, <1>3 DEF StartAttempt, JoinLock, Places, Sending
<1>4. ASSUME NEW c \in Commands, NEW place \in Places \ {"idle", "preempt", "retry", "reclaim", "offline"},
             Goto(c, place), UNCHANGED attempt
      PROVE  AttemptsCounted'
  BY <1>4 DEF Goto
<1>5. ASSUME NEW c \in Commands, NEW goal \in Positions, Begin(c, goal)
      PROVE  AttemptsCounted'
  <2>1. CASE ShouldPreempt
    BY <1>5, <2>1 DEF Begin, Goto
  <2>2. CASE ~ShouldPreempt
    BY <1>5, <1>3, <2>2 DEF Begin
  <2> QED
    BY <2>1, <2>2
<1>6. ASSUME NEW c \in Commands, Step(c)
      PROVE  AttemptsCounted'
  <2>1. CASE PreemptDone(c)
    BY <1>3, <2>1 DEF PreemptDone
  <2>2. CASE Acquire(c)
    BY <1>4, <2>2 DEF Acquire, local, Places, Sending
  <2>3. ASSUME NEW reading \in Readings, FetchBaseline(c, reading)
        PROVE  AttemptsCounted'
    BY <1>4, <2>3 DEF FetchBaseline, local, Places, Sending
  <2>4. CASE FetchBaselineFails(c) \/ SendFails(c)
    BY <1>4, <2>4 DEF FetchBaselineFails, SendFails, local, Places, Ended
  <2>5. CASE Transmit(c) \/ SendErrored(c)
    BY <1>4, <2>5 DEF Transmit, SendErrored, local, Places, Sending
  <2>6. CASE SendAccepted(c)
    <3>1. \E place \in {"refresh", "verify"} : Goto(c, place)
      BY <2>6 DEF SendAccepted, Settle
    <3> QED
      BY <1>4, <2>6, <3>1 DEF SendAccepted, local, Places, Settling
  <2>7. ASSUME NEW reading \in Readings, VerifySucceeds(c, reading)
        PROVE  AttemptsCounted'
    BY <1>4, <2>7 DEF VerifySucceeds, Settle, local, Places, Settling
  <2>8. ASSUME NEW alive \in BOOLEAN, VerifyPoll(c, alive)
        PROVE  AttemptsCounted'
    <3>1. UNCHANGED attempt
      BY <2>8 DEF VerifyPoll, local
    <3>2. CASE UNCHANGED pc
      BY <1>1, <3>1, <3>2
    <3>3. CASE VerifyTimesOut(c)
      BY <3>1, <3>3 DEF VerifyTimesOut, Settle, Goto
    <3> QED
      BY <2>8, <3>2, <3>3 DEF VerifyPoll
  <2>9. CASE RetryDone(c)
    <3>1. attempt[c] + 1 \in 0 .. MaxAttempts - 1
      BY <2>9 DEF RetryDone
    <3> QED
      BY <1>3, <2>9, <3>1 DEF RetryDone
  <2>10. CASE RefreshDone(c)
    BY <2>10 DEF RefreshDone, NeedsReclaim, Goto, local
  <2>11. CASE ReclaimDone(c)
    <3>1. attempt[c] + 1 \in 0 .. MaxAttempts - 1
      BY <2>11 DEF ReclaimDone
    <3> QED
      BY <1>3, <2>11, <3>1 DEF ReclaimDone
  <2> QED
    BY <1>6, <2>1, <2>2, <2>3, <2>4, <2>5, <2>6, <2>7, <2>8, <2>9, <2>10, <2>11 DEF Step
<1>7. CASE Environment
  BY <1>1, <1>7 DEF Environment, Poll, TelemetryAges, Tick, local
<1>8. CASE UNCHANGED vars
  BY <1>1, <1>8 DEF vars, local
<1> QED
  BY <1>5, <1>6, <1>7, <1>8 DEF Next

-----------------------------------------------------------------------------
\* The gap is only cut short by an accepted send, and that takes the lock.
LEMMA NextGapKept ==
    ASSUME Inv, [Next]_vars
    PROVE  GapKept'
<1> USE BoundsAssumption DEF Inv, TypeOK, SendsSerialized, GapKept
<1>1. CASE UNCHANGED <<pc, retried, sinceSend>>
  BY <1>1
<1>2. ASSUME NEW c \in Commands, NEW place \in Places \ {"send", "await"}, Goto(c, place),
             pc[c] \notin {"send", "await"}, UNCHANGED <<retried, sinceSend>>
      PROVE  GapKept'
  BY <1>2 DEF Goto
<1>3. ASSUME NEW c \in Commands, NEW n, NEW count, StartAttempt(c, n, count),
             pc[c] \notin {"send", "await"}, UNCHANGED <<retried, sinceSend>>
      PROVE  GapKept'
  BY <1>2, <1>3 DEF StartAttempt, JoinLock, Places, Sending
<1>4. ASSUME NEW c \in Commands, NEW goal \in Positions, Begin(c, goal)
      PROVE  GapKept'
  <2>1. CASE ShouldPreempt
    BY <1>2, <1>4, <2>1 DEF Begin, cycle, clocks, Places
  <2>2. CASE ~ShouldPreempt
    BY <1>3, <1>4, <2>2 DEF Begin, cycle, clocks
  <2> QED
    BY <2>1, <2>2
<1>5. ASSUME NEW c \in Commands, Step(c)
      PROVE  GapKept'
  <2>1. CASE PreemptDone(c) \/ RetryDone(c) \/ ReclaimDone(c)
    BY <1>3, <2>1 DEF PreemptDone, RetryDone, ReclaimDone, cycle, clocks
  <2>2. CASE Acquire(c)
    BY <1>2, <2>2 DEF Acquire, cycle, clocks, Places, Sending
  <2>3. ASSUME NEW reading \in Readings, FetchBaseline(c, reading)
        PROVE  GapKept'
    BY <2>3 DEF FetchBaseline, Goto, clocks
  <2>4. CASE FetchBaselineFails(c)
    BY <1>2, <2>4 DEF FetchBaselineFails, cycle, clocks, Places, Ended
  <2>5. CASE Transmit(c)
    BY <2>5 DEF Transmit, Goto, cycle
  <2>6. CASE SendErrored(c)
    BY <2>6 DEF SendErrored, Goto, clocks
  <2>7. CASE SendFails(c)
    BY <2>7 DEF SendFails, Goto, clocks
  <2>8. CASE SendAccepted(c)
    <3>1. PICK place \in {"refresh", "verify"} : Goto(c, place)
      BY <2>8 DEF SendAccepted, Settle
    <3>2. /\ pc[c] = "await"
          /\ retried' = [retried EXCEPT ![c] = FALSE]
      BY <2>8 DEF SendAccepted
    <3>3. \A d \in Commands : d # c => pc[d] \notin {"send", "await"}
      BY <3>2 DEF Sending
    <3> QED
      BY <3>1, <3>2, <3>3 DEF Goto
  <2>9. ASSUME NEW reading \in Readings, VerifySucceeds(c, reading)
        PROVE  GapKept'
    BY <1>2, <2>9 DEF VerifySucceeds, Settle, clocks, Places, Settling
  <2>10. ASSUME NEW alive \in BOOLEAN, VerifyPoll(c, alive)
         PROVE  GapKept'
    BY <1>1, <1>2, <2>10 DEF VerifyPoll, VerifyTimesOut, Settle, clocks, Places, Settling, Ended
  <2>11. CASE RefreshDone(c)
    BY <1>2, <2>11 DEF RefreshDone, cycle, clocks, Places, Settling, Ended
  <2> QED
    BY <1>5, <2>1, <2>2, <2>3, <2>4, <2>5, <2>6, <2>7, <2>8, <2>9, <2>10, <2>11 DEF Step
<1>6. CASE Environment
  <2>1. CASE UNCHANGED <<pc, cycle, sinceSend>>
    BY <1>1, <2>1 DEF cycle
  <2>2. CASE Tick
    BY <2>2 DEF Tick, cycle
  <2> QED
    BY <1>6, <2>1, <2>2 DEF Environment, Poll, TelemetryAges, clocks
<1>7. CASE UNCHANGED vars
  BY <1>1, <1>7 DEF vars, cycle, clocks
<1> QED
  BY <1>4, <1>5, <1>6, <1>7 DEF Next

-----------------------------------------------------------------------------
\* The inductive invariant holds in every behaviour.
THEOREM Invariance == Spec => []Inv
<1>1. Init => Inv
  BY InitInv
<1>2. Inv /\ [Next]_vars => Inv'
  BY NextTypeOK, NextSerialized, NextAttempts, NextGapKept DEF Inv
<1> QED
  BY <1>1, <1>2, PTL DEF Spec

\* Type correctness of the command path.
THEOREM TypeCorrect == Spec => []TypeOK
BY Invariance, PTL DEF Inv

\* Whatever fails and whatever overlaps, the send section excludes: it is the
\* holder of _send_lock and nobody else that is between the gap and the answer.
THEOREM SendSectionExcludes == Spec => []SendsSerialized
BY Invariance, PTL DEF Inv

\* The first frame of an attempt keeps COMMAND_SEND_GAP from the last send that
\* the cloud accepted, for any number of overlapping calls.
THEOREM GapIsKept == Spec => AcceptedSpacing
<1>1. Inv => \A c \in Commands : pc[c] = "send" /\ ~retried[c] => sinceSend = SendGap
  BY DEF Inv, GapKept
<1>2. Inv /\ [Next]_vars =>
          [\A c \in Commands : FirstFrame(c) => sinceSend = SendGap]_vars
  BY <1>1 DEF FirstFrame
<1> QED
  BY <1>2, Invariance, PTL DEF Spec, AcceptedSpacing

-----------------------------------------------------------------------------
\* A call that is not in the queue joins it at the end, once.
LEMMA JoinKeepsQueue ==
    ASSUME TypeOK, QueueMatchesWaiters, NEW c \in Commands, pc[c] # "queued", JoinLock(c)
    PROVE  QueueMatchesWaiters'
<1>1. \A i \in 1 .. Len(waiters) : waiters[i] \in Commands /\ waiters[i] # c
  BY DEF TypeOK, QueueMatchesWaiters
<1>2. CASE UNCHANGED waiters /\ Goto(c, "gap")
  BY <1>1, <1>2 DEF TypeOK, QueueMatchesWaiters, Goto
<1>3. CASE waiters' = Append(waiters, c) /\ Goto(c, "queued")
  <2>1. /\ Len(waiters) \in Nat
        /\ Len(waiters') = Len(waiters) + 1
        /\ \A i \in 1 .. Len(waiters) : waiters'[i] = waiters[i]
        /\ waiters'[Len(waiters) + 1] = c
    BY <1>3, AppendProperties DEF TypeOK
  <2>2. \A d \in Commands : pc'[d] = IF d = c THEN "queued" ELSE pc[d]
    BY <1>3 DEF Goto, TypeOK
  <2>3. ASSUME NEW d \in Commands
        PROVE  (pc'[d] = "queued") <=> (\E i \in 1 .. Len(waiters') : waiters'[i] = d)
    <3>1. CASE d = c
      <4>1. Len(waiters) + 1 \in 1 .. Len(waiters')
        BY <2>1
      <4> QED
        BY <2>1, <2>2, <3>1, <4>1
    <3>2. CASE d # c
      <4>1. (\E i \in 1 .. Len(waiters') : waiters'[i] = d)
              <=> (\E i \in 1 .. Len(waiters) : waiters[i] = d)
        BY <2>1, <3>2
      <4> QED
        BY <2>2, <3>2, <4>1 DEF QueueMatchesWaiters
    <3> QED
      BY <3>1, <3>2
  <2>4. \A i, j \in 1 .. Len(waiters') : waiters'[i] = waiters'[j] => i = j
    BY <1>1, <2>1 DEF QueueMatchesWaiters
  <2> QED
    BY <2>3, <2>4 DEF QueueMatchesWaiters
<1> QED
  BY <1>2, <1>3 DEF JoinLock

\* The woken waiter leaves the queue, and the others move up.
LEMMA AcquireKeepsQueue ==
    ASSUME TypeOK, QueueMatchesWaiters, NEW c \in Commands, Acquire(c)
    PROVE  QueueMatchesWaiters'
<1>1. /\ Len(waiters) \in Nat
      /\ Len(waiters') = Len(waiters) - 1
      /\ \A i \in 1 .. Len(waiters') : waiters'[i] = waiters[i + 1]
      /\ waiters[1] = c
      /\ waiters # <<>>
  BY HeadTailProperties DEF TypeOK, Acquire
<1>2. Len(waiters) >= 1
  BY <1>1 DEF TypeOK
<1>3. \A d \in Commands : pc'[d] = IF d = c THEN "gap" ELSE pc[d]
  BY DEF Acquire, Goto, TypeOK
<1>4. ASSUME NEW d \in Commands
      PROVE  (pc'[d] = "queued") <=> (\E i \in 1 .. Len(waiters') : waiters'[i] = d)
  <2>1. CASE d = c
    <3>1. \A i \in 1 .. Len(waiters') : waiters'[i] # c
      <4> SUFFICES ASSUME NEW i \in 1 .. Len(waiters') PROVE waiters[i + 1] # waiters[1]
        BY <1>1
      <4>1. i + 1 \in 1 .. Len(waiters) /\ 1 \in 1 .. Len(waiters) /\ i + 1 # 1
        BY <1>1, <1>2
      <4> QED
        BY <4>1 DEF QueueMatchesWaiters
    <3> QED
      BY <1>3, <2>1, <3>1
  <2>2. CASE d # c
    <3>1. ASSUME NEW i \in 1 .. Len(waiters), waiters[i] = d
          PROVE  \E j \in 1 .. Len(waiters') : waiters'[j] = d
      <4>1. i # 1
        BY <1>1, <2>2, <3>1
      <4>2. i - 1 \in 1 .. Len(waiters') /\ (i - 1) + 1 = i
        BY <1>1, <4>1
      <4>3. waiters'[i - 1] = waiters[(i - 1) + 1]
        BY <1>1, <4>2
      <4> QED
        BY <3>1, <4>2, <4>3
    <3>2. ASSUME NEW j \in 1 .. Len(waiters'), waiters'[j] = d
          PROVE  \E i \in 1 .. Len(waiters) : waiters[i] = d
      <4>1. j + 1 \in 1 .. Len(waiters)
        BY <1>1
      <4> QED
        BY <1>1, <3>2, <4>1
    <3> QED
      BY <1>3, <2>2, <3>1, <3>2 DEF QueueMatchesWaiters
  <2> QED
    BY <2>1, <2>2
<1>5. ASSUME NEW i \in 1 .. Len(waiters'), NEW j \in 1 .. Len(waiters'), waiters'[i] = waiters'[j]
      PROVE  i = j
  <2>1. i + 1 \in 1 .. Len(waiters) /\ j + 1 \in 1 .. Len(waiters)
    BY <1>1
  <2>2. i + 1 = j + 1
    BY <1>1, <1>5, <2>1 DEF QueueMatchesWaiters
  <2> QED
    BY <2>2
<1> QED
  BY <1>4, <1>5 DEF QueueMatchesWaiters

\* No other step moves a call into or out of the queue.
LEMMA NextQueue ==
    ASSUME TypeOK, QueueMatchesWaiters, [Next]_vars
    PROVE  QueueMatchesWaiters'
<1>1. CASE UNCHANGED <<pc, waiters>>
  BY <1>1 DEF QueueMatchesWaiters
<1>2. ASSUME NEW c \in Commands, NEW place \in Places \ {"queued"}, Goto(c, place),
             pc[c] # "queued", UNCHANGED waiters
      PROVE  QueueMatchesWaiters'
  BY <1>2 DEF TypeOK, QueueMatchesWaiters, Goto
<1>3. ASSUME NEW c \in Commands, NEW goal \in Positions, Begin(c, goal)
      PROVE  QueueMatchesWaiters'
  <2>1. CASE ShouldPreempt
    BY <1>2, <1>3, <2>1 DEF Begin, lock, Places
  <2>2. CASE ~ShouldPreempt
    BY <1>3, <2>2, JoinKeepsQueue DEF Begin, StartAttempt
  <2> QED
    BY <2>1, <2>2
<1>4. ASSUME NEW c \in Commands, Step(c)
      PROVE  QueueMatchesWaiters'
  <2>1. CASE PreemptDone(c) \/ RetryDone(c) \/ ReclaimDone(c)
    BY <2>1, JoinKeepsQueue DEF PreemptDone, RetryDone, ReclaimDone, StartAttempt
  <2>2. CASE Acquire(c)
    BY <2>2, AcquireKeepsQueue
  <2>3. ASSUME NEW reading \in Readings, FetchBaseline(c, reading)
        PROVE  QueueMatchesWaiters'
    BY <1>2, <2>3 DEF FetchBaseline, lock, Places, Sending
  <2>4. CASE FetchBaselineFails(c) \/ SendFails(c)
    BY <1>2, <2>4 DEF FetchBaselineFails, SendFails, ReleaseLock, Places, Ended
  <2>5. CASE Transmit(c) \/ SendErrored(c)
    BY <1>2, <2>5 DEF Transmit, SendErrored, lock, Places, Sending
  <2>6. CASE SendAccepted(c)
    <3>1. \E place \in {"refresh", "verify"} : Goto(c, place)
      BY <2>6 DEF SendAccepted, Settle
    <3>2. pc[c] = "await" /\ UNCHANGED waiters
      BY <2>6 DEF SendAccepted, ReleaseLock
    <3> QED
      BY <1>2, <3>1, <3>2 DEF Places, Settling
  <2>7. ASSUME NEW reading \in Readings, VerifySucceeds(c, reading)
        PROVE  QueueMatchesWaiters'
    BY <1>2, <2>7 DEF VerifySucceeds, Settle, lock, Places, Settling
  <2>8. ASSUME NEW alive \in BOOLEAN, VerifyPoll(c, alive)
        PROVE  QueueMatchesWaiters'
    BY <1>1, <1>2, <2>8 DEF VerifyPoll, VerifyTimesOut, Settle, lock, Places, Settling, Ended
  <2>9. CASE RefreshDone(c)
    BY <1>2, <2>9 DEF RefreshDone, lock, Places, Settling, Ended
  <2> QED
    BY <1>4, <2>1, <2>2, <2>3, <2>4, <2>5, <2>6, <2>7, <2>8, <2>9 DEF Step
<1>5. CASE Environment
  BY <1>1, <1>5 DEF Environment, Poll, TelemetryAges, Tick, lock
<1>6. CASE UNCHANGED vars
  BY <1>1, <1>6 DEF vars, lock
<1> QED
  BY <1>3, <1>4, <1>5, <1>6 DEF Next

\* No call is forgotten in the queue of _send_lock, and none is in it twice.
THEOREM NobodyForgotten == Spec => []QueueMatchesWaiters
<1>1. Init => QueueMatchesWaiters
  BY DEF Init, QueueMatchesWaiters
<1>2. TypeOK /\ QueueMatchesWaiters /\ [Next]_vars => QueueMatchesWaiters'
  BY NextQueue
<1> QED
  BY <1>1, <1>2, TypeCorrect, PTL DEF Spec

-----------------------------------------------------------------------------
\* Every initial state of the command path is one of CommandService.
LEMMA InitRefines == Init => Service!Init
BY DEF Init, Service!Init, Phase, SendsStarted, Sending, Settling

\* What a step does to the call that takes it, seen from CommandService.
LEMMA PhaseStep ==
    ASSUME Inv, NEW c \in Commands, NEW place \in Places, NEW n \in Nat,
           Goto(c, place), attempt' = [attempt EXCEPT ![c] = n]
    PROVE  /\ Phase' = [Phase EXCEPT ![c] =
                  IF place \in {"preempt", "queued"} THEN "waiting"
                  ELSE IF place \in Sending THEN "sending"
                  ELSE IF place \in Settling THEN "settling"
                  ELSE place]
           /\ SendsStarted' = [SendsStarted EXCEPT ![c] =
                  IF place \in {"idle", "preempt", "queued"} THEN n ELSE n + 1]
BY DEF Inv, TypeOK, Goto, Phase, SendsStarted

\* Starting an attempt is a Send of CommandService when the lock is free and a
\* Wait, or a stutter of a call that waits already, when it is not.
LEMMA StartRefines ==
    ASSUME Inv, NEW c \in Commands, pc[c] \in {"idle", "preempt", "retry", "reclaim"},
           NEW n \in Nat, NEW count, StartAttempt(c, n, count),
           n = SendsStarted[c], n < MaxAttempts
    PROVE  [Service!Next]_(Service!vars)
<1> USE DEF Inv, TypeOK
<1>1. Phase[c] \in {"idle", "waiting", "settling"} /\ (Phase[c] = "idle" <=> pc[c] = "idle")
      /\ (Phase[c] = "waiting" <=> pc[c] = "preempt")
  BY DEF Phase, Sending, Settling
<1>2. CASE sendLock = NoCommand /\ Goto(c, "gap")
  <2>1. Phase' = [Phase EXCEPT ![c] = "sending"] /\ SendsStarted' = [SendsStarted EXCEPT ![c] = n + 1]
    BY <1>2, PhaseStep DEF StartAttempt, Places, Sending
  <2>2. \A d \in Commands : Phase[d] # "sending"
    BY <1>2, CommandsAssumption DEF SendsSerialized, Phase, Sending, Settling, Places, Ended
  <2>3. Service!Send(c)
    BY <1>1, <2>1, <2>2 DEF Service!Send
  <2> QED
    BY <2>3 DEF Service!Next
<1>3. CASE Goto(c, "queued")
  <2>1. Phase' = [Phase EXCEPT ![c] = "waiting"] /\ SendsStarted' = [SendsStarted EXCEPT ![c] = n]
    BY <1>3, PhaseStep DEF StartAttempt, Places
  <2>2. SendsStarted' = SendsStarted
    BY <2>1 DEF SendsStarted
  <2>3. CASE pc[c] = "preempt"
    <3>1. Phase' = Phase
      BY <1>1, <2>1, <2>3 DEF Phase
    <3> QED
      BY <2>2, <3>1 DEF Service!vars
  <2>4. CASE pc[c] # "preempt"
    <3>1. Service!Wait(c)
      BY <1>1, <2>1, <2>2, <2>4 DEF Service!Wait
    <3> QED
      BY <3>1 DEF Service!Next
  <2> QED
    BY <2>3, <2>4
<1> QED
  BY <1>2, <1>3 DEF StartAttempt, JoinLock

\* Every step of the command path is a step of CommandService or a stutter.
LEMMA NextRefines ==
    ASSUME Inv, [Next]_vars
    PROVE  [Service!Next]_(Service!vars)
<1> USE BoundsAssumption DEF Inv, TypeOK
<1>1. CASE UNCHANGED <<pc, attempt>>
  BY <1>1 DEF Service!vars, Phase, SendsStarted
<1>2. ASSUME NEW c \in Commands, NEW place \in Places \ {"idle", "preempt", "queued"},
             Goto(c, place), UNCHANGED attempt,
             pc[c] \notin {"idle", "preempt", "queued"}
      PROVE  /\ SendsStarted' = SendsStarted
             /\ Phase' = [Phase EXCEPT ![c] = IF place \in Sending THEN "sending"
                                              ELSE IF place \in Settling THEN "settling"
                                              ELSE place]
  <2>1. /\ Phase' = [Phase EXCEPT ![c] = IF place \in Sending THEN "sending"
                                         ELSE IF place \in Settling THEN "settling"
                                         ELSE place]
        /\ SendsStarted' = [SendsStarted EXCEPT ![c] = attempt[c] + 1]
    BY <1>2 DEF Goto, Phase, SendsStarted
  <2> QED
    BY <1>2, <2>1 DEF SendsStarted
<1>3. ASSUME NEW c \in Commands, NEW place \in Places \ {"idle", "preempt", "queued"},
             Goto(c, place), UNCHANGED attempt,
             \/ pc[c] \in Sending /\ place \in Sending
             \/ pc[c] \in Settling /\ place \in Settling
      PROVE  UNCHANGED Service!vars
  <2>1. Phase[c] = IF place \in Sending THEN "sending" ELSE "settling"
    BY <1>3 DEF Phase, Sending, Settling
  <2>2. Phase' = [Phase EXCEPT ![c] = Phase[c]] /\ SendsStarted' = SendsStarted
    BY <1>2, <1>3, <2>1 DEF Sending, Settling
  <2> QED
    BY <2>2 DEF Service!vars, Phase
<1>4. ASSUME NEW c \in Commands, NEW goal \in Positions, Begin(c, goal)
      PROVE  [Service!Next]_(Service!vars)
  <2>1. pc[c] = "idle" /\ attempt[c] = 0 /\ SendsStarted[c] = 0 /\ Phase[c] = "idle"
    BY <1>4 DEF Begin, AttemptsCounted, SendsStarted, Phase, Sending, Settling
  <2>2. CASE ShouldPreempt
    <3>1. Goto(c, "preempt") /\ attempt' = [attempt EXCEPT ![c] = 0]
      BY <1>4, <2>1, <2>2 DEF Begin
    <3>2. Phase' = [Phase EXCEPT ![c] = "waiting"] /\ SendsStarted' = [SendsStarted EXCEPT ![c] = 0]
      BY <3>1, PhaseStep DEF Places
    <3>3. SendsStarted' = SendsStarted
      BY <2>1, <3>2 DEF SendsStarted
    <3>4. Service!Wait(c)
      BY <2>1, <3>2, <3>3 DEF Service!Wait
    <3> QED
      BY <3>4 DEF Service!Next
  <2>3. CASE ~ShouldPreempt
    BY <1>4, <2>1, <2>3, StartRefines DEF Begin
  <2> QED
    BY <2>2, <2>3
<1>5. ASSUME NEW c \in Commands, Step(c)
      PROVE  [Service!Next]_(Service!vars)
  <2>1. CASE PreemptDone(c)
    <3>1. pc[c] = "preempt" /\ SendsStarted[c] = 0
      BY <2>1 DEF PreemptDone, AttemptsCounted, SendsStarted
    <3> QED
      BY <2>1, <3>1, StartRefines DEF PreemptDone
  <2>2. CASE Acquire(c)
    <3>1. attempt[c] \in Nat /\ pc[c] = "queued" /\ attempt' = [attempt EXCEPT ![c] = attempt[c]]
      BY <2>2 DEF Acquire, local
    <3>2. Phase[c] = "waiting" /\ SendsStarted[c] = attempt[c] /\ attempt[c] < MaxAttempts
      BY <3>1 DEF Phase, SendsStarted
    <3>3. /\ Phase' = [Phase EXCEPT ![c] = "sending"]
          /\ SendsStarted' = [SendsStarted EXCEPT ![c] = attempt[c] + 1]
      BY <2>2, <3>1, PhaseStep DEF Acquire, Places, Sending
    <3>4. \A d \in Commands : Phase[d] # "sending"
      BY <2>2, CommandsAssumption DEF Acquire, SendsSerialized, Phase, Sending, Settling,
                                      Places, Ended
    <3>5. Service!Send(c)
      BY <3>2, <3>3, <3>4 DEF Service!Send
    <3> QED
      BY <3>5 DEF Service!Next
  <2>3. ASSUME NEW reading \in Readings, FetchBaseline(c, reading)
        PROVE  [Service!Next]_(Service!vars)
    <3>1. Goto(c, "send") /\ UNCHANGED attempt /\ pc[c] \in Sending
      BY <2>3 DEF FetchBaseline, local, Sending
    <3> QED
      BY <1>3, <3>1 DEF Places, Sending
  <2>4. CASE FetchBaselineFails(c) \/ SendFails(c)
    <3>1. pc[c] \in Sending /\ Goto(c, "failed") /\ UNCHANGED attempt
      BY <2>4 DEF FetchBaselineFails, SendFails, Sending, local
    <3>2. Phase' = [Phase EXCEPT ![c] = "failed"] /\ SendsStarted' = SendsStarted
      BY <1>2, <3>1 DEF Places, Sending, Settling, Ended
    <3>3. Phase[c] = "sending"
      BY <3>1 DEF Phase, Sending
    <3> QED
      BY <3>2, <3>3 DEF Service!Fail, Service!Next
  <2>5. CASE Transmit(c) \/ SendErrored(c)
    <3>1. /\ Goto(c, "await") \/ Goto(c, "send")
          /\ UNCHANGED attempt
          /\ pc[c] \in Sending
      BY <2>5 DEF Transmit, SendErrored, local, Sending
    <3> QED
      BY <1>3, <3>1 DEF Places, Sending
  <2>6. CASE SendAccepted(c)
    <3>1. PICK place \in {"refresh", "verify"} : Goto(c, place)
      BY <2>6 DEF SendAccepted, Settle
    <3>2. pc[c] = "await" /\ UNCHANGED attempt
      BY <2>6 DEF SendAccepted, local
    <3>3. Phase' = [Phase EXCEPT ![c] = "settling"] /\ SendsStarted' = SendsStarted
      BY <1>2, <3>1, <3>2 DEF Places, Sending, Settling
    <3>4. Phase[c] = "sending"
      BY <3>2 DEF Phase, Sending
    <3> QED
      BY <3>3, <3>4 DEF Service!Accept, Service!Next
  <2>7. ASSUME NEW reading \in Readings, VerifySucceeds(c, reading)
        PROVE  [Service!Next]_(Service!vars)
    BY <1>3, <2>7 DEF VerifySucceeds, Settle, local, Places, Settling
  <2>8. ASSUME NEW alive \in BOOLEAN, VerifyPoll(c, alive)
        PROVE  [Service!Next]_(Service!vars)
    <3>1. pc[c] = "verify" /\ UNCHANGED attempt
      BY <2>8 DEF VerifyPoll, local
    <3>2. CASE UNCHANGED pc
      BY <1>1, <3>1, <3>2
    <3>3. CASE Goto(c, "retry")
      BY <1>3, <3>1, <3>3 DEF Places, Settling
    <3>4. CASE Goto(c, "offline") /\ attempt[c] = MaxAttempts - 1
      <4>1. Phase' = [Phase EXCEPT ![c] = "offline"] /\ SendsStarted' = SendsStarted
        BY <1>2, <3>1, <3>4 DEF Places, Sending, Settling, Ended
      <4>2. Phase[c] = "settling" /\ SendsStarted[c] = MaxAttempts
        BY <3>1, <3>4 DEF Phase, SendsStarted, Sending, Settling
      <4> QED
        BY <4>1, <4>2 DEF Service!GiveUp, Service!Next
    <3> QED
      BY <2>8, <3>2, <3>3, <3>4 DEF VerifyPoll, VerifyTimesOut, Settle
  <2>9. CASE RetryDone(c) \/ ReclaimDone(c)
    <3>1. /\ pc[c] \in {"retry", "reclaim"}
          /\ SendsStarted[c] = attempt[c] + 1
          /\ attempt[c] + 1 < MaxAttempts
          /\ attempt[c] + 1 \in Nat
      BY <2>9 DEF RetryDone, ReclaimDone, AttemptsCounted, SendsStarted
    <3> QED
      BY <2>9, <3>1, StartRefines DEF RetryDone, ReclaimDone
  <2>10. CASE RefreshDone(c)
    <3>1. pc[c] = "refresh" /\ UNCHANGED attempt
      BY <2>10 DEF RefreshDone, local
    <3>2. CASE Goto(c, "reclaim")
      BY <1>3, <3>1, <3>2 DEF Places, Settling
    <3>3. CASE Goto(c, "ok")
      <4>1. Phase' = [Phase EXCEPT ![c] = "ok"] /\ SendsStarted' = SendsStarted
        BY <1>2, <3>1, <3>3 DEF Places, Sending, Settling, Ended
      <4>2. Phase[c] = "settling"
        BY <3>1 DEF Phase, Sending, Settling
      <4> QED
        BY <4>1, <4>2 DEF Service!Succeed, Service!Next
    <3> QED
      BY <2>10, <3>2, <3>3 DEF RefreshDone
  <2> QED
    BY <1>5, <2>1, <2>2, <2>3, <2>4, <2>5, <2>6, <2>7, <2>8, <2>9, <2>10 DEF Step
<1>6. CASE Environment
  BY <1>1, <1>6 DEF Environment, Poll, TelemetryAges, Tick, local
<1>7. CASE UNCHANGED vars
  BY <1>1, <1>7 DEF vars, local
<1> QED
  BY <1>4, <1>5, <1>6, <1>7 DEF Next

\* The command path implements CommandService, for any number of overlapping
\* calls and any number of attempts.
THEOREM Refinement == Spec => ImplementsService
<1>1. Init => Service!Init
  BY InitRefines
<1>2. Inv /\ [Next]_vars => [Service!Next]_(Service!vars)
  BY NextRefines
<1> QED
  BY <1>1, <1>2, Invariance, PTL DEF Spec, ImplementsService, Service!Spec
=============================================================================
