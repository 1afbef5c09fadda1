------------------------------- MODULE H2Client -------------------------------
(***************************************************************************)
(* FinderHomeClient (api/client.py) after its preface has been accepted:   *)
(* unary calls as streams of one connection, the read loop that answers    *)
(* them, the notification stream with the handshake on it, the keepalive   *)
(* tasks and close().  What a notification does to the waiters for shutter *)
(* events is in ShutterEvents.                                             *)
(*                                                                         *)
(* What the server sends is chosen when it is read: TCP keeps its order.   *)
(* A client write does not block (requests are far below the high-water    *)
(* mark of the transport), and drain() raises once the transport is lost.  *)
(* Streams are numbered in the order they are opened; the k-th has the id  *)
(* 2k-1.                                                                   *)
(***************************************************************************)
EXTENDS Naturals, Sequences

CONSTANTS
    Calls,             \* the RPCs that the coordinator makes on the client
    Boot,              \* the caller of the handshake's own RPCs
    Nobody,
    BootCalls,         \* CheckUser, PlatformCheck, GetUserPlants: 3
    MaxHandshakes,     \* bound: handshakes on one client
    MaxStreams,        \* bound: streams of one client
    AnswerFrames,      \* DATA frames of an answer
    StreamWindow,      \* notifications that fit INITIAL_WINDOW_SIZE
    ConnectionWindow   \* DATA frames that fit the WINDOW_UPDATE of _connect

ASSUME CallerAssumption == Boot \notin Calls /\ Nobody \notin Calls \union {Boot}
ASSUME SizeAssumption ==
    /\ BootCalls \in Nat \ {0} /\ MaxHandshakes \in Nat /\ MaxStreams \in Nat
    /\ AnswerFrames \in Nat /\ StreamWindow \in Nat /\ ConnectionWindow \in Nat

VARIABLES
    link,        \* the transport: up, closing by close(), or lost
    reader,      \* _read_task
    closed,      \* close() has been called
    window,      \* DATA frames the server may still send
    opened,      \* streams so far: _next_stream_id
    pending,     \* the keys of _pending
    fut,         \* the future of each stream, while anybody refers to it
    asked,       \* whose unanswered request the server has on each stream
    bufs,        \* data_bufs, and the payload of the future
    pc, sid,     \* each caller: where it is, and the stream of its call
    hs,          \* where handshake() is
    round,       \* how many handshakes have been started
    booted,      \* the bootstrap calls this one has started
    plant,       \* the coordinator's _plant_id: the first handshake named a plant
    notif,       \* _notification_stream_id, 0 for None
    room,        \* notifications the server may still send on it
    owed,        \* messages of the handshake the server has not answered
    queue,       \* _notification_queue
    keepalive,   \* the keepalive task of each handshake
    orderly      \* no wait has expired, nothing came unasked (auxiliary)

linkVars   == <<link, reader, closed>>
streamVars == <<opened, pending, fut, asked, bufs>>
callVars   == <<pc, sid>>
shakeVars  == <<hs, round, booted, plant, notif, keepalive>>
noteVars   == <<room, owed, queue>>
vars       == <<linkVars, window, streamVars, callVars, shakeVars, noteVars, orderly>>

Callers == Calls \union {Boot}
Streams == 1 .. MaxStreams
Rounds  == 1 .. MaxHandshakes

\* The message n of the handshake on stream s, and the answer to it.
Message == [stream : Streams, number : 1 .. 3]
Unasked == [stream |-> 0, number |-> 0]

\* How a stream ends: with the answer, with an answer that reports an error in
\* field 1, with a grpc-status, or with one that could not be decoded.
Answers == {"fine", "refused", "error", "unread"}

\* What the server sends is read.
Readable == reader = "running" /\ link = "up"

Over == {"returned", "refused", "raised", "timedout"}
Waiting == {"hello", "subscribe", "subscribe-plant"}

TypeOK ==
    /\ link \in {"up", "closing", "lost"}
    /\ reader \in {"running", "cancelled", "ended"}
    /\ closed \in BOOLEAN /\ plant \in BOOLEAN /\ orderly \in BOOLEAN
    /\ window \in 0 .. ConnectionWindow
    /\ opened \in 0 .. MaxStreams /\ notif \in 0 .. MaxStreams
    /\ pending \subseteq Streams
    /\ fut \in [Streams -> {"none", "unset", "failed", "cancelled"} \union Answers]
    /\ asked \in [Streams -> Callers \union {Nobody}]
    /\ bufs \in [Streams -> Seq(Callers \X (1 .. AnswerFrames))]
    /\ pc \in [Callers -> {"idle", "awaiting"} \union Over]
    /\ sid \in [Callers -> 0 .. MaxStreams]
    /\ hs \in {"idle", "ping", "boot", "done", "failed"} \union Waiting
    /\ round \in 0 .. MaxHandshakes
    /\ booted \in 0 .. BootCalls
    /\ room \in 0 .. StreamWindow
    /\ owed \in Seq(Message)
    /\ queue \in Seq(Message \union {Unasked})
    /\ keepalive \in [Rounds -> {"none", "sleeping", "over"}]

Init ==
    /\ link = "up" /\ reader = "running" /\ closed = FALSE
    /\ window = ConnectionWindow
    /\ opened = 0 /\ pending = {}
    /\ fut = [s \in Streams |-> "none"]
    /\ asked = [s \in Streams |-> Nobody]
    /\ bufs = [s \in Streams |-> <<>>]
    /\ pc = [c \in Callers |-> "idle"]
    /\ sid = [c \in Callers |-> 0]
    /\ hs = "idle" /\ round = 0 /\ booted = 0 /\ plant = FALSE /\ notif = 0
    /\ room = 0 /\ owed = <<>> /\ queue = <<>>
    /\ keepalive = [h \in Rounds |-> "none"]
    /\ orderly = TRUE

-----------------------------------------------------------------------------
(* _call.                                                                  *)

\* Seeded fault: the counter is read, and advanced only after another await.
OpenStreamLate(c) ==
    /\ opened < MaxStreams
    /\ opened' \in {opened, opened + 1}
    /\ fut' = [fut EXCEPT ![opened + 1] = "unset"]
    /\ pending' = pending \union {opened + 1}
    /\ asked' = IF link = "up" THEN [asked EXCEPT ![opened + 1] = c] ELSE asked
    /\ sid' = [sid EXCEPT ![c] = opened + 1]
    /\ pc' = [pc EXCEPT ![c] = "awaiting"]
    /\ UNCHANGED bufs

\* _call up to wait_for; _stream_id_lock is never contended, as nothing is
\* awaited under it.  When drain() raises, the future stays in _pending.
OpenStream(c) ==
    /\ opened < MaxStreams
    /\ opened' = opened + 1
    /\ fut' = [fut EXCEPT ![opened + 1] = "unset"]
    /\ pending' = pending \union {opened + 1}
    /\ asked' = IF Readable THEN [asked EXCEPT ![opened + 1] = c] ELSE asked
    /\ sid' = [sid EXCEPT ![c] = IF link = "lost" THEN 0 ELSE opened + 1]
    /\ pc' = [pc EXCEPT ![c] = IF link = "lost" THEN "raised" ELSE "awaiting"]
    /\ UNCHANGED bufs

\* Only a client whose handshake is done has been handed out.
Request(c) ==
    /\ pc[c] = "idle"
    /\ hs = "done" \/ round > 1
    /\ OpenStream(c)
    /\ UNCHANGED <<linkVars, window, shakeVars, noteVars, orderly>>

\* The future is done with, and the payload with it.
Forget(s) ==
    /\ fut' = [fut EXCEPT ![s] = "none"]
    /\ bufs' = [bufs EXCEPT ![s] = <<>>]

\* Seeded fault: the result of the future is handed on, whatever its status.
OutcomeUnchecked(s) == fut[s]

\* The payload, FinderApiError, or the closed connection.  A status that was not
\* decoded counts as 0, and an empty body has no error in field 1.
Outcome(s) ==
    CASE fut[s] \in {"fine", "unread"}   -> "returned"
      [] fut[s] \in {"refused", "error"} -> "refused"
      [] OTHER                           -> "raised"

\* wait_for returns.
Resume(c) ==
    /\ pc[c] = "awaiting"
    /\ fut[sid[c]] \in Answers \union {"failed"}
    /\ pc' = [pc EXCEPT ![c] = Outcome(sid[c])]
    /\ sid' = [sid EXCEPT ![c] = 0]
    /\ Forget(sid[c])
    /\ UNCHANGED <<opened, pending, asked>>

\* Seeded fault: wait_for only expires while the read loop is there.
ExpireWhileRead(c) ==
    /\ pc[c] = "awaiting" /\ reader = "running"
    /\ pc' = [pc EXCEPT ![c] = "timedout"]
    /\ sid' = [sid EXCEPT ![c] = 0]
    /\ IF fut[sid[c]] = "unset"
       THEN fut' = [fut EXCEPT ![sid[c]] = "cancelled"] /\ UNCHANGED bufs
       ELSE Forget(sid[c])
    /\ UNCHANGED <<opened, pending, asked>>

\* wait_for expires, possibly just before the task would have resumed.  A future
\* without a result is cancelled, and its entry stays in _pending.
Expire(c) ==
    /\ pc[c] = "awaiting"
    /\ pc' = [pc EXCEPT ![c] = "timedout"]
    /\ sid' = [sid EXCEPT ![c] = 0]
    /\ IF fut[sid[c]] = "unset"
       THEN fut' = [fut EXCEPT ![sid[c]] = "cancelled"] /\ UNCHANGED bufs
       ELSE Forget(sid[c])
    /\ UNCHANGED <<opened, pending, asked>>

CallStep(c) ==
    /\ Resume(c) \/ Expire(c)
    /\ UNCHANGED <<linkVars, window, shakeVars, noteVars, orderly>>

-----------------------------------------------------------------------------
(* _read_loop.  RST_STREAM and the other frames it ignores change nothing: *)
(* the stream is then one that is never answered.                          *)

\* A DATA frame of an answer.
ReadData(s) ==
    /\ Readable /\ window > 0
    /\ asked[s] # Nobody
    /\ Len(bufs[s]) < AnswerFrames
    /\ bufs' = [bufs EXCEPT ![s] = Append(@, <<asked[s], Len(@) + 1>>)]
    /\ window' = window - 1
    /\ UNCHANGED <<linkVars, opened, pending, fut, asked, callVars,
                   shakeVars, noteVars, orderly>>

\* Seeded fault: the entry of a call that has timed out is not removed.
FinalizeAwaited(s, how) ==
    /\ pending' = IF fut[s] = "unset" THEN pending \ {s} ELSE pending
    /\ IF fut[s] = "unset"
       THEN fut' = [fut EXCEPT ![s] = how] /\ UNCHANGED bufs
       ELSE Forget(s)

\* _finalize_stream: a future that is cancelled has no use for the answer.
Finalize(s, how) ==
    /\ pending' = pending \ {s}
    /\ IF fut[s] = "unset"
       THEN fut' = [fut EXCEPT ![s] = how] /\ UNCHANGED bufs
       ELSE Forget(s)

\* END_STREAM, on the trailers or on the last DATA frame.  An error has no body.
ReadEnd(s, how) ==
    /\ Readable
    /\ asked[s] # Nobody
    /\ Len(bufs[s]) = IF how \in {"fine", "refused"} THEN AnswerFrames ELSE 0
    /\ asked' = [asked EXCEPT ![s] = Nobody]
    /\ Finalize(s, how)
    /\ UNCHANGED <<linkVars, window, opened, callVars, shakeVars, noteVars,
                   orderly>>

\* A DATA frame of the notification stream is put into the queue: the answer to
\* the i-th open message (those before it will have none), ...
ReadAck(i) ==
    /\ Readable /\ window > 0 /\ room > 0
    /\ owed' = SubSeq(owed, i + 1, Len(owed))
    /\ room' = room - 1 /\ window' = window - 1
    \* an answer on the stream of an earlier handshake is buffered and forgotten
    /\ queue' = IF owed[i].stream = notif THEN Append(queue, owed[i]) ELSE queue
    /\ orderly' = (orderly /\ i = 1)
    /\ UNCHANGED <<linkVars, streamVars, callVars, shakeVars>>

\* ... or an event, or the rest of a message that did not fit one frame.
ReadEvent ==
    /\ Readable /\ window > 0 /\ room > 0
    /\ room' = room - 1 /\ window' = window - 1
    /\ queue' = Append(queue, Unasked)
    /\ orderly' = FALSE
    /\ UNCHANGED <<linkVars, streamVars, callVars, shakeVars, owed>>

\* Nobody reads what the server may still send.
Deaf ==
    /\ reader # "ended"
    /\ reader' = "ended"
    /\ window' = 0 /\ room' = 0 /\ owed' = <<>>
    /\ asked' = [s \in Streams |-> Nobody]
    /\ UNCHANGED <<link, closed, opened, callVars, shakeVars, queue, orderly>>

\* Seeded fault: the pending calls are forgotten without being told.
ReaderEndsSilently ==
    /\ Deaf
    /\ pending' = {}
    /\ UNCHANGED <<fut, bufs>>

\* GOAWAY, the end of the input, an error or the cancellation: the finally
\* branch fails what is pending, but not the handshake's wait.
ReaderEnds ==
    /\ Deaf
    /\ pending' = {}
    /\ fut' = [s \in Streams |->
                  CASE fut[s] = "unset"     -> "failed"
                    [] fut[s] = "cancelled" -> "none"
                    [] OTHER                -> fut[s]]
    /\ bufs' = [s \in Streams |-> IF fut[s] \in Answers THEN bufs[s] ELSE <<>>]

LinkLost ==
    /\ link # "lost"
    /\ link' = "lost"
    /\ UNCHANGED <<reader, closed, window, streamVars, callVars, shakeVars,
                   noteVars, orderly>>

-----------------------------------------------------------------------------
(* handshake and its keepalive.                                            *)

\* A message is written on the notification stream, and the answer awaited.
Say(s, n, place) ==
    /\ hs' = IF link = "lost" THEN "failed" ELSE place
    /\ owed' = IF Readable THEN Append(owed, [stream |-> s, number |-> n]) ELSE owed

\* The end of handshake(): another keepalive task.
Finish ==
    /\ hs' = "done"
    /\ keepalive' = [keepalive EXCEPT ![round] = "sleeping"]

\* Message 1.  _ensure_client runs the handshake on a new client; an update runs
\* it again on the same client as long as no plant is known.
Hello ==
    /\ hs = "idle" \/ (hs = "done" /\ ~plant)
    /\ round < MaxHandshakes /\ opened < MaxStreams
    /\ round' = round + 1
    /\ opened' = opened + 1
    /\ notif' = opened + 1
    /\ room' = IF Readable THEN StreamWindow ELSE 0
    /\ Say(opened + 1, 1, "hello")
    /\ UNCHANGED <<linkVars, window, pending, fut, asked, bufs, callVars,
                   booted, plant, queue, keepalive, orderly>>

\* Message 2, after the PING and the short sleep.
Subscribe ==
    /\ hs = "ping"
    /\ Say(notif, 2, "subscribe")
    /\ UNCHANGED <<linkVars, window, streamVars, callVars, round, booted, plant,
                   notif, keepalive, room, queue, orderly>>

NextBootCall ==
    /\ OpenStream(Boot)
    /\ hs' = IF link = "lost" THEN "failed" ELSE "boot"

\* What follows a wait for a notification, answered or not.
GoOn ==
    \/ /\ hs = "hello"
       /\ hs' = "ping"
       /\ UNCHANGED <<streamVars, callVars, booted, keepalive>>
    \/ /\ hs = "subscribe"
       /\ NextBootCall
       /\ booted' = 1
       /\ UNCHANGED keepalive
    \/ /\ hs = "subscribe-plant"
       /\ Finish
       /\ UNCHANGED <<streamVars, callVars, booted>>

\* Seeded fault: the first wait looks at the queue without taking from it.
TakeNotePeeking ==
    /\ hs \in Waiting /\ queue # <<>>
    /\ queue' = IF hs = "hello" THEN queue ELSE Tail(queue)
    /\ GoOn
    /\ UNCHANGED <<linkVars, window, round, plant, notif, room, owed, orderly>>

\* The next notification, whatever it is.
TakeNote ==
    /\ hs \in Waiting /\ queue # <<>>
    /\ queue' = Tail(queue)
    /\ GoOn
    /\ UNCHANGED <<linkVars, window, round, plant, notif, room, owed, orderly>>

NoteExpires ==
    /\ hs \in Waiting
    /\ orderly' = FALSE
    /\ GoOn
    /\ UNCHANGED <<linkVars, window, round, plant, notif, noteVars>>

\* A bootstrap call has returned.  After the last, message 3 if there is a plant;
\* but the coordinator ignores the plant that a repeated handshake returns.
BootReturns ==
    /\ hs = "boot"
    /\ \/ /\ booted < BootCalls
          /\ fut[sid[Boot]] \in {"fine", "unread"}
          /\ NextBootCall
          /\ booted' = booted + 1
          /\ UNCHANGED <<plant, keepalive, noteVars>>
       \/ /\ booted = BootCalls
          /\ Resume(Boot) /\ Outcome(sid[Boot]) = "returned"
          /\ UNCHANGED <<booted, room, queue>>
          /\ \/ plant' = (round = 1) /\ Say(notif, 3, "subscribe-plant") /\ UNCHANGED keepalive
             \/ plant' = FALSE /\ Finish /\ UNCHANGED owed
    /\ UNCHANGED <<linkVars, window, round, notif, orderly>>

\* A bootstrap call has failed, and with it the handshake.
BootFails ==
    /\ hs = "boot"
    /\ (Resume(Boot) /\ Outcome(sid[Boot]) # "returned") \/ Expire(Boot)
    /\ hs' = "failed"
    /\ UNCHANGED <<linkVars, window, round, booted, plant, notif, keepalive,
                   noteVars, orderly>>

\* A repeated handshake runs under the 15 s of _run_or_reconnect, which are
\* fewer than those of its waits.
HandshakeExpires ==
    /\ round > 1 /\ hs \in {"ping"} \union Waiting
    /\ hs' = "failed"
    /\ UNCHANGED <<linkVars, window, streamVars, callVars, round, booted, plant, notif,
                   keepalive, noteVars, orderly>>

\* Seeded fault: an error of the write does not end the keepalive.
KeepaliveRetries(h) ==
    /\ keepalive[h] = "sleeping" /\ link = "lost"
    /\ UNCHANGED vars

\* drain() raises in a keepalive task; while it does not, the task changes
\* nothing here: the server does not answer a repeated message.
KeepaliveFails(h) ==
    /\ keepalive[h] = "sleeping" /\ link = "lost"
    /\ keepalive' = [keepalive EXCEPT ![h] = "over"]
    /\ UNCHANGED <<linkVars, window, streamVars, callVars, hs, round, booted,
                   plant, notif, noteVars, orderly>>

-----------------------------------------------------------------------------
\* Seeded fault: the connection is left to its reader, who goes on.
CloseKeepaliveOnly ==
    /\ round > 1 \/ hs \in {"done", "failed"}
    /\ closed' = TRUE
    /\ keepalive' = [h \in Rounds |-> IF keepalive[h] = "sleeping" THEN "over" ELSE keepalive[h]]
    /\ UNCHANGED <<link, reader, window, streamVars, callVars, hs, round, booted,
                   plant, notif, noteVars, orderly>>

\* close(): of the keepalive tasks, the one created last is cancelled.
\* A client is closed by whoever made its first handshake, or once it is shared.
Close ==
    /\ round > 1 \/ hs \in {"done", "failed"}
    /\ closed' = TRUE
    /\ link' = IF link = "up" THEN "closing" ELSE link
    /\ reader' = IF reader = "running" THEN "cancelled" ELSE reader
    /\ keepalive' = [h \in Rounds |->
                        IF keepalive[h] = "sleeping" /\ \A g \in Rounds : g > h => keepalive[g] = "none"
                        THEN "over" ELSE keepalive[h]]
    /\ UNCHANGED <<window, streamVars, callVars, hs, round, booted, plant,
                   notif, noteVars, orderly>>

ReaderStep ==
    \/ \E s \in Streams : ReadData(s) \/ \E how \in Answers : ReadEnd(s, how)
    \/ \E i \in 1 .. Len(owed) : ReadAck(i)
    \/ ReadEvent
    \/ ReaderEnds

HandshakeStep ==
    Subscribe \/ TakeNote \/ NoteExpires \/ BootReturns \/ BootFails \/ HandshakeExpires

Next ==
    \/ \E c \in Calls : Request(c) \/ CallStep(c)
    \/ ReaderStep
    \/ LinkLost
    \/ Hello
    \/ HandshakeStep
    \/ \E h \in Rounds : KeepaliveFails(h)
    \/ Close

Spec == Init /\ [][Next]_vars

\* The event loop runs a task whose await is over, a deadline comes, a cancelled
\* reader and one whose input has ended stop, and a transport that is being
\* closed is lost in the end.  Nothing is assumed of the server.
FairSpec ==
    /\ Spec
    /\ \A c \in Calls : WF_vars(CallStep(c))
    /\ WF_vars(HandshakeStep)
    /\ \A h \in Rounds : WF_vars(KeepaliveFails(h))
    /\ WF_vars((reader = "cancelled" \/ link = "lost") /\ ReaderEnds)
    /\ WF_vars(closed /\ LinkLost)

-----------------------------------------------------------------------------
(* Properties.                                                             *)

\* A call that is about to return has the whole answer to its own request,
\* however the frames of other streams, timeouts and a repeated handshake came
\* in between.  (An error status that could not be decoded returns no payload.)
AnswerIsOwn ==
    \A c \in Calls :
        pc[c] = "awaiting" /\ fut[sid[c]] \in {"fine", "refused"} =>
            bufs[sid[c]] = [i \in 1 .. AnswerFrames |-> <<c, i>>]

\* _pending loses no future that somebody waits for, so that the answer or the
\* end of the read loop finds it; and what leaks are only the calls that timed
\* out or failed to write, until their stream or the connection ends.  Whoever
\* waits after the end of the read loop has therefore called after it.
PendingIsUnresolved ==
    /\ \A s \in Streams : fut[s] = "unset" => s \in pending
    /\ \A s \in pending : fut[s] \in {"unset", "cancelled"}
    /\ \A s \in pending : fut[s] = "cancelled" => asked[s] # Nobody \/ ~Readable

\* Every wait of the handshake takes the answer to its own message, in the first
\* handshake and in a repeated one, until one wait has expired or a notification
\* has come that no message asked for: from then on nothing can be told.
AckIsOwn ==
    orderly /\ hs \in Waiting /\ queue # <<>> =>
        Head(queue) = [stream |-> notif,
                       number |-> CASE hs = "hello" -> 1 [] hs = "subscribe" -> 2 [] OTHER -> 3]

\* A closed client comes to rest: also a keepalive task that close() did not
\* know of, a handshake under way and calls made later end.
Resting ==
    /\ reader = "ended"
    /\ \A h \in Rounds : keepalive[h] # "sleeping"
    /\ hs \in {"done", "failed"}
    /\ \A c \in Calls : pc[c] # "awaiting"

ClosedComesToRest == closed ~> Resting

\* Every call ends, whatever the server and the read loop do.
EveryCallEnds == \A c \in Calls : pc[c] = "awaiting" ~> pc[c] \in Over

\* The client is the connection that the coordinator takes it for: no call is
\* answered before the handshake, after the end of the read loop or after close().
Status ==
    CASE closed                   -> "closed"
      [] ~closed /\ reader # "running" -> "dead"
      [] OTHER -> IF hs = "done" \/ round > 1 THEN "live" ELSE "handshaking"

Phase(c) ==
    CASE pc[c] = "awaiting" -> IF fut[sid[c]] \in Answers THEN "answered" ELSE "waiting"
      [] pc[c] \in {"refused", "raised", "timedout"} -> "failed"
      [] OTHER -> pc[c]

Shared == INSTANCE Connection WITH status <- Status, phase <- [c \in Calls |-> Phase(c)]

ImplementsConnection == Shared!Spec
=============================================================================
