---------------------------- MODULE H2ClientProofs ----------------------------
(***************************************************************************)
(* What TLAPS proves of one connection to the cloud, for any number of     *)
(* calls, streams, handshakes and frames.                                  *)
(***************************************************************************)
EXTENDS H2Client, SequenceTheorems, TLAPS

Buffer  == Seq(Callers \X (1 .. AnswerFrames))
Futures == {"none", "unset", "failed", "cancelled"} \union Answers
Places  == {"idle", "ping", "boot", "done", "failed"} \union Waiting

\* TypeOK in two parts: the calls and their streams, and the rest.
StreamTypes ==
    /\ opened \in 0 .. MaxStreams
    /\ pending \subseteq Streams
    /\ fut \in [Streams -> Futures]
    /\ asked \in [Streams -> Callers \union {Nobody}]
    /\ bufs \in [Streams -> Buffer]
    /\ pc \in [Callers -> {"idle", "awaiting"} \union Over]
    /\ sid \in [Callers -> 0 .. MaxStreams]

LinkTypes ==
    /\ link \in {"up", "closing", "lost"}
    /\ reader \in {"running", "cancelled", "ended"}
    /\ closed \in BOOLEAN /\ orderly \in BOOLEAN
    /\ window \in 0 .. ConnectionWindow

NoteTypes ==
    /\ room \in 0 .. StreamWindow
    /\ owed \in Seq(Message)
    /\ queue \in Seq(Message \union {Unasked})

\* A handshake that has been started has a number and a stream.
ShakeTypes ==
    /\ hs \in Places
    /\ round \in 0 .. MaxHandshakes /\ notif \in 0 .. MaxStreams
    /\ hs # "idle" => round \in Rounds /\ notif \in Streams
    /\ booted \in 0 .. BootCalls
    /\ plant \in BOOLEAN
    /\ keepalive \in [Rounds -> {"none", "sleeping", "over"}]

Types == StreamTypes /\ LinkTypes /\ NoteTypes /\ ShakeTypes

LEMMA TypesImplyTypeOK == Types => TypeOK
BY DEF Types, StreamTypes, LinkTypes, NoteTypes, ShakeTypes, TypeOK, Buffer, Futures, Places

-----------------------------------------------------------------------------
(* The types, part by part.                                                *)

LEMMA OpenTypes ==
    ASSUME StreamTypes, NEW c \in Callers, OpenStream(c)
    PROVE  StreamTypes'
<1>1. opened + 1 \in Streams /\ opened + 1 \in 0 .. MaxStreams /\ 0 \in 0 .. MaxStreams
  BY SizeAssumption DEF StreamTypes, OpenStream, Streams
<1> QED
  BY <1>1 DEF StreamTypes, OpenStream, Futures, Over

LEMMA CallTypes ==
    ASSUME StreamTypes, NEW c \in Callers, Resume(c) \/ Expire(c)
    PROVE  StreamTypes'
<1>1. 0 \in 0 .. MaxStreams /\ <<>> \in Buffer
  BY SizeAssumption DEF Buffer
<1>2. Outcome(sid[c]) \in Over
  BY DEF Outcome, Over
<1>3. fut' \in [Streams -> Futures] /\ bufs' \in [Streams -> Buffer]
  BY <1>1 DEF Resume, Expire, Forget, StreamTypes, Futures
<1>4. pc' \in [Callers -> {"idle", "awaiting"} \union Over]
  BY <1>2 DEF Resume, Expire, StreamTypes, Over
<1> QED
  BY <1>1, <1>3, <1>4 DEF Resume, Expire, StreamTypes

LEMMA SayTypes ==
    ASSUME NoteTypes, NEW s \in Streams, NEW n \in 1 .. 3,
           NEW place \in Waiting, Say(s, n, place)
    PROVE  hs' \in Places /\ hs' # "idle" /\ owed' \in Seq(Message)
<1>1. [stream |-> s, number |-> n] \in Message
  BY DEF Message
<1> QED
  BY <1>1 DEF NoteTypes, Say, Places, Waiting

LEMMA FinishTypes ==
    ASSUME ShakeTypes, hs # "idle", Finish
    PROVE  /\ hs' = "done"
           /\ keepalive' \in [Rounds -> {"none", "sleeping", "over"}]
BY DEF ShakeTypes, Finish

LEMMA GoOnTypes ==
    ASSUME StreamTypes, ShakeTypes, GoOn, UNCHANGED <<round, plant, notif>>
    PROVE  StreamTypes' /\ ShakeTypes'
<1>1. CASE hs = "hello"
  BY <1>1 DEF GoOn, StreamTypes, ShakeTypes, Places, streamVars, callVars
<1>2. CASE hs = "subscribe"
  <2>1. OpenStream(Boot) /\ hs' \in {"failed", "boot"} /\ booted' = 1 /\ keepalive' = keepalive
    BY <1>2 DEF GoOn, NextBootCall
  <2>2. StreamTypes'
    BY <2>1, OpenTypes DEF Callers
  <2> QED
    BY <1>2, <2>1, <2>2, SizeAssumption DEF ShakeTypes, Places
<1>3. CASE hs = "subscribe-plant"
  <2>1. Finish /\ UNCHANGED <<streamVars, callVars, booted>>
    BY <1>3 DEF GoOn
  <2> QED
    BY <1>3, <2>1, FinishTypes DEF StreamTypes, ShakeTypes, Places, streamVars, callVars
<1> QED
  BY <1>1, <1>2, <1>3 DEF GoOn

\* The variables of a part that an action leaves alone keep their types.
LEMMA Untouched ==
    /\ StreamTypes /\ UNCHANGED <<streamVars, callVars>> => StreamTypes'
    /\ LinkTypes /\ UNCHANGED <<linkVars, window, orderly>> => LinkTypes'
    /\ NoteTypes /\ UNCHANGED noteVars => NoteTypes'
    /\ ShakeTypes /\ UNCHANGED shakeVars => ShakeTypes'
<1>1. StreamTypes /\ UNCHANGED <<streamVars, callVars>> => StreamTypes'
  BY DEF StreamTypes, streamVars, callVars
<1>2. LinkTypes /\ UNCHANGED <<linkVars, window, orderly>> => LinkTypes'
  BY DEF LinkTypes, linkVars
<1>3. NoteTypes /\ UNCHANGED noteVars => NoteTypes'
  BY DEF NoteTypes, noteVars
<1>4. ShakeTypes /\ UNCHANGED shakeVars => ShakeTypes'
  BY DEF ShakeTypes, shakeVars
<1> QED
  BY <1>1, <1>2, <1>3, <1>4

LEMMA TypesInit == Init => Types
<1> SUFFICES ASSUME Init PROVE Types
  OBVIOUS
<1>1. StreamTypes
  <2>1. <<>> \in Buffer /\ 0 \in 0 .. MaxStreams
    BY SizeAssumption DEF Buffer
  <2> QED
    BY <2>1 DEF Init, StreamTypes, Futures
<1>2. LinkTypes
  <2>1. window \in 0 .. ConnectionWindow
    BY SizeAssumption DEF Init
  <2> QED
    BY <2>1, Zenon DEF Init, LinkTypes
<1>3. NoteTypes
  BY SizeAssumption DEF Init, NoteTypes
<1>4. ShakeTypes
  <2>1. /\ round \in 0 .. MaxHandshakes /\ notif \in 0 .. MaxStreams /\ booted \in 0 .. BootCalls
        /\ hs = "idle" /\ keepalive \in [Rounds -> {"none", "sleeping", "over"}]
    BY SizeAssumption DEF Init
  <2>2. plant \in BOOLEAN
    BY Zenon DEF Init
  <2> QED
    BY <2>1, <2>2 DEF ShakeTypes, Places
<1> QED
  BY <1>1, <1>2, <1>3, <1>4 DEF Types

LEMMA TypesStep == Types /\ [Next]_vars => Types'
<1> SUFFICES ASSUME Types, [Next]_vars
             PROVE  Types'
  OBVIOUS
<1> USE Untouched DEF Types
<1>1. ASSUME NEW c \in Calls, Request(c)
      PROVE  Types'
  <2>1. StreamTypes'
    BY <1>1, OpenTypes DEF Request, Callers
  <2> QED
    BY <1>1, <2>1 DEF Request
<1>2. ASSUME NEW c \in Calls, CallStep(c)
      PROVE  Types'
  <2>1. StreamTypes'
    BY <1>2, CallTypes DEF CallStep, Callers
  <2> QED
    BY <1>2, <2>1 DEF CallStep
<1>3. ASSUME NEW s \in Streams, ReadData(s)
      PROVE  Types'
  <2>1. asked[s] \in Callers /\ bufs[s] \in Buffer
    BY <1>3 DEF ReadData, StreamTypes
  <2>2. Len(bufs[s]) + 1 \in 1 .. AnswerFrames
    BY <1>3, <2>1, SizeAssumption DEF ReadData, Buffer
  <2>3. Append(bufs[s], <<asked[s], Len(bufs[s]) + 1>>) \in Buffer
    BY <2>1, <2>2 DEF Buffer
  <2>4. StreamTypes'
    BY <1>3, <2>3 DEF ReadData, StreamTypes, callVars
  <2>5. LinkTypes'
    BY <1>3, SizeAssumption DEF ReadData, LinkTypes, linkVars
  <2> QED
    BY <1>3, <2>4, <2>5 DEF ReadData
<1>4. ASSUME NEW s \in Streams, NEW how \in Answers, ReadEnd(s, how)
      PROVE  Types'
  <2>1. <<>> \in Buffer
    BY DEF Buffer
  <2>2. fut' \in [Streams -> Futures] /\ bufs' \in [Streams -> Buffer]
    BY <1>4, <2>1 DEF ReadEnd, Finalize, Forget, StreamTypes, Futures
  <2>3. StreamTypes'
    BY <1>4, <2>2 DEF ReadEnd, Finalize, StreamTypes, callVars
  <2> QED
    BY <1>4, <2>3 DEF ReadEnd, linkVars, LinkTypes
<1>5. ASSUME NEW i \in 1 .. Len(owed), ReadAck(i)
      PROVE  Types'
  <2>1. owed[i] \in Message /\ owed' \in Seq(Message)
    BY <1>5 DEF ReadAck, NoteTypes
  <2>2. queue' \in Seq(Message \union {Unasked})
    BY <1>5, <2>1 DEF ReadAck, NoteTypes
  <2>3. NoteTypes'
    BY <1>5, <2>1, <2>2, SizeAssumption DEF ReadAck, NoteTypes
  <2>4. LinkTypes'
    BY <1>5, SizeAssumption DEF ReadAck, LinkTypes, linkVars
  <2> QED
    BY <1>5, <2>3, <2>4 DEF ReadAck
<1>6. CASE ReadEvent
  <2>1. queue' \in Seq(Message \union {Unasked})
    BY <1>6 DEF ReadEvent, NoteTypes
  <2>2. NoteTypes'
    BY <1>6, <2>1, SizeAssumption DEF ReadEvent, NoteTypes
  <2>3. LinkTypes'
    <3>1. window' \in 0 .. ConnectionWindow
      BY <1>6, SizeAssumption DEF ReadEvent, LinkTypes
    <3> QED
      BY <1>6, <3>1, Zenon DEF ReadEvent, LinkTypes, linkVars
  <2> QED
    BY <1>6, <2>2, <2>3 DEF ReadEvent
<1>7. CASE ReaderEnds
  <2>1. fut' \in [Streams -> Futures] /\ bufs' \in [Streams -> Buffer]
    BY <1>7 DEF ReaderEnds, StreamTypes, Futures, Buffer
  <2>2. StreamTypes'
    BY <1>7, <2>1 DEF ReaderEnds, Deaf, StreamTypes, callVars
  <2>3. LinkTypes' /\ NoteTypes'
    BY <1>7, SizeAssumption DEF ReaderEnds, Deaf, LinkTypes, NoteTypes
  <2> QED
    BY <1>7, <2>2, <2>3 DEF ReaderEnds, Deaf
<1>8. CASE LinkLost
  BY <1>8 DEF LinkLost, LinkTypes
<1>9. CASE Hello
  <2>1. /\ opened + 1 \in Streams /\ opened + 1 \in 0 .. MaxStreams
        /\ round + 1 \in Rounds /\ round + 1 \in 0 .. MaxHandshakes
    BY <1>9, SizeAssumption DEF Hello, StreamTypes, ShakeTypes, Streams, Rounds
  <2>2. hs' \in Places /\ hs' # "idle" /\ owed' \in Seq(Message)
    BY <1>9, <2>1, SayTypes DEF Hello, Waiting
  <2>3. StreamTypes'
    BY <1>9, <2>1 DEF Hello, StreamTypes, callVars
  <2>4. NoteTypes'
    BY <1>9, <2>2, SizeAssumption DEF Hello, NoteTypes
  <2>5. ShakeTypes'
    BY <1>9, <2>1, <2>2 DEF Hello, ShakeTypes
  <2> QED
    BY <1>9, <2>3, <2>4, <2>5 DEF Hello
<1>10. CASE Subscribe
  <2>1. hs' \in Places /\ hs' # "idle" /\ owed' \in Seq(Message)
    BY <1>10, SayTypes DEF Subscribe, ShakeTypes, Waiting
  <2>2. NoteTypes' /\ ShakeTypes'
    BY <1>10, <2>1 DEF Subscribe, NoteTypes, ShakeTypes
  <2> QED
    BY <1>10, <2>2 DEF Subscribe
<1>11. CASE TakeNote
  <2>1. StreamTypes' /\ ShakeTypes'
    BY <1>11, GoOnTypes DEF TakeNote
  <2>2. NoteTypes'
    BY <1>11 DEF TakeNote, NoteTypes
  <2> QED
    BY <1>11, <2>1, <2>2 DEF TakeNote
<1>12. CASE NoteExpires
  <2>1. StreamTypes' /\ ShakeTypes'
    BY <1>12, GoOnTypes DEF NoteExpires
  <2> QED
    BY <1>12, <2>1 DEF NoteExpires, LinkTypes, linkVars
<1>13. CASE BootReturns
  <2> USE DEF BootReturns
  <2>1. StreamTypes'
    BY <1>13, OpenTypes, CallTypes DEF NextBootCall, Callers
  <2>2. LinkTypes'
    BY <1>13
  <2>3. CASE booted < BootCalls /\ NextBootCall /\ booted' = booted + 1
             /\ UNCHANGED <<plant, keepalive, noteVars>>
    <3>1. hs' \in {"failed", "boot"}
      BY <2>3 DEF NextBootCall
    <3>2. booted' \in 0 .. BootCalls
      BY <2>3, SizeAssumption DEF ShakeTypes
    <3>3. ShakeTypes'
      BY <1>13, <2>3, <3>1, <3>2 DEF ShakeTypes, Places
    <3> QED
      BY <2>1, <2>2, <2>3, <3>3
  <2>4. CASE plant' = (round = 1) /\ Say(notif, 3, "subscribe-plant")
             /\ UNCHANGED <<booted, room, queue, keepalive>>
    <3>1. hs' \in Places /\ hs' # "idle" /\ owed' \in Seq(Message)
      BY <1>13, <2>4, SayTypes DEF ShakeTypes, Waiting
    <3>2. plant' \in BOOLEAN
      BY Zenon, <2>4
    <3>3. ShakeTypes'
      BY <1>13, <2>4, <3>1, <3>2 DEF ShakeTypes
    <3>4. NoteTypes'
      BY <2>4, <3>1 DEF NoteTypes
    <3> QED
      BY <2>1, <2>2, <3>3, <3>4
  <2>5. CASE plant' = FALSE /\ Finish /\ UNCHANGED <<booted, noteVars>>
    <3>1. hs' = "done" /\ keepalive' \in [Rounds -> {"none", "sleeping", "over"}]
      BY <1>13, <2>5, FinishTypes
    <3>2. plant' \in BOOLEAN
      BY <2>5
    <3>3. ShakeTypes'
      BY <1>13, <2>5, <3>1, <3>2 DEF ShakeTypes, Places
    <3> QED
      BY <2>1, <2>2, <2>5, <3>3
  <2> QED
    BY <1>13, <2>3, <2>4, <2>5 DEF noteVars
<1>14. CASE BootFails
  <2>1. StreamTypes'
    BY <1>14, CallTypes DEF BootFails, Callers
  <2>2. ShakeTypes'
    BY <1>14 DEF BootFails, ShakeTypes, Places
  <2> QED
    BY <1>14, <2>1, <2>2 DEF BootFails
<1>15. CASE HandshakeExpires
  BY <1>15 DEF HandshakeExpires, ShakeTypes, Places, Waiting
<1>16. ASSUME NEW h \in Rounds, KeepaliveFails(h)
       PROVE  Types'
  BY <1>16 DEF KeepaliveFails, ShakeTypes
<1>17. CASE Close
  BY <1>17 DEF Close, LinkTypes, ShakeTypes
<1>18. CASE UNCHANGED vars
  BY <1>18 DEF vars
<1> QED
  BY <1>1, <1>2, <1>3, <1>4, <1>5, <1>6, <1>7, <1>8, <1>9, <1>10, <1>11, <1>12, <1>13,
     <1>14, <1>15, <1>16, <1>17, <1>18
     DEF Next, ReaderStep, HandshakeStep

\* The variables of the client keep their types: every stream and every round of
\* the handshake is a numbered one, and no window is overdrawn.
THEOREM TypeCorrect == Spec => []TypeOK
BY TypesInit, TypesStep, TypesImplyTypeOK, PTL DEF Spec

-----------------------------------------------------------------------------
(* Calls and streams.                                                      *)

\* A stream that is pending can be answered or nobody reads any more, and what
\* the server has been asked is pending.
PendingMeansAsked ==
    /\ \A s \in Streams : fut[s] = "unset" => s \in pending
    /\ \A s \in pending : fut[s] \in {"unset", "cancelled"}
    /\ \A s \in pending : asked[s] # Nobody \/ ~Readable
    /\ \A s \in Streams : asked[s] # Nobody => s \in pending

\* A call has a stream of its own, and its future is still in use.
OwnStream ==
    /\ \A c \in Callers : pc[c] = "awaiting" =>
           /\ sid[c] \in Streams /\ sid[c] <= opened
           /\ fut[sid[c]] \in {"unset", "failed"} \union Answers
           /\ asked[sid[c]] \in {c, Nobody}
    /\ \A c, d \in Callers :
           pc[c] = "awaiting" /\ pc[d] = "awaiting" /\ sid[c] = sid[d] => c = d

\* The buffer of a stream holds the beginning of the answer to its request, and
\* once it is answered all of it.
OwnBuffer ==
    /\ \A s \in Streams : s > opened => bufs[s] = <<>> /\ asked[s] = Nobody
    /\ \A s \in Streams : asked[s] # Nobody =>
           \A i \in 1 .. Len(bufs[s]) : bufs[s][i] = <<asked[s], i>>
    /\ \A c \in Callers : pc[c] = "awaiting" /\ fut[sid[c]] \in {"fine", "refused"} =>
           /\ Len(bufs[sid[c]]) = AnswerFrames
           /\ \A i \in 1 .. AnswerFrames : bufs[sid[c]][i] = <<c, i>>

StreamInv == StreamTypes /\ PendingMeansAsked /\ OwnStream /\ OwnBuffer

LEMMA OpenKeeps ==
    ASSUME StreamInv, NEW c \in Callers, OpenStream(c), UNCHANGED <<link, reader>>
    PROVE  StreamInv'
<1> DEFINE new == opened + 1
<1>1. /\ new \in Streams /\ \A s \in Streams : s <= opened => s # new
      /\ \A s \in Streams : s > new => s > opened
  BY SizeAssumption DEF StreamInv, StreamTypes, OpenStream, Streams
<1>2. c # Nobody
  BY CallerAssumption DEF Callers
<1>3. StreamTypes'
  BY OpenTypes DEF StreamInv
<1>4. asked[new] = Nobody /\ bufs[new] = <<>>
  BY <1>1, SizeAssumption DEF StreamInv, OwnBuffer, StreamTypes, Streams
<1>5. Readable' <=> Readable
  BY DEF Readable
<1>6. PendingMeansAsked'
  BY <1>1, <1>2, <1>4, <1>5 DEF StreamInv, StreamTypes, PendingMeansAsked, OpenStream, Readable
<1>7. OwnStream'
  <2>1. ASSUME NEW d \in Callers, pc'[d] = "awaiting", d # c
        PROVE  pc[d] = "awaiting" /\ sid'[d] = sid[d] /\ sid[d] # new /\ sid[d] \in Streams /\ sid[d] <= opened
    BY <1>1, <2>1 DEF StreamInv, StreamTypes, OwnStream, OpenStream
  <2>2. pc'[c] = "awaiting" => sid'[c] = new
    BY DEF StreamInv, StreamTypes, OpenStream
  <2>3. ASSUME NEW d \in Callers, pc'[d] = "awaiting"
        PROVE  /\ sid'[d] \in Streams /\ sid'[d] <= opened'
               /\ fut'[sid'[d]] \in {"unset", "failed"} \union Answers
               /\ asked'[sid'[d]] \in {d, Nobody}
    <3>1. CASE d = c
      BY <1>1, <1>4, <2>2, <2>3, <3>1 DEF StreamInv, StreamTypes, OpenStream, Streams
    <3>2. CASE d # c
      BY <1>1, <2>1, <2>3, <3>2, SizeAssumption DEF StreamInv, StreamTypes, OwnStream, OpenStream, Streams
    <3> QED
      BY <3>1, <3>2
  <2>4. ASSUME NEW d \in Callers, NEW e \in Callers,
               pc'[d] = "awaiting", pc'[e] = "awaiting", sid'[d] = sid'[e]
        PROVE  d = e
    BY <2>1, <2>2, <2>4 DEF StreamInv, OwnStream
  <2> QED
    BY <2>3, <2>4 DEF OwnStream
<1>8. OwnBuffer'
  <2>1. \A s \in Streams : s > opened' => bufs'[s] = <<>> /\ asked'[s] = Nobody
    BY <1>1, SizeAssumption DEF StreamInv, StreamTypes, OwnBuffer, OpenStream, Streams
  <2>2. \A s \in Streams : asked'[s] # Nobody =>
            \A i \in 1 .. Len(bufs'[s]) : bufs'[s][i] = <<asked'[s], i>>
    <3>1. Len(bufs'[new]) = 0
      BY <1>1, <1>4 DEF OpenStream
    <3>2. \A s \in Streams : s # new => asked'[s] = asked[s]
      BY DEF StreamInv, StreamTypes, OpenStream
    <3> QED
      BY <3>1, <3>2 DEF StreamInv, OwnBuffer, OpenStream
  <2>3. ASSUME NEW d \in Callers, pc'[d] = "awaiting", fut'[sid'[d]] \in {"fine", "refused"}
        PROVE  /\ Len(bufs'[sid'[d]]) = AnswerFrames
               /\ \A i \in 1 .. AnswerFrames : bufs'[sid'[d]][i] = <<d, i>>
    <3>1. d # c
      BY <1>1, <2>3 DEF StreamInv, StreamTypes, OpenStream
    <3>2. pc[d] = "awaiting" /\ sid'[d] = sid[d] /\ fut[sid[d]] = fut'[sid'[d]]
      BY <1>1, <2>3, <3>1 DEF StreamInv, StreamTypes, OwnStream, OpenStream
    <3> QED
      BY <2>3, <3>2 DEF StreamInv, OwnBuffer, OpenStream
  <2> QED
    BY <2>1, <2>2, <2>3 DEF OwnBuffer
<1> QED
  BY <1>3, <1>6, <1>7, <1>8 DEF StreamInv

LEMMA CallKeeps ==
    ASSUME StreamInv, NEW c \in Callers, Resume(c) \/ Expire(c), UNCHANGED <<link, reader>>
    PROVE  StreamInv'
<1> DEFINE own == sid[c]
<1>1. /\ pc[c] = "awaiting" /\ own \in Streams /\ own <= opened
      /\ fut[own] \in {"unset", "failed"} \union Answers
  BY DEF StreamInv, OwnStream, Resume, Expire
<1>2. /\ pc'[c] # "awaiting"
      /\ \A d \in Callers : d # c => pc'[d] = pc[d] /\ sid'[d] = sid[d]
  BY DEF StreamInv, StreamTypes, Resume, Expire, Outcome
<1>3. /\ \A s \in Streams : s # own => fut'[s] = fut[s] /\ bufs'[s] = bufs[s]
      /\ fut'[own] = IF fut[own] = "unset" THEN "cancelled" ELSE "none"
      /\ fut[own] = "unset" => bufs' = bufs
      /\ UNCHANGED <<opened, pending, asked>>
  BY <1>1 DEF StreamInv, StreamTypes, Resume, Expire, Forget, Answers
<1>4. StreamTypes'
  BY CallTypes DEF StreamInv
<1>5. fut[own] # "unset" => own \notin pending /\ asked[own] = Nobody
  BY <1>1 DEF StreamInv, PendingMeansAsked, Answers
<1>6. PendingMeansAsked'
  BY <1>1, <1>3, <1>5 DEF StreamInv, StreamTypes, PendingMeansAsked, Readable
<1>7. ASSUME NEW d \in Callers, pc'[d] = "awaiting"
      PROVE  d # c /\ pc[d] = "awaiting" /\ sid'[d] = sid[d] /\ sid[d] # own /\ sid[d] \in Streams
  BY <1>1, <1>2, <1>7 DEF StreamInv, OwnStream
<1>8. OwnStream'
  BY <1>3, <1>7 DEF StreamInv, OwnStream
<1>9. OwnBuffer'
  <2>1. \A s \in Streams : s > opened' => bufs'[s] = <<>> /\ asked'[s] = Nobody
    BY <1>1, <1>3, SizeAssumption DEF StreamInv, StreamTypes, OwnBuffer, Streams
  <2>2. \A s \in Streams : asked'[s] # Nobody => bufs'[s] = bufs[s] /\ asked'[s] = asked[s]
    BY <1>3, <1>5
  <2>3. ASSUME NEW d \in Callers, pc'[d] = "awaiting", fut'[sid'[d]] \in {"fine", "refused"}
        PROVE  /\ Len(bufs'[sid'[d]]) = AnswerFrames
               /\ \A i \in 1 .. AnswerFrames : bufs'[sid'[d]][i] = <<d, i>>
    <3>1. bufs'[sid'[d]] = bufs[sid[d]] /\ fut'[sid'[d]] = fut[sid[d]] /\ pc[d] = "awaiting"
      BY <1>3, <1>7, <2>3
    <3> QED
      BY <2>3, <3>1 DEF StreamInv, OwnBuffer
  <2> QED
    BY <2>1, <2>2, <2>3 DEF StreamInv, OwnBuffer
<1> QED
  BY <1>4, <1>6, <1>8, <1>9 DEF StreamInv

LEMMA ReadDataKeeps ==
    ASSUME StreamInv, StreamTypes', NEW s \in Streams, ReadData(s)
    PROVE  StreamInv'
<1>1. bufs[s] \in Buffer /\ asked[s] # Nobody /\ s \in pending /\ s <= opened
  BY SizeAssumption DEF StreamInv, StreamTypes, PendingMeansAsked, OwnBuffer, ReadData, Streams
<1>2. UNCHANGED <<opened, pending, fut, asked, pc, sid, link, reader>>
  BY DEF ReadData, callVars, linkVars
<1>3. /\ \A t \in Streams : t # s => bufs'[t] = bufs[t]
      /\ bufs'[s] = Append(bufs[s], <<asked[s], Len(bufs[s]) + 1>>)
  BY DEF ReadData, StreamInv, StreamTypes
<1>4. \A i \in 1 .. Len(bufs'[s]) : bufs'[s][i] = <<asked[s], i>>
  <2>1. \A i \in 1 .. Len(bufs[s]) : bufs[s][i] = <<asked[s], i>>
    BY <1>1 DEF StreamInv, OwnBuffer
  <2>2. /\ Len(bufs'[s]) = Len(bufs[s]) + 1 /\ Len(bufs[s]) \in Nat
        /\ \A i \in 1 .. Len(bufs[s]) : bufs'[s][i] = bufs[s][i]
        /\ bufs'[s][Len(bufs[s]) + 1] = <<asked[s], Len(bufs[s]) + 1>>
    BY <1>1, <1>3 DEF Buffer
  <2> QED
    BY <2>1, <2>2
<1>5. fut[s] \in {"unset", "cancelled"}
  BY <1>1 DEF StreamInv, PendingMeansAsked
<1>6. PendingMeansAsked'
  BY <1>2 DEF StreamInv, PendingMeansAsked, Readable
<1>7. OwnStream'
  BY <1>2 DEF StreamInv, OwnStream
<1>8. OwnBuffer'
  <2>1. \A t \in Streams : t > opened' => bufs'[t] = <<>> /\ asked'[t] = Nobody
    BY <1>1, <1>2, <1>3, SizeAssumption DEF StreamInv, StreamTypes, OwnBuffer, Streams
  <2>2. \A t \in Streams : asked'[t] # Nobody =>
            \A i \in 1 .. Len(bufs'[t]) : bufs'[t][i] = <<asked'[t], i>>
    BY <1>2, <1>3, <1>4 DEF StreamInv, OwnBuffer
  <2>3. ASSUME NEW d \in Callers, pc'[d] = "awaiting", fut'[sid'[d]] \in {"fine", "refused"}
        PROVE  /\ Len(bufs'[sid'[d]]) = AnswerFrames
               /\ \A i \in 1 .. AnswerFrames : bufs'[sid'[d]][i] = <<d, i>>
    <3>1. pc[d] = "awaiting" /\ sid[d] \in Streams /\ sid[d] # s
      BY <1>2, <1>5, <2>3 DEF StreamInv, OwnStream
    <3> QED
      BY <1>2, <1>3, <2>3, <3>1 DEF StreamInv, OwnBuffer
  <2> QED
    BY <2>1, <2>2, <2>3 DEF OwnBuffer
<1> QED
  BY <1>6, <1>7, <1>8 DEF StreamInv

LEMMA ReadEndKeeps ==
    ASSUME StreamInv, StreamTypes', NEW s \in Streams, NEW how \in Answers, ReadEnd(s, how)
    PROVE  StreamInv'
<1>1. asked[s] # Nobody /\ s \in pending /\ fut[s] \in {"unset", "cancelled"} /\ s <= opened
  BY SizeAssumption DEF StreamInv, StreamTypes, PendingMeansAsked, OwnBuffer, ReadEnd, Streams
<1>2. UNCHANGED <<opened, pc, sid, link, reader>> /\ pending' = pending \ {s}
  BY DEF ReadEnd, Finalize, callVars, linkVars
<1>3. /\ \A t \in Streams : t # s => fut'[t] = fut[t] /\ bufs'[t] = bufs[t] /\ asked'[t] = asked[t]
      /\ asked'[s] = Nobody
      /\ fut[s] = "unset" => fut'[s] = how /\ bufs'[s] = bufs[s]
      /\ fut[s] = "cancelled" => fut'[s] = "none"
  BY DEF ReadEnd, Finalize, Forget, StreamInv, StreamTypes
<1>4. fut'[s] # "unset"
  BY <1>1, <1>3 DEF Answers
<1>5. PendingMeansAsked'
  BY <1>2, <1>3, <1>4 DEF StreamInv, StreamTypes, PendingMeansAsked, Readable
<1>6. ASSUME NEW d \in Callers, pc[d] = "awaiting", sid[d] = s
      PROVE  fut[s] = "unset" /\ asked[s] = d
  BY <1>1, <1>6 DEF StreamInv, OwnStream, Answers
<1>7. OwnStream'
  BY <1>2, <1>3, <1>6 DEF StreamInv, OwnStream
<1>8. OwnBuffer'
  <2>1. \A t \in Streams : t > opened' => bufs'[t] = <<>> /\ asked'[t] = Nobody
    BY <1>1, <1>2, <1>3, SizeAssumption DEF StreamInv, StreamTypes, OwnBuffer, Streams
  <2>2. \A t \in Streams : asked'[t] # Nobody => t # s
    BY <1>3
  <2>3. ASSUME NEW d \in Callers, pc'[d] = "awaiting", fut'[sid'[d]] \in {"fine", "refused"}
        PROVE  /\ Len(bufs'[sid'[d]]) = AnswerFrames
               /\ \A i \in 1 .. AnswerFrames : bufs'[sid'[d]][i] = <<d, i>>
    <3>1. CASE sid[d] = s
      <4>1. fut[s] = "unset" /\ asked[s] = d /\ how \in {"fine", "refused"}
        BY <1>2, <1>3, <1>6, <2>3, <3>1
      <4>2. Len(bufs[s]) = AnswerFrames
        BY <4>1 DEF ReadEnd
      <4>3. \A i \in 1 .. Len(bufs[s]) : bufs[s][i] = <<d, i>>
        BY <1>1, <4>1 DEF StreamInv, OwnBuffer
      <4> QED
        BY <1>2, <1>3, <3>1, <4>1, <4>2, <4>3
    <3>2. CASE sid[d] # s
      BY <1>2, <1>3, <2>3, <3>2 DEF StreamInv, OwnStream, OwnBuffer
    <3> QED
      BY <3>1, <3>2
  <2> QED
    BY <1>3, <2>1, <2>2, <2>3 DEF StreamInv, OwnBuffer
<1> QED
  BY <1>5, <1>7, <1>8 DEF StreamInv

LEMMA ReaderEndsKeeps ==
    ASSUME StreamInv, StreamTypes', ReaderEnds
    PROVE  StreamInv'
<1>1. /\ pending' = {} /\ UNCHANGED <<opened, pc, sid>>
      /\ \A s \in Streams : asked'[s] = Nobody
  BY DEF ReaderEnds, Deaf, callVars
<1>2. \A s \in Streams :
          /\ fut'[s] # "unset"
          /\ fut[s] = "unset" => fut'[s] = "failed"
          /\ fut[s] \notin {"unset", "cancelled"} => fut'[s] = fut[s]
          /\ fut[s] \in Answers => bufs'[s] = bufs[s]
          /\ bufs[s] = <<>> => bufs'[s] = <<>>
          /\ fut'[s] \in Answers => fut[s] \in Answers
  BY DEF ReaderEnds, Answers
<1>3. PendingMeansAsked'
  BY <1>1, <1>2 DEF PendingMeansAsked
<1>4. OwnStream'
  BY <1>1, <1>2 DEF StreamInv, OwnStream, Answers
<1>5. OwnBuffer'
  <2>1. \A s \in Streams : s > opened' => bufs'[s] = <<>> /\ asked'[s] = Nobody
    BY <1>1, <1>2 DEF StreamInv, OwnBuffer
  <2>2. ASSUME NEW d \in Callers, pc'[d] = "awaiting", fut'[sid'[d]] \in {"fine", "refused"}
        PROVE  /\ Len(bufs'[sid'[d]]) = AnswerFrames
               /\ \A i \in 1 .. AnswerFrames : bufs'[sid'[d]][i] = <<d, i>>
    <3>1. pc[d] = "awaiting" /\ sid'[d] = sid[d] /\ sid[d] \in Streams
      BY <1>1, <2>2 DEF StreamInv, OwnStream
    <3>2. fut[sid[d]] \in {"fine", "refused"} /\ bufs'[sid[d]] = bufs[sid[d]]
      BY <1>2, <2>2, <3>1 DEF StreamInv, OwnStream, Answers
    <3> QED
      BY <3>1, <3>2 DEF StreamInv, OwnBuffer
  <2> QED
    BY <1>1, <2>1, <2>2 DEF OwnBuffer
<1> QED
  BY <1>3, <1>4, <1>5 DEF StreamInv

\* The rest of the client at most opens a stream that is not a call's, or stops
\* reading.
LEMMA RestKeeps ==
    ASSUME StreamInv, StreamTypes', UNCHANGED <<pending, fut, asked, bufs, pc, sid>>,
           opened' \in {opened, opened + 1}, Readable' => Readable
    PROVE  StreamInv'
<1>1. PendingMeansAsked'
  BY DEF StreamInv, PendingMeansAsked
<1>2. \A s \in Streams : (s <= opened => s <= opened') /\ (s > opened' => s > opened)
  BY SizeAssumption DEF StreamInv, StreamTypes, Streams
<1>3. OwnStream'
  BY <1>2 DEF StreamInv, OwnStream
<1>4. OwnBuffer'
  BY <1>2 DEF StreamInv, OwnBuffer
<1> QED
  BY <1>1, <1>3, <1>4 DEF StreamInv

LEMMA StreamStep == Types /\ StreamInv /\ [Next]_vars => StreamInv'
<1> SUFFICES ASSUME Types, StreamInv, [Next]_vars
             PROVE  StreamInv'
  OBVIOUS
<1>0. StreamTypes'
  BY TypesStep DEF Types
<1> USE DEF linkVars, streamVars, callVars, Readable
<1>1. ASSUME NEW c \in Calls, Request(c)
      PROVE  StreamInv'
  BY <1>1, OpenKeeps DEF Request, Callers
<1>2. ASSUME NEW c \in Calls, CallStep(c)
      PROVE  StreamInv'
  BY <1>2, CallKeeps DEF CallStep, Callers
<1>3. ASSUME NEW s \in Streams, ReadData(s) \/ \E how \in Answers : ReadEnd(s, how)
      PROVE  StreamInv'
  BY <1>0, <1>3, ReadDataKeeps, ReadEndKeeps
<1>4. ASSUME NEW i \in 1 .. Len(owed), ReadAck(i)
      PROVE  StreamInv'
  BY <1>0, <1>4, RestKeeps DEF ReadAck
<1>5. CASE ReadEvent
  BY <1>0, <1>5, RestKeeps DEF ReadEvent
<1>6. CASE ReaderEnds
  BY <1>0, <1>6, ReaderEndsKeeps
<1>7. CASE LinkLost
  BY <1>0, <1>7, RestKeeps DEF LinkLost
<1>8. CASE Hello
  BY <1>0, <1>8, RestKeeps DEF Hello
<1>9. CASE Subscribe
  BY <1>0, <1>9, RestKeeps DEF Subscribe
<1>10. ASSUME GoOn, UNCHANGED linkVars
       PROVE  StreamInv'
  BY <1>0, <1>10, RestKeeps, OpenKeeps DEF GoOn, NextBootCall, Callers
<1>11. CASE TakeNote \/ NoteExpires
  BY <1>10, <1>11 DEF TakeNote, NoteExpires
<1>12. CASE BootReturns
  BY <1>12, OpenKeeps, CallKeeps DEF BootReturns, NextBootCall, Callers
<1>13. CASE BootFails
  BY <1>13, CallKeeps DEF BootFails, Callers
<1>14. CASE HandshakeExpires
  BY <1>0, <1>14, RestKeeps DEF HandshakeExpires
<1>15. ASSUME NEW h \in Rounds, KeepaliveFails(h)
       PROVE  StreamInv'
  BY <1>0, <1>15, RestKeeps DEF KeepaliveFails
<1>16. CASE Close
  BY <1>0, <1>16, RestKeeps DEF Close
<1>17. CASE UNCHANGED vars
  BY <1>0, <1>17, RestKeeps DEF vars
<1> QED
  BY <1>1, <1>2, <1>3, <1>4, <1>5, <1>6, <1>7, <1>8, <1>9, <1>11, <1>12, <1>13, <1>14,
     <1>15, <1>16, <1>17
     DEF Next, ReaderStep, HandshakeStep

LEMMA StreamInit == Init => StreamInv
<1> SUFFICES ASSUME Init PROVE StreamInv
  OBVIOUS
<1>1. StreamTypes
  BY TypesInit DEF Types
<1>2. PendingMeansAsked /\ OwnStream /\ OwnBuffer
  BY DEF Init, PendingMeansAsked, OwnStream, OwnBuffer
<1> QED
  BY <1>1, <1>2 DEF StreamInv

\* _pending holds every future that is waited for, and beyond those only the ones
\* that were given up, until the server ends their stream or the reader stops.
THEOREM NothingForgotten == Spec => []PendingIsUnresolved
<1>1. StreamInv => PendingIsUnresolved
  BY DEF StreamInv, StreamTypes, PendingMeansAsked, PendingIsUnresolved
<1> QED
  BY <1>1, TypesInit, TypesStep, StreamInit, StreamStep, PTL DEF Spec

\* A call that is about to return has the answer to its own request, all of it.
THEOREM AnswersMatch == Spec => []AnswerIsOwn
<1>1. StreamInv => AnswerIsOwn
  <2> SUFFICES ASSUME StreamInv, NEW c \in Calls,
                      pc[c] = "awaiting", fut[sid[c]] \in {"fine", "refused"}
               PROVE  bufs[sid[c]] = [i \in 1 .. AnswerFrames |-> <<c, i>>]
    BY DEF AnswerIsOwn
  <2>1. bufs[sid[c]] \in Buffer
    BY DEF StreamInv, StreamTypes, OwnStream, Callers
  <2>2. Len(bufs[sid[c]]) = AnswerFrames /\ \A i \in 1 .. AnswerFrames : bufs[sid[c]][i] = <<c, i>>
    BY DEF StreamInv, OwnBuffer, Callers
  <2>3. bufs[sid[c]] \in [1 .. AnswerFrames -> Callers \X (1 .. AnswerFrames)]
    BY <2>1, <2>2, LenProperties DEF Buffer
  <2> QED
    BY <2>2, <2>3
<1> QED
  BY <1>1, TypesInit, TypesStep, StreamInit, StreamStep, PTL DEF Spec

-----------------------------------------------------------------------------
(* The handshake.                                                          *)

\* The message whose answer the handshake waits for.
Due == [stream |-> notif,
        number |-> CASE hs = "hello" -> 1 [] hs = "subscribe" -> 2 [] OTHER -> 3]

\* As long as nothing was out of order, at most one answer is on its way or in the
\* queue, and only while it is waited for.
OneAnswer ==
    orderly =>
        /\ hs \in Waiting =>
               \/ queue = <<>> /\ owed \in {<<>>, <<Due>>}
               \/ queue = <<Due>> /\ owed = <<>>
        /\ hs \in {"idle", "ping", "boot", "done"} => queue = <<>> /\ owed = <<>>

\* A message is written when no other answer is outstanding.
LEMMA SayOne ==
    ASSUME NEW s, NEW n, NEW place \in Waiting, Say(s, n, place),
           queue = <<>>, owed = <<>>, queue' = queue, notif' = s,
           n = (CASE place = "hello" -> 1 [] place = "subscribe" -> 2 [] OTHER -> 3)
    PROVE  OneAnswer'
<1>1. owed' \in {<<>>, <<[stream |-> s, number |-> n]>>} /\ hs' \in {"failed", place}
  BY DEF Say
<1>2. hs' # "failed" => Due' = [stream |-> s, number |-> n]
  BY <1>1 DEF Due, Waiting
<1> QED
  BY <1>1, <1>2 DEF OneAnswer, Waiting

\* What leaves the handshake and its messages alone.
LEMMA AckUntouched ==
    OneAnswer /\ UNCHANGED <<hs, notif, queue, owed>> /\ (orderly' => orderly) => OneAnswer'
BY DEF OneAnswer, Due

LEMMA AckStep == Types /\ OneAnswer /\ [Next]_vars => OneAnswer'
<1> SUFFICES ASSUME Types, OneAnswer, [Next]_vars
             PROVE  OneAnswer'
  OBVIOUS
<1> USE DEF shakeVars, noteVars
<1>1. ASSUME NEW c \in Calls, Request(c) \/ CallStep(c)
      PROVE  OneAnswer'
  BY <1>1, AckUntouched DEF Request, CallStep
<1>2. ASSUME NEW s \in Streams, ReadData(s) \/ \E how \in Answers : ReadEnd(s, how)
      PROVE  OneAnswer'
  BY <1>2, AckUntouched DEF ReadData, ReadEnd
<1>3. ASSUME NEW i \in 1 .. Len(owed), ReadAck(i)
      PROVE  OneAnswer'
  <2> SUFFICES ASSUME orderly'
               PROVE  OneAnswer'
    BY DEF OneAnswer
  <2>1. orderly /\ i = 1 /\ UNCHANGED <<hs, notif>>
    BY <1>3 DEF ReadAck
  <2>2. CASE hs \in Waiting
    <3>1. owed = <<Due>> /\ queue = <<>>
      BY <1>3, <2>1, <2>2 DEF OneAnswer
    <3>2. owed' = <<>> /\ queue' = <<Due>>
      BY <1>3, <2>1, <3>1 DEF ReadAck, Due
    <3> QED
      BY <2>1, <2>2, <3>2 DEF OneAnswer, Due, Waiting
  <2>3. CASE hs \notin Waiting
    BY <1>3, <2>1, <2>3 DEF OneAnswer
  <2> QED
    BY <2>2, <2>3
<1>4. CASE ReadEvent \/ NoteExpires
  BY <1>4 DEF ReadEvent, NoteExpires, OneAnswer
<1>5. CASE ReaderEnds
  BY <1>5 DEF ReaderEnds, Deaf, OneAnswer, Due
<1>6. CASE LinkLost \/ Close \/ \E h \in Rounds : KeepaliveFails(h)
  BY <1>6, AckUntouched DEF LinkLost, Close, KeepaliveFails
<1>7. CASE Hello
  <2>1. /\ hs \in {"idle", "done"} /\ Say(opened + 1, 1, "hello")
        /\ notif' = opened + 1 /\ UNCHANGED <<queue, orderly>>
    BY <1>7 DEF Hello
  <2>2. CASE orderly
    BY <2>1, <2>2, SayOne DEF OneAnswer, Waiting
  <2>3. CASE ~orderly
    BY <2>1, <2>3 DEF OneAnswer
  <2> QED
    BY <2>2, <2>3
<1>8. CASE Subscribe
  <2>1. hs = "ping" /\ Say(notif, 2, "subscribe") /\ UNCHANGED <<notif, queue, orderly>>
    BY <1>8 DEF Subscribe
  <2>2. CASE orderly
    BY <2>1, <2>2, SayOne DEF OneAnswer, Waiting
  <2>3. CASE ~orderly
    BY <2>1, <2>3 DEF OneAnswer
  <2> QED
    BY <2>2, <2>3
<1>9. CASE TakeNote
  <2>1. hs \in Waiting /\ queue # <<>> /\ queue' = Tail(queue) /\ UNCHANGED <<owed, orderly>>
    BY <1>9 DEF TakeNote
  <2>2. hs' \in {"ping", "boot", "failed", "done"}
    BY <1>9 DEF TakeNote, GoOn, NextBootCall, Finish
  <2>3. orderly => queue' = <<>> /\ owed' = <<>>
    BY <2>1 DEF OneAnswer
  <2> QED
    BY <2>1, <2>2, <2>3 DEF OneAnswer, Waiting
<1>10. CASE BootReturns
  <2>1. hs = "boot" /\ UNCHANGED <<notif, orderly, queue>>
    BY <1>10 DEF BootReturns
  <2>2. CASE Say(notif, 3, "subscribe-plant")
    <3>1. CASE orderly
      BY <2>1, <2>2, <3>1, SayOne DEF OneAnswer, Waiting
    <3>2. CASE ~orderly
      BY <2>1, <3>2 DEF OneAnswer
    <3> QED
      BY <3>1, <3>2
  <2>3. CASE ~Say(notif, 3, "subscribe-plant")
    <3>1. hs' \in {"boot", "failed", "done"} /\ owed' = owed
      BY <1>10, <2>3 DEF BootReturns, NextBootCall, Finish
    <3> QED
      BY <2>1, <3>1 DEF OneAnswer, Waiting
  <2> QED
    BY <2>2, <2>3
<1>11. CASE BootFails \/ HandshakeExpires
  BY <1>11 DEF BootFails, HandshakeExpires, OneAnswer, Waiting
<1>12. CASE UNCHANGED vars
  BY <1>12, AckUntouched DEF vars
<1> QED
  BY <1>1, <1>2, <1>3, <1>4, <1>5, <1>6, <1>7, <1>8, <1>9, <1>10, <1>11, <1>12
     DEF Next, ReaderStep, HandshakeStep

\* No wait of a handshake takes the answer to another message, until one of them
\* has expired or something has come that nothing had asked for.
THEOREM AcksMatch == Spec => []AckIsOwn
<1>1. Init => OneAnswer
  BY DEF Init, OneAnswer, Waiting
<1>2. OneAnswer => AckIsOwn
  BY DEF OneAnswer, AckIsOwn, Due
<1> QED
  BY <1>1, <1>2, TypesInit, TypesStep, AckStep, PTL DEF Spec

-----------------------------------------------------------------------------
(* The client implements Connection.                                       *)

Established == hs = "done" \/ round > 1

\* A closed client has no reader, and calls are made after the handshake.
ClientInv ==
    /\ closed => reader # "running"
    /\ \A c \in Calls : pc[c] = "awaiting" => Established

Phases == [c \in Calls |-> Phase(c)]

\* What has happened to a client stays: close(), the end of the reader, and the
\* handshake.
Lasting ==
    /\ closed => closed'
    /\ reader # "running" => reader' # "running"
    /\ Established => Established'

LEMMA StatusMoves ==
    ASSUME Lasting, Phases' = Phases
    PROVE  [Shared!Next]_(Shared!vars)
<1>1. \/ Status' = Status
      \/ Status = "handshaking" /\ Status' = "live"
      \/ Status \in {"handshaking", "live"} /\ Status' = "dead"
      \/ Status' = "closed"
  BY DEF Lasting, Status, Established
<1> QED
  BY <1>1 DEF Shared!Next, Shared!vars, Shared!Establish, Shared!Die, Shared!Close, Phases

\* A call whose stream is neither answered nor given up is where it was.
LEMMA PhaseKept ==
    ASSUME NEW c \in Calls, pc'[c] = pc[c], sid'[c] = sid[c],
           pc[c] = "awaiting" => (fut'[sid[c]] \in Answers <=> fut[sid[c]] \in Answers)
    PROVE  Phase(c)' = Phase(c)
BY DEF Phase

LEMMA PhasesKept ==
    ASSUME UNCHANGED <<pc, sid, fut>>
    PROVE  Phases' = Phases
<1>1. \A c \in Calls : Phase(c)' = Phase(c)
  BY PhaseKept
<1> QED
  BY <1>1 DEF Phases

\* The bootstrap calls are not the coordinator's: they leave its calls alone.
LEMMA BootPhases ==
    ASSUME StreamInv, OpenStream(Boot) \/ Resume(Boot) \/ Expire(Boot)
    PROVE  Phases' = Phases
<1>1. ASSUME NEW c \in Calls
      PROVE  Phase(c)' = Phase(c)
  <2>1. c # Boot /\ c \in Callers /\ Boot \in Callers
    BY CallerAssumption DEF Callers
  <2>2. pc'[c] = pc[c] /\ sid'[c] = sid[c]
    BY <2>1 DEF OpenStream, Resume, Expire, StreamInv, StreamTypes
  <2>3. CASE pc[c] = "awaiting" /\ OpenStream(Boot)
    <3>1. sid[c] \in Streams /\ sid[c] # opened + 1
      BY <2>1, <2>3, SizeAssumption DEF StreamInv, StreamTypes, OwnStream, Streams
    <3>2. fut'[sid[c]] = fut[sid[c]]
      BY <2>3, <3>1 DEF OpenStream, StreamInv, StreamTypes
    <3> QED
      BY <2>2, <3>2, PhaseKept
  <2>4. CASE pc[c] = "awaiting" /\ (Resume(Boot) \/ Expire(Boot))
    <3>1. sid[c] \in Streams /\ sid[c] # sid[Boot]
      BY <2>1, <2>4 DEF StreamInv, OwnStream, Resume, Expire
    <3>2. fut'[sid[c]] = fut[sid[c]]
      BY <2>4, <3>1 DEF Resume, Expire, Forget, StreamInv, StreamTypes
    <3> QED
      BY <2>2, <3>2, PhaseKept
  <2> QED
    BY <2>2, <2>3, <2>4, PhaseKept
<1> QED
  BY <1>1 DEF Phases

\* One call goes on, the others are where they were.
LEMMA OnePhase ==
    ASSUME NEW c \in Calls, NEW to, Phase(c)' = to,
           \A d \in Calls : d # c => Phase(d)' = Phase(d)
    PROVE  Phases' = [Phases EXCEPT ![c] = to]
BY DEF Phases

LEMMA RequestRefines ==
    ASSUME StreamInv, NEW c \in Calls, Request(c)
    PROVE  [Shared!Next]_(Shared!vars)
<1>1. c \in Callers /\ OpenStream(c) /\ Established /\ pc[c] = "idle"
  BY DEF Request, Callers, Established
<1>2. opened + 1 \in Streams
  BY <1>1, SizeAssumption DEF OpenStream, StreamInv, StreamTypes, Streams
<1>3. ASSUME NEW d \in Calls, d # c
      PROVE  Phase(d)' = Phase(d)
  <2>1. d \in Callers
    BY DEF Callers
  <2>2. pc'[d] = pc[d] /\ sid'[d] = sid[d]
    BY <1>1, <1>3 DEF OpenStream, StreamInv, StreamTypes
  <2>3. CASE pc[d] = "awaiting"
    <3>1. sid[d] \in Streams /\ sid[d] # opened + 1
      BY <2>1, <2>3, SizeAssumption DEF StreamInv, StreamTypes, OwnStream, Streams
    <3>2. fut'[sid[d]] = fut[sid[d]]
      BY <1>1, <3>1 DEF OpenStream, StreamInv, StreamTypes
    <3> QED
      BY <2>2, <3>2, PhaseKept
  <2> QED
    BY <2>2, <2>3, PhaseKept
<1>4. Status' = Status /\ Status # "handshaking" /\ Phase(c) = "idle"
  BY <1>1 DEF Request, Status, Established, Phase, linkVars, shakeVars
<1>5. Phase(c)' \in {"waiting", "failed"}
  <2>1. \/ pc'[c] = "raised"
        \/ pc'[c] = "awaiting" /\ fut'[sid'[c]] = "unset"
    BY <1>1, <1>2 DEF OpenStream, StreamInv, StreamTypes
  <2> QED
    BY <2>1 DEF Phase, Answers
<1>6. Phases' = [Phases EXCEPT ![c] = Phase(c)'] /\ Phases[c] = "idle"
  BY <1>3, <1>4, OnePhase DEF Phases
<1> QED
  BY <1>4, <1>5, <1>6
     DEF Shared!Next, Shared!Request, Shared!Refuse, Shared!Goto, Phases

LEMMA CallStepRefines ==
    ASSUME StreamInv, NEW c \in Calls, CallStep(c)
    PROVE  [Shared!Next]_(Shared!vars)
<1>1. c \in Callers /\ (Resume(c) \/ Expire(c)) /\ pc[c] = "awaiting"
  BY DEF CallStep, Callers, Resume, Expire
<1>2. sid[c] \in Streams
  BY <1>1 DEF StreamInv, OwnStream
<1>3. ASSUME NEW d \in Calls, d # c
      PROVE  Phase(d)' = Phase(d)
  <2>1. d \in Callers
    BY DEF Callers
  <2>2. pc'[d] = pc[d] /\ sid'[d] = sid[d]
    BY <1>1, <1>3, <2>1 DEF Resume, Expire, StreamInv, StreamTypes
  <2>3. CASE pc[d] = "awaiting"
    <3>1. sid[d] \in Streams /\ sid[d] # sid[c]
      BY <1>1, <1>3, <2>1, <2>3 DEF StreamInv, OwnStream
    <3>2. fut'[sid[d]] = fut[sid[d]]
      BY <1>1, <3>1 DEF Resume, Expire, Forget, StreamInv, StreamTypes
    <3> QED
      BY <2>2, <3>2, PhaseKept
  <2> QED
    BY <2>2, <2>3, PhaseKept
<1>4. Status' = Status
  BY DEF CallStep, Status, linkVars, shakeVars
<1>5. Phase(c) = IF fut[sid[c]] \in Answers THEN "answered" ELSE "waiting"
  BY <1>1 DEF Phase
<1>6. \/ Phase(c) = "answered" /\ Phase(c)' = "returned"
      \/ Phase(c) \in {"waiting", "answered"} /\ Phase(c)' = "failed"
  <2>1. CASE Resume(c)
    <3>1. pc'[c] = Outcome(sid[c]) /\ fut[sid[c]] \in Answers \union {"failed"}
      BY <1>1, <2>1 DEF Resume, StreamInv, StreamTypes
    <3>2. CASE fut[sid[c]] \in {"fine", "unread"}
      BY <1>5, <3>1, <3>2 DEF Outcome, Phase, Answers
    <3>3. CASE fut[sid[c]] \in {"refused", "error"}
      BY <1>5, <3>1, <3>3 DEF Outcome, Phase, Answers
    <3>4. CASE fut[sid[c]] = "failed"
      BY <1>5, <3>1, <3>4 DEF Outcome, Phase, Answers
    <3> QED
      BY <3>1, <3>2, <3>3, <3>4 DEF Answers
  <2>2. CASE Expire(c)
    <3>1. pc'[c] = "timedout"
      BY <1>1, <2>2 DEF Expire, StreamInv, StreamTypes
    <3> QED
      BY <1>5, <3>1 DEF Phase
  <2> QED
    BY <1>1, <2>1, <2>2
<1>7. Phases' = [Phases EXCEPT ![c] = Phase(c)'] /\ Phases[c] = Phase(c)
  BY <1>3, OnePhase DEF Phases
<1> QED
  BY <1>4, <1>6, <1>7
     DEF Shared!Next, Shared!Return, Shared!Fail, Shared!Goto, Phases

LEMMA ReadEndRefines ==
    ASSUME StreamInv, ClientInv, NEW s \in Streams, NEW how \in Answers, ReadEnd(s, how)
    PROVE  [Shared!Next]_(Shared!vars)
<1>1. /\ UNCHANGED <<pc, sid>> /\ Status' = Status
      /\ asked[s] # Nobody /\ reader = "running"
      /\ \A t \in Streams : t # s => fut'[t] = fut[t]
      /\ fut[s] = "unset" => fut'[s] = how
  BY DEF ReadEnd, Finalize, Forget, Readable, Status, linkVars, callVars, shakeVars,
         StreamInv, StreamTypes
<1>2. ASSUME NEW d \in Calls, pc[d] # "awaiting" \/ sid[d] # s
      PROVE  Phase(d)' = Phase(d)
  <2>1. pc[d] = "awaiting" => sid[d] \in Streams
    BY DEF StreamInv, OwnStream, Callers
  <2> QED
    BY <1>1, <1>2, <2>1, PhaseKept
<1>3. CASE \E c \in Calls : pc[c] = "awaiting" /\ sid[c] = s
  <2>1. PICK c \in Calls : pc[c] = "awaiting" /\ sid[c] = s
    BY <1>3
  <2>2. fut[s] = "unset"
    BY <1>1, <2>1 DEF StreamInv, OwnStream, PendingMeansAsked, Callers, Answers
  <2>3. Phase(c) = "waiting" /\ Phase(c)' = "answered"
    BY <1>1, <2>1, <2>2 DEF Phase, Answers
  <2>4. \A d \in Calls : d # c => Phase(d)' = Phase(d)
    BY <1>2, <2>1 DEF StreamInv, OwnStream, Callers
  <2>5. Status = "live"
    BY <1>1, <2>1 DEF ClientInv, Status, Established
  <2>6. Phases' = [Phases EXCEPT ![c] = "answered"] /\ Phases[c] = "waiting"
    BY <2>3, <2>4, OnePhase DEF Phases
  <2> QED
    BY <1>1, <2>5, <2>6 DEF Shared!Next, Shared!Answer, Shared!Goto, Phases
<1>4. CASE ~\E c \in Calls : pc[c] = "awaiting" /\ sid[c] = s
  <2>1. Phases' = Phases
    BY <1>2, <1>4 DEF Phases
  <2> QED
    BY <1>1, <2>1 DEF Shared!vars, Phases
<1> QED
  BY <1>3, <1>4

LEMMA ReaderEndsRefines ==
    ASSUME StreamInv, ReaderEnds
    PROVE  [Shared!Next]_(Shared!vars)
<1>1. /\ UNCHANGED <<pc, sid>>
      /\ \A s \in Streams : fut'[s] \in Answers <=> fut[s] \in Answers
  BY DEF ReaderEnds, Deaf, callVars, Answers
<1>2. ASSUME NEW c \in Calls
      PROVE  Phase(c)' = Phase(c)
  <2>1. pc[c] = "awaiting" => sid[c] \in Streams
    BY DEF StreamInv, OwnStream, Callers
  <2> QED
    BY <1>1, <2>1, PhaseKept
<1>3. Lasting
  BY DEF ReaderEnds, Deaf, Lasting, Established, shakeVars
<1> QED
  BY <1>2, <1>3, StatusMoves DEF Phases

LEMMA StepRefines ==
    ASSUME Types, StreamInv, ClientInv, [Next]_vars
    PROVE  [Shared!Next]_(Shared!vars)
<1> USE DEF linkVars, streamVars, callVars, shakeVars
<1>1. ASSUME NEW c \in Calls, Request(c) \/ CallStep(c)
      PROVE  [Shared!Next]_(Shared!vars)
  BY <1>1, RequestRefines, CallStepRefines
<1>2. ASSUME NEW s \in Streams, NEW how \in Answers, ReadEnd(s, how)
      PROVE  [Shared!Next]_(Shared!vars)
  BY <1>2, ReadEndRefines
<1>3. CASE ReaderEnds
  BY <1>3, ReaderEndsRefines
<1>4. ASSUME UNCHANGED <<closed, reader, hs, round, pc, sid, fut>>
      PROVE  [Shared!Next]_(Shared!vars)
  BY <1>4, PhasesKept, StatusMoves DEF Lasting, Established
<1>5. ASSUME NEW s \in Streams, ReadData(s)
      PROVE  [Shared!Next]_(Shared!vars)
  BY <1>4, <1>5 DEF ReadData
<1>6. ASSUME NEW i \in 1 .. Len(owed), ReadAck(i)
      PROVE  [Shared!Next]_(Shared!vars)
  BY <1>4, <1>6 DEF ReadAck
<1>7. CASE ReadEvent \/ LinkLost \/ UNCHANGED vars \/ \E h \in Rounds : KeepaliveFails(h)
  BY <1>4, <1>7 DEF ReadEvent, LinkLost, KeepaliveFails, vars
<1>8. CASE Hello
  <2>1. Lasting
    BY <1>8, SizeAssumption DEF Hello, Lasting, Established, Types, ShakeTypes, Rounds
  <2> QED
    BY <1>8, <2>1, PhasesKept, StatusMoves DEF Hello
<1>9. CASE Subscribe \/ HandshakeExpires
  BY <1>9, PhasesKept, StatusMoves
     DEF Subscribe, HandshakeExpires, Say, Lasting, Established, Waiting
<1>10. ASSUME GoOn, UNCHANGED <<linkVars, round>>
       PROVE  [Shared!Next]_(Shared!vars)
  <2>1. hs # "done"
    BY <1>10 DEF GoOn
  <2>2. Lasting
    BY <1>10, <2>1 DEF Lasting, Established
  <2>3. Phases' = Phases
    BY <1>10, PhasesKept, BootPhases DEF GoOn, NextBootCall
  <2> QED
    BY <2>2, <2>3, StatusMoves
<1>11. CASE TakeNote \/ NoteExpires
  BY <1>10, <1>11 DEF TakeNote, NoteExpires
<1>12. CASE BootReturns \/ BootFails
  <2>1. Lasting
    BY <1>12 DEF BootReturns, BootFails, Lasting, Established
  <2>2. Phases' = Phases
    BY <1>12, BootPhases DEF BootReturns, BootFails, NextBootCall
  <2> QED
    BY <2>1, <2>2, StatusMoves
<1>13. CASE Close
  BY <1>13, PhasesKept, StatusMoves DEF Close, Lasting, Established
<1> QED
  BY <1>1, <1>2, <1>3, <1>5, <1>6, <1>7, <1>8, <1>9, <1>11, <1>12, <1>13
     DEF Next, ReaderStep, HandshakeStep

LEMMA ClientStep == Types /\ StreamInv /\ ClientInv /\ [Next]_vars => ClientInv'
<1> SUFFICES ASSUME Types, StreamInv, ClientInv, [Next]_vars
             PROVE  ClientInv'
  OBVIOUS
<1> USE DEF linkVars, streamVars, callVars, shakeVars
<1>1. ASSUME NEW c \in Calls, Request(c)
      PROVE  ClientInv'
  BY <1>1 DEF Request, ClientInv, Established
<1>2. ASSUME NEW c \in Calls, CallStep(c)
      PROVE  ClientInv'
  <2>1. c \in Callers /\ (Resume(c) \/ Expire(c))
    BY <1>2 DEF CallStep, Callers
  <2>2. Outcome(sid[c]) # "awaiting"
    BY DEF Outcome
  <2>3. \A d \in Calls : pc'[d] = "awaiting" => pc[d] = "awaiting"
    BY <2>1, <2>2 DEF Resume, Expire, StreamInv, StreamTypes, Callers
  <2> QED
    BY <1>2, <2>3 DEF CallStep, ClientInv, Established
<1>3. ASSUME UNCHANGED pc, closed' => closed \/ reader' # "running",
             reader # "running" => reader' # "running", Established => Established'
      PROVE  ClientInv'
  BY <1>3 DEF ClientInv
<1>4. CASE ReaderStep
  BY <1>3, <1>4 DEF ReaderStep, ReadData, ReadEnd, ReadAck, ReadEvent, ReaderEnds, Deaf, Established
<1>5. CASE LinkLost \/ UNCHANGED vars \/ \E h \in Rounds : KeepaliveFails(h)
  BY <1>3, <1>5 DEF LinkLost, KeepaliveFails, vars, Established
<1>6. CASE Hello
  <2>1. Established => Established'
    BY <1>6, SizeAssumption DEF Hello, Established, Types, ShakeTypes, Rounds
  <2> QED
    BY <1>3, <1>6, <2>1 DEF Hello
<1>7. CASE Close
  BY <1>3, <1>7 DEF Close, Established, Types, LinkTypes
<1>8. CASE Subscribe \/ HandshakeExpires
  BY <1>3, <1>8 DEF Subscribe, HandshakeExpires, Say, Established, Waiting
<1>9. ASSUME UNCHANGED linkVars, Established => Established',
             \A c \in Calls : pc'[c] = pc[c]
      PROVE  ClientInv'
  BY <1>9 DEF ClientInv
<1>10. ASSUME OpenStream(Boot) \/ Resume(Boot) \/ Expire(Boot)
       PROVE  \A c \in Calls : pc'[c] = pc[c]
  BY <1>10, CallerAssumption DEF OpenStream, Resume, Expire, StreamInv, StreamTypes, Callers
<1>11. CASE TakeNote \/ NoteExpires
  <2>1. GoOn /\ UNCHANGED <<linkVars, round>>
    BY <1>11 DEF TakeNote, NoteExpires
  <2>2. \A c \in Calls : pc'[c] = pc[c]
    BY <1>10, <2>1 DEF GoOn, NextBootCall
  <2>3. hs # "done"
    BY <2>1 DEF GoOn
  <2> QED
    BY <1>9, <2>1, <2>2, <2>3 DEF Established
<1>12. CASE BootReturns \/ BootFails
  <2>1. \A c \in Calls : pc'[c] = pc[c]
    BY <1>10, <1>12 DEF BootReturns, BootFails, NextBootCall
  <2> QED
    BY <1>9, <1>12, <2>1 DEF BootReturns, BootFails, Established
<1> QED
  BY <1>1, <1>2, <1>4, <1>5, <1>6, <1>7, <1>8, <1>11, <1>12 DEF Next, HandshakeStep

\* The client is what the coordinator takes it for: it answers nobody before its
\* handshake, after the end of its reader or after close().
THEOREM Refinement == Spec => ImplementsConnection
<1>1. Init => Shared!Init
  BY DEF Init, Shared!Init, Status, Phase, Callers
<1>2. Init => ClientInv
  BY DEF Init, ClientInv, Callers
<1>3. Types /\ StreamInv /\ ClientInv /\ [Next]_vars => [Shared!Next]_(Shared!vars)
  BY StepRefines
<1> QED
  BY <1>1, <1>2, <1>3, TypesInit, TypesStep, StreamInit, StreamStep, ClientStep, PTL
     DEF Spec, ImplementsConnection, Shared!Spec
=============================================================================
