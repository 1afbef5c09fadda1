----------------------------- MODULE ShutterEvents -----------------------------
(***************************************************************************)
(* The bytes that the cloud sends and the client takes apart: the          *)
(* notifications that the read loop hands to _dispatch_shutter_event       *)
(* (api/client.py), with the tasks that wait in wait_for_shutter_event for *)
(* one that mentions their shutter, and the answers to GetPlant.           *)
(*                                                                         *)
(* Nobody checks that a message is all there: of a notification that does  *)
(* not fit its DATA frame, and of an answer whose stream ends early, the   *)
(* beginning is taken for the whole.                                       *)
(***************************************************************************)
EXTENDS PlantReader, ShutterWaiters, FiniteSets

CONSTANTS
    Dashes, Dash,        \* of an id: 4 dashes
    WalkLimit,           \* the longest value that is walked: 4096 bytes
    IdOf,                \* the bytes of each shutter's id
    Fields, Numbers,     \* what else the notifications are made of
    Reported             \* what the position field of a shutter may hold

\* A room has a name of one byte, a 7.
ASSUME EventsAssumption ==
    /\ IsFiniteSet(Shutters) /\ IdOf \in [Shutters -> Bytes] /\ Marker \in Bytes
    /\ Fields \subseteq Nat /\ Numbers \subseteq Nat /\ Reported \subseteq Nat
    /\ WalkLimit \in Nat /\ 7 < 2 * Group

VARIABLES
    sent,          \* the message of the cloud: its bytes and what it means
    cut            \* how much of it has been taken for the whole, 0 if it is on its way

eventVars == <<waiterVars, sent, cut>>

-----------------------------------------------------------------------------
(* Notifications: fields, one in another, some of them ids.                *)

Message(bytes, fields, ids) ==
    [kind |-> "notification", bytes |-> bytes, fields |-> fields, ids |-> ids]

Number(field, n) == Message(field_varint(field, n), <<Value(field, n)>>, {})

Text(field, bytes, ids) == Message(field_string(field, bytes), <<Blob(field, bytes)>>, ids)

Join(m, n) == Message(m.bytes \o n.bytes, m.fields \o n.fields, m.ids \union n.ids)

Leaves ==
    {Number(f, n) : f \in Fields, n \in Numbers}
        \union {Text(f, IdOf[x], {x}) : f \in Fields, x \in Shutters}

Inner == {Text(f, Join(m, n).bytes, m.ids \union n.ids) : f \in Fields, m, n \in Leaves}

Notifications == Leaves \union {Join(m, n) : m \in Inner, n \in Leaves}

-----------------------------------------------------------------------------
(* Answers to GetPlant: a plant with a room and a state for each shutter.  *)

RoomOf(x) ==
    field_string(11, field_string(2, field_string(1, IdOf[x]))
                     \o field_string(7, <<7>>)
                     \o field_string(8, field_string(1, Marker)))

StateOf(x, position) ==
    field_string(12, field_string(1, IdOf[x]) \o field_varint(12, 2)
                     \o field_string(13, field_varint(1, position)))

Plant(position) ==
    LET About[S \in SUBSET Shutters] ==
            IF S = {} THEN <<>>
            ELSE LET x == CHOOSE y \in S : TRUE
                 IN  RoomOf(x) \o StateOf(x, position[x]) \o About[S \ {x}]
        body == About[Shutters]
    IN  [kind |-> "plant", bytes |-> field_string(3, body), fields |-> <<Blob(3, body)>>,
         position |-> position]

Plants == {Plant(position) : position \in [Shutters -> Reported]}

-----------------------------------------------------------------------------
(* _dispatch_shutter_event.                                                *)

IsId(bytes) ==
    Len(bytes) = IdLength /\ Len(SelectSeq(bytes, LAMBDA b : b = Dash)) = Dashes

\* Seeded fault: a field is looked at only once.
FirstValue(parsed) ==
    IF parsed.raised \/ parsed.result = <<>> THEN {} ELSE {parsed.result[1].bytes}

\* What cannot be parsed is passed over with all that is in it.
Values(parsed) ==
    IF parsed.raised THEN {} ELSE {parsed.result[i].bytes : i \in DOMAIN parsed.result}

\* Every value that may be a message is walked.
Seen[data \in Bytes] ==
    UNION {IF IsId(bytes) THEN {bytes}
           ELSE IF Len(bytes) \in 2 .. WalkLimit THEN Seen[bytes] ELSE {}
           : bytes \in Values(ParseFields(data))}

\* The shutters whose lists are popped.
Mentioned(data) == {x \in Shutters : IdOf[x] \in Seen[data]}

-----------------------------------------------------------------------------
(* What the code expects of its data.  The theorems that need it say so.   *)

\* The ids of the shutters are distinct and have the length of a UUID's text, and a
\* state has the fields of _STATE_FIELD_SET.
IdsAreIds ==
    /\ StateFields = {1, 12, 13}
    /\ \A x \in Shutters : Len(IdOf[x]) = IdLength
    /\ \A x, y \in Shutters : IdOf[x] = IdOf[y] => x = y

\* The ids look like ids, and nothing else does: a message in a notification is not
\* too long to be walked and does not begin with what is the id of a shutter.
IdsStandOut ==
    /\ 0 < IdLength /\ \A x \in Shutters : IsId(IdOf[x])
    /\ \A x, y \in Shutters : IdOf[x] = IdOf[y] => x = y
    /\ \A m, n \in Leaves :
           LET inner == Join(m, n).bytes
           IN  /\ Len(inner) <= WalkLimit
               /\ IdLength <= Len(inner) =>
                      \A x \in Shutters : SubSeq(inner, 1, IdLength) # IdOf[x]

\* The marker is found in no id, and is no message: the parser raises, as it does on
\* the wire type of the "d" in "device_roller_shutter_50".
MarkerStandsOut ==
    /\ \A x \in Shutters : Len(IdOf[x]) = IdLength /\ ~HasMarker(IdOf[x])
    /\ ParseFields(Marker).raised

-----------------------------------------------------------------------------
Silence == Message(<<>>, <<>>, {})

Received == SubSeq(sent.bytes, 1, cut)

Init ==
    /\ WaiterInit
    /\ sent = Silence /\ cut = 0

\* The cloud sends a message once the last has been read.
Send(m) ==
    /\ cut # 0 \/ sent = Silence
    /\ sent' = m /\ cut' = 0
    /\ UNCHANGED waiterVars

\* Seeded fault: the 5 bytes of gRPC framing are counted into the message.
ReceiveFramed(length) ==
    /\ sent # Silence /\ cut = 0
    /\ cut' = length + 5
    /\ UNCHANGED sent
    /\ IF sent.kind = "notification"
       THEN Dispatch(Mentioned(SubSeq(sent.bytes, 1, length)))
       ELSE UNCHANGED waiterVars

\* A DATA frame of the notification stream, or the end of a call's stream.
Receive(length) ==
    /\ sent # Silence /\ cut = 0
    /\ cut' = length
    /\ UNCHANGED sent
    /\ IF sent.kind = "notification"
       THEN Dispatch(Mentioned(SubSeq(sent.bytes, 1, length)))
       ELSE UNCHANGED waiterVars

WaitersStep ==
    /\ \E w \in Waiters : WaitForEvent(w) \/ WaiterStep(w)
    /\ UNCHANGED <<sent, cut>>

Next ==
    \/ \E m \in Notifications \union Plants : Send(m)
    \/ \E length \in 1 .. Len(sent.bytes) : Receive(length)
    \/ WaitersStep

Spec == Init /\ [][Next]_eventVars

-----------------------------------------------------------------------------
(* Properties.                                                             *)

EventsTypeOK ==
    /\ WaiterTypeOK
    /\ sent \in Notifications \union Plants \union {Silence}
    /\ cut \in 0 .. Len(sent.bytes)

\* A notification wakes exactly the tasks that wait for a shutter it mentions,
\* however deep and beside whatever else; and one that is cut short wakes none
\* that the whole would not have woken.
WokenByMention ==
    [][LET waiting == {w \in Waiters : wait[w] = "waiting"}
           woken   == {w \in waiting : wait'[w] = "woken"}
           meant   == IF sent.kind = "plant" THEN {}
                      ELSE {w \in waiting : ShutterOf[w] \in sent.ids}
       IN  /\ woken \subseteq meant
           /\ cut = 0 /\ cut' # 0 /\ cut' = Len(sent.bytes) => woken = meant]_eventVars

\* What the encoder writes is what the parser reads, whatever the numbers and
\* lengths; and what is read of a message that is cut short, if anything, are the
\* fields of the whole, but for the last one, which may have lost its end.
ParsesWhatIsWritten ==
    LET whole == ParseFields(sent.bytes)
        part  == ParseFields(Received)
    IN  /\ ~whole.raised /\ whole.result = sent.fields
        /\ ~part.raised =>
               \A i \in DOMAIN part.result :
                   LET read  == part.result[i]
                       meant == sent.fields[i]
                   IN  /\ [read EXCEPT !.bytes = <<>>] = [meant EXCEPT !.bytes = <<>>]
                       /\ read.bytes = IF i < Len(part.result) THEN meant.bytes
                                       ELSE SubSeq(meant.bytes, 1, Len(read.bytes))

\* The positions that the cloud reported and that are in range.
Meant == {<<IdOf[x], sent.position[x]>> : x \in {y \in Shutters : sent.position[y] <= Top}}

\* No shutter is read in a position that it was not reported in, also where the
\* plant, a state or its position message was cut short.
PositionsAreReported ==
    sent.kind = "plant" /\ cut # 0 => Positions(States(Received)) \subseteq Meant

\* Of a whole plant the extractors miss nothing: every position in range, 0 among
\* them, and the motion and the slice of every shutter.
ReadsWholePlant ==
    sent.kind = "plant" /\ cut = Len(sent.bytes) =>
        /\ Positions(States(Received)) = Meant
        /\ Motion(States(Received)) = {<<IdOf[x], 2>> : x \in Shutters}
        /\ {slice[1] : slice \in Slices(States(Received))} = {IdOf[x] : x \in Shutters}

\* parse_plant lists no shutter that there is not, and all of them if the plant is
\* whole.
ListsTheShutters ==
    sent.kind = "plant" /\ cut # 0 =>
        LET found == Listed(Received)
        IN  /\ ~found.raised => found.result \subseteq {IdOf[x] : x \in Shutters}
            /\ cut = Len(sent.bytes) =>
                   ~found.raised /\ found.result = {IdOf[x] : x \in Shutters}
=============================================================================
