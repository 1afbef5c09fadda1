------------------------------ MODULE PlantReader ------------------------------
(***************************************************************************)
(* api/plant.py: what a GetPlant payload says of the roller shutters, read *)
(* from its bytes.  Names and rooms are left out.                          *)
(***************************************************************************)
EXTENDS Codec

CONSTANTS
    StateFields,      \* _STATE_FIELD_SET, which has 1, 12 and 13
    Marker,           \* SHUTTER_TYPE_MARKER
    IdLength,         \* 36
    Top               \* 100

\* fields.get(f, [None])[0], if it is a number or if it is bytes.
First(fields, f, wire) ==
    LET here == {i \in DOMAIN fields : fields[i].field = f}
        first == {i \in here : \A j \in here : i <= j}
    IN  {fields[i] : i \in {j \in first : fields[j].wire = wire}}

NumberIn(fields, f) == {v.number : v \in First(fields, f, 0)}
BytesIn(fields, f)  == {v.bytes : v \in First(fields, f, 2)}

\* The id in field 1 of a message.
IdIn(fields) == {id \in BytesIn(fields, 1) : Len(id) = IdLength}

-----------------------------------------------------------------------------
(* extract_shutter_states, extract_shutter_positions, extract_shutter_motion. *)

\* The fields are those of a state, with an id.
IsSchema(parsed) ==
    /\ ~parsed.raised
    /\ {parsed.result[i].field : i \in DOMAIN parsed.result} = StateFields
    /\ IdIn(parsed.result) # {}

IsState(v) == v.field = 12 /\ v.wire = 2 /\ IsSchema(ParseFields(v.bytes))

\* The fields of the first plant, in their order.
PlantFields(payload) ==
    LET top  == ParseFields(payload)
        body == IF top.raised THEN {} ELSE BytesIn(top.result, 3)
    IN  IF body = {} THEN <<>>
        ELSE LET plant == ParseFields(CHOOSE b \in body : TRUE)
             IN  IF plant.raised THEN <<>> ELSE plant.result

\* Those of the fields that are states, under their places.
StatesOf(fields) == [i \in {j \in DOMAIN fields : IsState(fields[j])} |-> fields[i]]

States(payload) == StatesOf(PlantFields(payload))

\* Seeded fault: 0 is taken for no position, as in "if pos".
PositionTruthy(state) ==
    UNION {LET parsed == ParseFields(message)
           IN  IF parsed.raised THEN {} ELSE NumberIn(parsed.result, 1) \intersect 1 .. Top
           : message \in BytesIn(ParseFields(state.bytes).result, 13)}

\* Seeded fault: any number is a position.
PositionUnchecked(state) ==
    UNION {LET parsed == ParseFields(message)
           IN  IF parsed.raised THEN {} ELSE NumberIn(parsed.result, 1)
           : message \in BytesIn(ParseFields(state.bytes).result, 13)}

PositionOf(state) ==
    UNION {LET parsed == ParseFields(message)
           IN  IF parsed.raised THEN {} ELSE NumberIn(parsed.result, 1) \intersect 0 .. Top
           : message \in BytesIn(ParseFields(state.bytes).result, 13)}

MotionOf(state) == NumberIn(ParseFields(state.bytes).result, 12)

\* Of several states with one id the last that has a value wins.
Collect(states, values) ==
    LET id   == [i \in DOMAIN states |->
                    CHOOSE b \in IdIn(ParseFields(states[i].bytes).result) : TRUE]
        with == {i \in DOMAIN states : values[i] # {}}
        last == {i \in with : \A j \in with : id[i] = id[j] => j <= i}
    IN  UNION {{<<id[i], v>> : v \in values[i]} : i \in last}

\* What each extractor makes of the states.
Slices(states)    == Collect(states, [i \in DOMAIN states |-> {states[i].bytes}])
Positions(states) == Collect(states, [i \in DOMAIN states |-> PositionOf(states[i])])
Motion(states)    == Collect(states, [i \in DOMAIN states |-> MotionOf(states[i])])

-----------------------------------------------------------------------------
(* parse_plant.                                                            *)

HasMarker(bytes) ==
    \E i \in 1 .. Len(bytes) + 1 - Len(Marker) : SubSeq(bytes, i, i + Len(Marker) - 1) = Marker

\* _walk: every value with the marker in it is looked at, and walked.
MarkedIn(data) ==
    LET parsed == ParseFields(data)
    IN  IF parsed.raised THEN {}
        ELSE {v \in {parsed.result[i].bytes : i \in DOMAIN parsed.result} : HasMarker(v)}

Marked[data \in Bytes] ==
    LET marked == MarkedIn(data)
    IN  marked \union UNION {Marked[v] : v \in marked}

MessagesIn(fields, f) == {ParseFields(b) : b \in BytesIn(fields, f)}

\* The id of the device, of a shutter.
DeviceIn(types, devices) ==
    LET wanted == \E t \in types : ~t.raised /\ BytesIn(t.result, 1) = {Marker}
    IN  IF (\E t \in types : t.raised) \/ (wanted /\ \E d \in devices : d.raised) THEN Raised
        ELSE Parsed(IF wanted THEN UNION {IdIn(d.result) : d \in devices} ELSE {}, 0)

\* _extract of a room, or of what may be one.
Extract(room) ==
    IF room.raised \/ BytesIn(room.result, 7) = {} THEN Parsed({}, 0)
    ELSE DeviceIn(MessagesIn(room.result, 8), MessagesIn(room.result, 2))

\* Seeded fault: what is looked at is not walked.
TopRooms(payload) == {Extract(ParseFields(v)) : v \in MarkedIn(payload)}

Rooms(payload) == {Extract(ParseFields(v)) : v \in Marked[payload]}

\* The ids of the shutters; an error in the payload, in the plant or in a type or
\* device message is not caught.
ListedIn(top, rooms) ==
    IF \/ top.raised \/ NumberIn(top.result, 3) # {}
       \/ \E plant \in MessagesIn(top.result, 3) : plant.raised \/ NumberIn(plant.result, 2) # {}
       \/ \E room \in rooms : room.raised
    THEN Raised
    ELSE Parsed(UNION {room.result : room \in rooms}, 0)

Listed(payload) == ListedIn(ParseFields(payload), Rooms(payload))
=============================================================================
