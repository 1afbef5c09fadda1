-------------------------- MODULE ShutterEventsProofs --------------------------
(***************************************************************************)
(* What TLAPS proves of the waiters for shutter events: for any number of  *)
(* tasks and shutters, and whatever a notification is taken to mention;    *)
(* and of the messages that the cloud sends, whole or cut short.           *)
(***************************************************************************)
EXTENDS ShutterEvents, CodecProofs, FiniteSetTheorems

WaitersInv == WaiterTypeOK /\ WaitersListed

-----------------------------------------------------------------------------
\* A notification takes whole lists away, and with them exactly the tasks that it
\* wakes: the rest of the read loop's step does not matter.
LEMMA DispatchKeepsWaiters ==
    ASSUME WaitersInv, NEW mentioned \in SUBSET Shutters, Dispatch(mentioned)
    PROVE  WaitersInv'
<1> USE WaitedShutterAssumption DEF WaitersInv
<1>1. WaiterTypeOK'
  BY DEF WaiterTypeOK, Waits, Dispatch
<1>2. ASSUME NEW w \in Waiters, wait'[w] = "waiting"
      PROVE  w \in listed'[ShutterOf[w]]
  <2>1. wait[w] = "waiting" /\ ~\E x \in mentioned : w \in listed[x]
    BY <1>2 DEF Dispatch, WaiterTypeOK
  <2>2. w \in listed[ShutterOf[w]] /\ ShutterOf[w] \notin mentioned
    BY <2>1 DEF WaitersListed
  <2> QED
    BY <2>2 DEF Dispatch
<1>3. ASSUME NEW x \in Shutters, NEW w \in listed'[x]
      PROVE  ShutterOf[w] = x /\ wait'[w] \in {"waiting", "expired"}
  <2>1. x \notin mentioned /\ w \in listed[x] /\ w \in Waiters
    BY <1>3 DEF Dispatch, WaiterTypeOK
  <2>2. ShutterOf[w] = x /\ wait[w] \in {"waiting", "expired"}
    BY <2>1 DEF WaitersListed
  <2>3. ~\E y \in mentioned : w \in listed[y]
    BY <2>1, <2>2 DEF WaitersListed
  <2> QED
    BY <2>1, <2>2, <2>3 DEF Dispatch, WaiterTypeOK
<1> QED
  BY <1>1, <1>2, <1>3 DEF WaitersListed

\* A task changes its own entry only, under its own shutter only.
LEMMA TaskKeepsWaiters ==
    ASSUME WaitersInv, NEW w \in Waiters, WaitForEvent(w) \/ WaiterStep(w)
    PROVE  WaitersInv'
<1> USE WaitedShutterAssumption DEF WaitersInv, WaiterTypeOK, WaitersListed, Waits
<1>1. CASE WaitForEvent(w)
  BY <1>1 DEF WaitForEvent
<1>2. CASE WaitReturns(w)
  BY <1>2 DEF WaitReturns
<1>3. CASE WaitExpires(w)
  BY <1>3 DEF WaitExpires
<1>4. CASE CleanUp(w)
  BY <1>4 DEF CleanUp
<1> QED
  BY <1>1, <1>2, <1>3, <1>4 DEF WaiterStep

-----------------------------------------------------------------------------
\* No step of the whole disturbs them.
LEMMA WaitersStepKeeps ==
    ASSUME WaitersInv, [Next]_eventVars
    PROVE  WaitersInv'
<1>1. CASE UNCHANGED waiterVars
  BY <1>1 DEF waiterVars, WaitersInv, WaiterTypeOK, WaitersListed
<1>2. ASSUME NEW m, Send(m)
      PROVE  WaitersInv'
  BY <1>1, <1>2 DEF Send
<1>3. ASSUME NEW length, Receive(length)
      PROVE  WaitersInv'
  <2>1. Mentioned(SubSeq(sent.bytes, 1, length)) \in SUBSET Shutters
    BY DEF Mentioned
  <2> QED
    BY <1>1, <1>3, <2>1, DispatchKeepsWaiters DEF Receive
<1>4. CASE WaitersStep
  BY <1>4, TaskKeepsWaiters DEF WaitersStep
<1>5. CASE UNCHANGED eventVars
  BY <1>1, <1>5 DEF eventVars
<1> QED
  BY <1>2, <1>3, <1>4, <1>5 DEF Next

\* Whoever waits for a shutter event is listed where an event will find it, and
\* nobody stays listed after going on: wait_for_shutter_event loses no wake-up
\* and leaks no future.
THEOREM NoLostWakeUp == Spec => []WaitersListed
<1>1. Init => WaitersInv
  BY WaitedShutterAssumption
     DEF Init, WaiterInit, WaitersInv, WaiterTypeOK, WaitersListed, Waits
<1>2. WaitersInv /\ [Next]_eventVars => WaitersInv'
  BY WaitersStepKeeps
<1>3. WaitersInv => WaitersListed
  BY DEF WaitersInv
<1> QED
  BY <1>1, <1>2, <1>3, PTL DEF Spec

-----------------------------------------------------------------------------
\* The messages of the cloud are made of fields.
LEMMA NumberSpelt ==
    ASSUME NEW f \in Nat, NEW n \in Nat
    PROVE  Spells(Number(f, n).bytes, Number(f, n).fields)
<1> DEFINE fld == Value(f, n)
<1>1. fld \in FieldSet
  BY DEF FieldSet
<1>2. Written(fld) = field_varint(f, n)
  BY DEF Written, Value
<1>3. Spells(Written(fld), <<fld>>)
  BY <1>1, FieldSpelt
<1>4. Number(f, n).bytes = field_varint(f, n) /\ Number(f, n).fields = <<fld>>
  BY DEF Number, Message
<1> QED
  BY <1>2, <1>3, <1>4

\* A field of bytes spells its one field.
LEMMA TextSpelt ==
    ASSUME NEW f \in Nat, NEW b \in Bytes
    PROVE  Spells(field_string(f, b), <<Blob(f, b)>>)
<1> DEFINE fld == Blob(f, b)
<1>1. fld \in FieldSet
  BY DEF FieldSet
<1>2. Written(fld) = field_string(f, b)
  BY DEF Written, Blob
<1>3. Spells(Written(fld), <<fld>>)
  BY <1>1, FieldSpelt
<1> QED
  BY <1>2, <1>3

\* What spells fields is bytes, and what it spells are fields.
LEMMA SpeltIs ==
    ASSUME NEW bytes, NEW fields, Spells(bytes, fields)
    PROVE  bytes \in Bytes /\ fields \in Seq(FieldSet)
  BY DEF Spells, Delimited

\* A number and an id spell the fields they are said to have.
LEMMA LeafSpelt ==
    ASSUME NEW m \in Leaves
    PROVE  Spells(m.bytes, m.fields)
<1>1. CASE \E f \in Fields, n \in Numbers : m = Number(f, n)
  <2>1. PICK f \in Fields, n \in Numbers : m = Number(f, n)
    BY <1>1
  <2>2. f \in Nat /\ n \in Nat
    BY EventsAssumption
  <2> QED
    BY <2>1, <2>2, NumberSpelt
<1>2. CASE \E f \in Fields, x \in Shutters : m = Text(f, IdOf[x], {x})
  <2>1. PICK f \in Fields, x \in Shutters : m = Text(f, IdOf[x], {x})
    BY <1>2
  <2>2. f \in Nat /\ IdOf[x] \in Bytes
    BY EventsAssumption
  <2>3. m.bytes = field_string(f, IdOf[x]) /\ m.fields = <<Blob(f, IdOf[x])>>
    BY <2>1 DEF Text, Message
  <2> QED
    BY <2>2, <2>3, TextSpelt
<1> QED
  BY <1>1, <1>2 DEF Leaves

\* So do two messages one after the other, if each does.
LEMMA JoinedSpelt ==
    ASSUME NEW m, NEW n, Spells(m.bytes, m.fields), Spells(n.bytes, n.fields)
    PROVE  Spells(Join(m, n).bytes, Join(m, n).fields)
<1>1. Spells(m.bytes \o n.bytes, m.fields \o n.fields)
  BY JoinSpelt
<1>2. Join(m, n).bytes = m.bytes \o n.bytes /\ Join(m, n).fields = m.fields \o n.fields
  BY DEF Join, Message
<1> QED
  BY <1>1, <1>2

\* So does every notification, whatever is nested in it.
LEMMA NotificationSpelt ==
    ASSUME NEW m \in Notifications
    PROVE  Spells(m.bytes, m.fields)
<1>1. ASSUME NEW i \in Inner
      PROVE  Spells(i.bytes, i.fields)
  <2>1. PICK f \in Fields, a \in Leaves, b \in Leaves :
            i = Text(f, Join(a, b).bytes, a.ids \union b.ids)
    BY DEF Inner
  <2>2. Spells(Join(a, b).bytes, Join(a, b).fields)
    BY LeafSpelt, JoinedSpelt
  <2>3. f \in Nat /\ Join(a, b).bytes \in Bytes
    BY <2>2, SpeltIs, EventsAssumption
  <2>4. /\ i.bytes = field_string(f, Join(a, b).bytes)
        /\ i.fields = <<Blob(f, Join(a, b).bytes)>>
    BY <2>1 DEF Text, Message
  <2> QED
    BY <2>3, <2>4, TextSpelt
<1>2. CASE m \in Leaves
  BY <1>2, LeafSpelt
<1>3. CASE \E i \in Inner, n \in Leaves : m = Join(i, n)
  BY <1>1, <1>3, LeafSpelt, JoinedSpelt
<1> QED
  BY <1>2, <1>3 DEF Notifications

\* What a room is made of: the device with its id, a name and the type.
RoomText(x) ==
    field_string(2, field_string(1, IdOf[x])) \o field_string(7, <<7>>)
        \o field_string(8, field_string(1, Marker))

\* What a state is made of: the id, the motion and the position.
PositionText(n) == field_varint(1, n)

StateText(x, n) ==
    field_string(1, IdOf[x]) \o field_varint(12, 2) \o field_string(13, PositionText(n))

\* The room and the state of a shutter are bytes, ...
LEMMA AboutShutter ==
    ASSUME NEW x \in Shutters, NEW n \in Nat
    PROVE  /\ RoomOf(x) \in Bytes /\ StateOf(x, n) \in Bytes
           /\ RoomText(x) \in Bytes /\ RoomOf(x) = field_string(11, RoomText(x))
           /\ StateText(x, n) \in Bytes /\ StateOf(x, n) = field_string(12, StateText(x, n))
<1>1. \A f \in Nat : \A b \in Bytes : field_string(f, b) \in Bytes
  <2>1. 0 \in Nat
    OBVIOUS
  <2> QED
    BY <2>1, FieldBytes
<1>2. \A f \in Nat : \A k \in Nat : field_varint(f, k) \in Bytes
  <2>1. <<>> \in Bytes
    BY DEF Bytes
  <2> QED
    BY <2>1, FieldBytes
<1>3. \A b, c \in Bytes : b \o c \in Bytes
  BY JoinIs
<1>4. IdOf[x] \in Bytes /\ Marker \in Bytes
  BY EventsAssumption
<1>5. <<7>> \in Bytes
  BY EventsAssumption, CodecAssumption DEF Bytes
<1>6. RoomText(x) \in Bytes
  BY <1>1, <1>3, <1>4, <1>5 DEF RoomText
<1>7. StateText(x, n) \in Bytes
  BY <1>1, <1>2, <1>3, <1>4 DEF StateText, PositionText
<1>8. RoomOf(x) = field_string(11, RoomText(x)) /\ StateOf(x, n) = field_string(12, StateText(x, n))
  BY DEF RoomOf, StateOf, RoomText, StateText, PositionText
<1> QED
  BY <1>1, <1>6, <1>7, <1>8

\* What a plant has of a shutter: a room, and a state in its position.
PartsOf(x, n) == {Blob(11, RoomText(x)), Blob(12, StateText(x, n))}

PlantPart(fld, position) == \E x \in Shutters : fld \in PartsOf(x, position[x])

\* Fields one after the other.
LEMMA Pair ==
    ASSUME NEW a, NEW b
    PROVE  <<a>> \o <<b>> = <<a, b>>
<1> DEFINE S == {a, b}
           s == <<a>> \o <<b>>
           t == <<a, b>>
<1>1. <<a>> \in Seq(S) /\ <<b>> \in Seq(S) /\ t \in Seq(S)
  OBVIOUS
<1>2. s \in Seq(S) /\ Len(s) = 2 /\ Len(t) = 2
  BY <1>1
<1>3. s[1] = a /\ s[2] = b /\ t[1] = a /\ t[2] = b
  BY <1>1
<1>4. \A i \in 1 .. Len(s) : s[i] = t[i]
  <2> HIDE DEF s, t
  <2> QED
    BY <1>2, <1>3
<1> HIDE DEF s, t
<1>5. s = t
  BY <1>1, <1>2, <1>4, SeqEqual
<1> QED
  BY <1>5 DEF s, t

\* One more after two.
LEMMA Triple ==
    ASSUME NEW a, NEW b, NEW c
    PROVE  <<a, b>> \o <<c>> = <<a, b, c>>
<1> DEFINE S == {a, b, c}
           s == <<a, b>> \o <<c>>
           t == <<a, b, c>>
<1>1. <<a, b>> \in Seq(S) /\ <<c>> \in Seq(S) /\ t \in Seq(S)
  OBVIOUS
<1>2. s \in Seq(S) /\ Len(s) = 3 /\ Len(t) = 3
  BY <1>1
<1>3. s[1] = a /\ s[2] = b /\ s[3] = c /\ t[1] = a /\ t[2] = b /\ t[3] = c
  BY <1>1
<1>4. \A i \in 1 .. Len(s) : s[i] = t[i]
  <2> HIDE DEF s, t
  <2> QED
    BY <1>2, <1>3
<1> HIDE DEF s, t
<1>5. s = t
  BY <1>1, <1>2, <1>4, SeqEqual
<1> QED
  BY <1>5 DEF s, t

\* Both are what is told of a shutter.
LEMMA AboutSpelt ==
    ASSUME NEW x \in Shutters, NEW n \in Nat
    PROVE  /\ RoomText(x) \in Bytes /\ StateText(x, n) \in Bytes
           /\ Spells(RoomOf(x) \o StateOf(x, n),
                     <<Blob(11, RoomText(x)), Blob(12, StateText(x, n))>>)
<1>1. /\ RoomText(x) \in Bytes /\ RoomOf(x) = field_string(11, RoomText(x))
      /\ StateText(x, n) \in Bytes /\ StateOf(x, n) = field_string(12, StateText(x, n))
  BY AboutShutter
<1>2. 11 \in Nat /\ 12 \in Nat
  OBVIOUS
<1> DEFINE room == Blob(11, RoomText(x))
           state == Blob(12, StateText(x, n))
<1>3. Spells(RoomOf(x), <<room>>) /\ Spells(StateOf(x, n), <<state>>)
  BY <1>1, <1>2, TextSpelt
<1> HIDE DEF room, state
<1>4. Spells(RoomOf(x) \o StateOf(x, n), <<room>> \o <<state>>)
  BY <1>3, JoinSpelt
<1>5. <<room>> \o <<state>> = <<room, state>>
  BY Pair
<1> QED
  BY <1>1, <1>4, <1>5 DEF room, state

\* The fields of a plant: nothing but rooms and states, and both for every shutter.
Covers(parts, position, S) ==
    /\ \A i \in 1 .. Len(parts) : PlantPart(parts[i], position)
    /\ \A x \in S : \A fld \in PartsOf(x, position[x]) : \E i \in 1 .. Len(parts) : parts[i] = fld

\* One more shutter in front.
LEMMA CoversMore ==
    ASSUME NEW position, NEW x \in Shutters, NEW S, NEW T, S \subseteq T \union {x},
           NEW room, NEW state, PartsOf(x, position[x]) = {room, state},
           room \in FieldSet, state \in FieldSet,
           NEW parts \in Seq(FieldSet), Covers(parts, position, T)
    PROVE  Covers(<<room, state>> \o parts, position, S)
<1> DEFINE all == <<room, state>> \o parts
<1>1. /\ Len(parts) \in Nat /\ Len(all) = Len(parts) + 2
      /\ all[1] = room /\ all[2] = state
      /\ \A i \in 1 .. Len(parts) : all[i + 2] = parts[i]
  OBVIOUS
<1> HIDE DEF all
<1>2. ASSUME NEW i \in 1 .. Len(all)
      PROVE  PlantPart(all[i], position)
  <2>1. CASE i = 1 \/ i = 2
    <3>1. all[i] \in PartsOf(x, position[x])
      BY <1>1, <2>1
    <3> QED
      BY <3>1 DEF PlantPart
  <2>2. CASE i # 1 /\ i # 2
    <3>1. i - 2 \in 1 .. Len(parts) /\ i - 2 + 2 = i
      BY <1>1, <2>2
    <3> QED
      BY <1>1, <3>1 DEF Covers
  <2> QED
    BY <2>1, <2>2
<1>3. ASSUME NEW y \in S, NEW fld \in PartsOf(y, position[y])
      PROVE  \E i \in 1 .. Len(all) : all[i] = fld
  <2>1. CASE y = x
    <3>1. 1 \in 1 .. Len(all) /\ 2 \in 1 .. Len(all)
      BY <1>1
    <3>2. fld = all[1] \/ fld = all[2]
      BY <1>1, <1>3, <2>1
    <3> QED
      BY <3>1, <3>2
  <2>2. CASE y \in T
    <3>1. PICK i \in 1 .. Len(parts) : parts[i] = fld
      BY <1>3, <2>2 DEF Covers
    <3>2. i + 2 \in 1 .. Len(all) /\ all[i + 2] = parts[i]
      BY <1>1
    <3> QED
      BY <3>1, <3>2
  <2> QED
    BY <2>1, <2>2
<1> QED
  BY <1>2, <1>3 DEF Covers, all

\* ... and so is what there is about all shutters.
LEMMA PlantMade ==
    ASSUME NEW position \in [Shutters -> Reported]
    PROVE  /\ Plant(position).kind = "plant" /\ Plant(position).position = position
           /\ \E body, parts :
                  /\ Spells(body, parts) /\ Covers(parts, position, Shutters)
                  /\ Plant(position).bytes = field_string(3, body)
                  /\ Plant(position).fields = <<Blob(3, body)>>
<1>2. IsFiniteSet(Shutters) /\ \A x \in Shutters : position[x] \in Nat
  BY EventsAssumption
<1> DEFINE all == SUBSET Shutters
           some(S) == CHOOSE y \in S : TRUE
           here(x) == RoomOf(x) \o StateOf(x, position[x])
           D == [f \in [all -> Bytes] |->
                   [S \in all |-> IF S = {} THEN <<>>
                                  ELSE here(some(S)) \o f[S \ {some(S)}]]]
           size == [S \in all |-> Cardinality(S)]
<1>3. ASSUME NEW S \in all, S # {}
      PROVE  /\ some(S) \in S /\ here(some(S)) \in Bytes
             /\ S \ {some(S)} \in all /\ size[S \ {some(S)}] < size[S]
  <2>1. some(S) \in S
    BY <1>3
  <2> HIDE DEF some
  <2>2. IsFiniteSet(S)
    BY <1>2, FS_Subset
  <2>3. Cardinality(S) \in Nat /\ Cardinality(S \ {some(S)}) = Cardinality(S) - 1
    BY <2>1, <2>2, FS_CardinalityType, FS_RemoveElement
  <2>4. S \ {some(S)} \in all
    OBVIOUS
  <2>5. size[S \ {some(S)}] < size[S]
    BY <2>3, <2>4
  <2>6. some(S) \in Shutters /\ position[some(S)] \in Nat
    BY <1>2, <2>1
  <2>7. RoomOf(some(S)) \in Bytes /\ StateOf(some(S), position[some(S)]) \in Bytes
    BY <2>6, AboutShutter
  <2>8. here(some(S)) \in Bytes
    BY <2>7, JoinIs
  <2> QED
    BY <2>1, <2>4, <2>5, <2>8
<1>4. <<>> \in Bytes
  BY DEF Bytes
<1>5. D \in [[all -> Bytes] -> [all -> Bytes]]
  <2> SUFFICES ASSUME NEW f \in [all -> Bytes], NEW S \in all
               PROVE  (IF S = {} THEN <<>> ELSE here(some(S)) \o f[S \ {some(S)}]) \in Bytes
    OBVIOUS
  <2>1. CASE S = {}
    BY <1>4, <2>1
  <2>2. CASE S # {}
    <3>1. here(some(S)) \in Bytes /\ S \ {some(S)} \in all
      BY <1>3, <2>2
    <3> HIDE DEF here, some
    <3>2. f[S \ {some(S)}] \in Bytes
      BY <3>1
    <3>3. here(some(S)) \o f[S \ {some(S)}] \in Bytes
      BY <3>1, <3>2, JoinIs
    <3> QED
      BY <2>2, <3>3
  <2> QED
    BY <2>1, <2>2
<1>6. size \in [all -> Nat]
  BY <1>2, FS_Subset, FS_CardinalityType
<1>7. Local(D, all, Bytes, size)
  <2> SUFFICES ASSUME NEW g \in [all -> Bytes], NEW h \in [all -> Bytes], NEW S \in all,
                      \A r \in all : size[r] < size[S] => g[r] = h[r]
               PROVE  D[g][S] = D[h][S]
    BY DEF Local
  <2>1. S = {} \/ g[S \ {some(S)}] = h[S \ {some(S)}]
    <3> HIDE DEF size, some, here
    <3> QED
      BY <1>3
  <2> HIDE DEF here, some
  <2> QED
    BY <2>1
<1>8. PICK f \in [all -> Bytes] : f = D[f]
  <2> HIDE DEF D, size, all
  <2>1. WellDefined(D, all, Bytes, size)
    BY <1>4, <1>5, <1>6, <1>7 DEF WellDefined
  <2> QED
    BY <2>1, Recursion
<1> DEFINE Body(e) ==
    [S \in SUBSET Shutters |->
            IF S = {} THEN <<>>
            ELSE LET x == CHOOSE y \in S : TRUE
                 IN  RoomOf(x) \o StateOf(x, position[x]) \o e[S \ {x}]]
<1>9. f = Body(f)
  BY <1>8, Zenon
<1> DEFINE About == CHOOSE About : About = Body(About)
<1>10. About = Body(About)
  BY <1>9, Zenon
<1>11. /\ Plant(position).bytes = field_string(3, About[Shutters])
       /\ Plant(position).fields = <<Blob(3, About[Shutters])>>
       /\ Plant(position).kind = "plant" /\ Plant(position).position = position
  BY DEF Plant
<1>12. \A S \in all : About[S] = IF S = {} THEN <<>>
                                 ELSE here(some(S)) \o About[S \ {some(S)}]
  <2> HIDE DEF About
  <2> QED
    BY <1>10, Zenon
<1> HIDE DEF About, Body, D
<1> DEFINE Made == {S \in all : \E parts : Spells(About[S], parts) /\ Covers(parts, position, S)}
<1>13. ASSUME NEW S \in all, \A r \in all : size[r] < size[S] => r \in Made
       PROVE  S \in Made
  <2>1. CASE S = {}
    <3>1. About[S] = <<>>
      BY <1>12, <2>1
    <3>2. Covers(<<>>, position, S)
      BY <2>1 DEF Covers
    <3> QED
      BY <3>1, <3>2, NothingSpelt
  <2>2. CASE S # {}
    <3> HIDE DEF here, size
    <3>1. some(S) \in S /\ S \ {some(S)} \in all /\ size[S \ {some(S)}] < size[S]
      BY <1>3, <2>2
    <3> DEFINE x == some(S)
               rest == S \ {x}
    <3>2. PICK parts : Spells(About[rest], parts) /\ Covers(parts, position, rest)
      BY <1>13, <3>1
    <3> HIDE DEF some
    <3>3. x \in Shutters /\ position[x] \in Nat
      BY <1>2, <3>1
    <3>4. /\ RoomText(x) \in Bytes
          /\ Spells(here(x), <<Blob(11, RoomText(x)), Blob(12, StateText(x, position[x]))>>)
      BY <3>3, AboutSpelt DEF here
    <3> DEFINE room == Blob(11, RoomText(x))
               state == Blob(12, StateText(x, position[x]))
               first == <<room, state>>
    <3>5. Spells(here(x) \o About[rest], first \o parts)
      BY <3>2, <3>4, JoinSpelt
    <3>6. About[S] = here(x) \o About[rest]
      BY <1>12, <2>2
    <3>7. Covers(first \o parts, position, S)
      <4>1. PartsOf(x, position[x]) = {room, state} /\ S \subseteq rest \union {x}
        BY DEF PartsOf
      <4>2. StateText(x, position[x]) \in Bytes
        BY <3>3, AboutSpelt
      <4>3. room \in FieldSet /\ state \in FieldSet
        BY <3>4, <4>2 DEF FieldSet
      <4>4. parts \in Seq(FieldSet)
        BY <3>2, SpeltIs
      <4> HIDE DEF room, state, x, rest
      <4> QED
        BY <3>2, <3>3, <4>1, <4>3, <4>4, CoversMore
    <3> HIDE DEF first, x, rest
    <3> QED
      BY <3>5, <3>6, <3>7
  <2> QED
    BY <2>1, <2>2
<1>14. all \subseteq Made
  <2> HIDE DEF all, Made, size
  <2> QED
    BY <1>6, <1>13, MeasureInduction
<1>15. \E parts : Spells(About[Shutters], parts) /\ Covers(parts, position, Shutters)
  BY <1>14
<1> QED
  BY <1>11, <1>15

\* Of a plant there is one field.
LEMMA PlantSpelt ==
    ASSUME NEW m \in Plants
    PROVE  Spells(m.bytes, m.fields)
<1>1. PICK position \in [Shutters -> Reported] : m = Plant(position)
  BY DEF Plants
<1>2. PICK body, parts : /\ Spells(body, parts)
                         /\ m.bytes = field_string(3, body) /\ m.fields = <<Blob(3, body)>>
  BY <1>1, PlantMade
<1>3. body \in Bytes
  BY <1>2, SpeltIs
<1> QED
  BY <1>2, <1>3, TextSpelt

Messages == Notifications \union Plants \union {Silence}

\* So does every message there is.
LEMMA MessageSpelt ==
    ASSUME NEW m \in Messages
    PROVE  Spells(m.bytes, m.fields) /\ m.bytes \in Bytes /\ Len(m.bytes) \in Nat
<1>1. CASE m = Silence
  <2>1. m.bytes = <<>> /\ m.fields = <<>>
    BY <1>1 DEF Silence, Message
  <2> QED
    BY <2>1, NothingSpelt, SpeltIs, ByteIs
<1>2. CASE m \in Notifications \union Plants
  <2>1. Spells(m.bytes, m.fields)
    BY <1>2, NotificationSpelt, PlantSpelt
  <2> QED
    BY <2>1, SpeltIs, ByteIs
<1> QED
  BY <1>1, <1>2 DEF Messages

EventsInv == WaitersInv /\ EventsTypeOK

\* The state keeps its type: above all, no message of the cloud is cut behind its
\* end, and each is made of fields.
THEOREM EventsInvariance == Spec => []EventsInv
<1>1. Init => EventsInv
  <2> SUFFICES ASSUME Init
               PROVE  EventsInv
    OBVIOUS
  <2>1. WaitersInv
    BY WaitedShutterAssumption
       DEF Init, WaiterInit, WaitersInv, WaiterTypeOK, WaitersListed, Waits
  <2>2. sent = Silence /\ cut = 0 /\ sent.bytes = <<>> /\ Len(<<>>) = 0
    BY DEF Init, Silence, Message
  <2>3. cut \in 0 .. Len(sent.bytes)
    BY <2>2
  <2> QED
    BY <2>1, <2>2, <2>3 DEF EventsInv, EventsTypeOK, WaitersInv
<1>2. EventsInv /\ [Next]_eventVars => EventsInv'
  <2> SUFFICES ASSUME EventsInv, [Next]_eventVars
               PROVE  EventsInv'
    OBVIOUS
  <2>1. WaitersInv'
    BY WaitersStepKeeps DEF EventsInv
  <2>2. /\ sent \in Messages /\ cut \in 0 .. Len(sent.bytes)
        /\ Len(sent.bytes) \in Nat
    BY MessageSpelt DEF EventsInv, EventsTypeOK, Messages
  <2>3. sent' \in Messages /\ cut' \in 0 .. Len(sent'.bytes)
    <3>1. ASSUME NEW m \in Notifications \union Plants, Send(m)
          PROVE  sent' \in Messages /\ cut' \in 0 .. Len(sent'.bytes)
      <4>1. m \in Messages
        BY <3>1 DEF Messages
      <4>2. sent' = m /\ cut' = 0 /\ Len(m.bytes) \in Nat
        BY <3>1, <4>1, MessageSpelt DEF Send
      <4> QED
        BY <4>1, <4>2
    <3>2. ASSUME NEW length \in 1 .. Len(sent.bytes), Receive(length)
          PROVE  sent' \in Messages /\ cut' \in 0 .. Len(sent'.bytes)
      BY <2>2, <3>2 DEF Receive
    <3>3. CASE WaitersStep \/ UNCHANGED eventVars
      <4>1. sent' = sent /\ cut' = cut
        BY <3>3 DEF WaitersStep, eventVars
      <4> QED
        BY <2>2, <4>1
    <3> QED
      BY <3>1, <3>2, <3>3 DEF Next
  <2> QED
    BY <2>1, <2>3 DEF EventsInv, EventsTypeOK, WaitersInv, Messages
<1> QED
  BY <1>1, <1>2, PTL DEF Spec

\* The type invariant of the run.
THEOREM EventsTypeCorrect == Spec => []EventsTypeOK
<1>1. EventsInv => EventsTypeOK
  BY DEF EventsInv
<1> QED
  BY <1>1, EventsInvariance, PTL

\* A message is cut into a beginning.
LEMMA CutIs ==
    ASSUME NEW bytes \in Bytes, NEW length \in 0 .. Len(bytes)
    PROVE  /\ Beginning(SubSeq(bytes, 1, length), bytes)
           /\ length = Len(bytes) => SubSeq(bytes, 1, length) = bytes
<1> DEFINE s == SubSeq(bytes, 1, length)
<1>1. /\ Len(bytes) \in Nat /\ length \in 0 .. Len(bytes)
      /\ \A i \in 1 .. length : bytes[i] \in 0 .. 2 * Group - 1
  BY ByteIs
<1>2. /\ s \in Seq(0 .. 2 * Group - 1)
      /\ Len(s) = (IF 1 <= length THEN length - 1 + 1 ELSE 0)
      /\ \A i \in 1 .. length - 1 + 1 : s[i] = bytes[1 + i - 1]
  BY <1>1, SubSeqProperties
<1>3. length = Len(bytes) => s = bytes
  BY <1>1, SubSeqFull DEF Bytes
<1> HIDE DEF s
<1>4. Len(s) = length /\ s \in Bytes
  BY <1>1, <1>2 DEF Bytes
<1>5. \A i \in 1 .. length : s[i] = bytes[i]
  BY <1>1, <1>2
<1>6. Beginning(s, bytes)
  BY <1>1, <1>4, <1>5 DEF Beginning
<1> QED
  BY <1>3, <1>6 DEF s

\* What has arrived is a beginning of what was sent.
LEMMA ReceivedIs ==
    ASSUME EventsInv
    PROVE  /\ Beginning(Received, sent.bytes)
           /\ cut = Len(sent.bytes) => Received = sent.bytes
<1>1. sent.bytes \in Bytes /\ cut \in 0 .. Len(sent.bytes)
  BY MessageSpelt DEF EventsInv, EventsTypeOK, Messages
<1> QED
  BY <1>1, CutIs DEF Received

\* Whatever the numbers, the lengths and the nesting, parse_fields reads of a whole
\* message the fields it was made of, and of one that is cut short, which nobody in
\* the client notices, no field that is not there and none with another number or
\* other bytes, but for the end of the last one.
THEOREM ReadAsWritten == Spec => []ParsesWhatIsWritten
<1>1. EventsInv => ParsesWhatIsWritten
  <2> SUFFICES ASSUME EventsInv
               PROVE  ParsesWhatIsWritten
    OBVIOUS
  <2> DEFINE bytes == sent.bytes
             fields == sent.fields
             whole == ParseFields(bytes)
             part == ParseFields(Received)
  <2>1. /\ Spells(bytes, fields) /\ bytes \in Bytes /\ Len(bytes) \in Nat
        /\ cut \in 0 .. Len(bytes) /\ fields \in Seq(FieldSet)
    BY MessageSpelt, SpeltIs DEF EventsInv, EventsTypeOK, Messages
  <2>2. Beginning(bytes, bytes)
    BY <2>1 DEF Beginning
  <2>3. Beginning(Received, bytes)
    BY ReceivedIs
  <2>4. ~whole.raised /\ whole.result = fields
    BY <2>1, <2>2, MessageReadBack
  <2>5. ~part.raised => PartsFrom(part.result, fields, 1)
    BY <2>1, <2>3, MessageReadBack
  <2>6. part \in FieldLists
    <3>1. Received \in Bytes /\ 1 \in Place
      BY <2>3 DEF Beginning, Place
    <3> QED
      BY <3>1, FieldsFromDefined
  <2> HIDE DEF bytes, fields, whole, part
  <2>7. ASSUME ~part.raised, NEW i \in DOMAIN part.result
        PROVE  /\ [part.result[i] EXCEPT !.bytes = <<>>] = [fields[i] EXCEPT !.bytes = <<>>]
               /\ part.result[i].bytes =
                      IF i < Len(part.result) THEN fields[i].bytes
                      ELSE SubSeq(fields[i].bytes, 1, Len(part.result[i].bytes))
    <3>1. part.result \in Seq(FieldSet)
      BY <2>6, <2>7, OutcomeIs DEF FieldLists
    <3>2. i \in 1 .. Len(part.result) /\ 1 + i - 1 = i
      BY <2>7, <3>1
    <3>3. /\ PartOf(part.result[i], fields[i])
          /\ i < Len(part.result) => part.result[i] = fields[i]
      BY <2>5, <2>7, <3>2 DEF PartsFrom
    <3> QED
      BY <3>3 DEF PartOf
  <2> QED
    BY <2>4, <2>7 DEF ParsesWhatIsWritten, bytes, fields, whole, part
<1> QED
  BY <1>1, EventsInvariance, PTL

-----------------------------------------------------------------------------
(* What the extractors read of a plant.                                    *)

\* The first field with a number is one of the fields.
LEMMA FirstIs ==
    ASSUME NEW fields, NEW f, NEW wire, NEW v \in First(fields, f, wire)
    PROVE  \E i \in DOMAIN fields : v = fields[i] /\ fields[i].field = f /\ fields[i].wire = wire
  BY DEF First

\* Where there is just one it is found.
LEMMA FirstOfOne ==
    ASSUME NEW fields, DOMAIN fields \subseteq Nat, NEW i \in Nat, i \in DOMAIN fields,
           NEW f \in Nat, NEW wire \in Nat,
           fields[i].field = f, fields[i].wire = wire,
           \A j \in DOMAIN fields : fields[j].field = f => j = i
    PROVE  First(fields, f, wire) = {fields[i]}
<1> DEFINE here  == {j \in DOMAIN fields : fields[j].field = f}
           first == {j \in here : \A k \in here : j <= k}
<1>1. here = {i} /\ i <= i
  OBVIOUS
<1>2. first = {i}
  BY <1>1
<1> HIDE DEF here, first
<1>3. First(fields, f, wire) = {fields[k] : k \in {j \in first : fields[j].wire = wire}}
  BY DEF First, here, first
<1> QED
  BY <1>2, <1>3

StateParts(x, n) == <<Blob(1, IdOf[x]), Value(12, 2), Blob(13, PositionText(n))>>

\* A state is made of its three fields, and the position of one.
LEMMA StateSpelt ==
    ASSUME NEW x \in Shutters, NEW n \in Nat
    PROVE  /\ Spells(StateText(x, n), StateParts(x, n))
           /\ Spells(PositionText(n), <<Value(1, n)>>)
<1>1. IdOf[x] \in Bytes /\ 1 \in Nat /\ 2 \in Nat /\ 12 \in Nat /\ 13 \in Nat
  BY EventsAssumption
<1>2. Spells(PositionText(n), <<Value(1, n)>>)
  BY <1>1, NumberSpelt DEF Number, Message, PositionText
<1>3. PositionText(n) \in Bytes
  BY <1>2, SpeltIs
<1> DEFINE id == Blob(1, IdOf[x])
           motion == Value(12, 2)
           position == Blob(13, PositionText(n))
<1>4. /\ Spells(field_string(1, IdOf[x]), <<id>>)
      /\ Spells(field_string(13, PositionText(n)), <<position>>)
  BY <1>1, <1>3, TextSpelt
<1>5. Spells(field_varint(12, 2), <<motion>>)
  BY <1>1, NumberSpelt DEF Number, Message
<1> HIDE DEF id, motion, position
<1>6. Spells(field_string(1, IdOf[x]) \o field_varint(12, 2), <<id>> \o <<motion>>)
  BY <1>4, <1>5, JoinSpelt
<1>7. Spells(field_string(1, IdOf[x]) \o field_varint(12, 2), <<id, motion>>)
  BY <1>6, Pair
<1>8. Spells(StateText(x, n), <<id, motion>> \o <<position>>)
  BY <1>4, <1>7, JoinSpelt DEF StateText
<1>9. Spells(StateText(x, n), <<id, motion, position>>)
  BY <1>8, Triple
<1> QED
  BY <1>2, <1>9 DEF StateParts, id, motion, position

\* What is left of a state has the position that was written or none, and with a
\* position the id that was written.
LEMMA StateRead ==
    ASSUME NEW x \in Shutters, NEW n \in Nat, NEW state,
           Beginning(state.bytes, StateText(x, n)), IsState(state),
           NEW p \in PositionOf(state)
    PROVE  p = n /\ p \in 0 .. Top /\ IdIn(ParseFields(state.bytes).result) = {IdOf[x]}
<1> DEFINE all == ParseFields(state.bytes)
           read == all.result
           parts == StateParts(x, n)
<1>1. Spells(StateText(x, n), parts) /\ Spells(PositionText(n), <<Value(1, n)>>)
  BY StateSpelt
<1>2. ~all.raised /\ IdIn(read) # {}
  BY DEF IsState, IsSchema
<1>3. /\ Len(parts) = 3
      /\ parts[1] = Blob(1, IdOf[x]) /\ parts[2] = Value(12, 2)
      /\ parts[3] = Blob(13, PositionText(n))
  BY DEF StateParts
<1> HIDE DEF parts
<1>4. /\ read \in Seq(FieldSet) /\ Len(read) \in Nat /\ Len(read) <= 3
      /\ \A j \in 1 .. Len(read) :
             /\ read[j].field = parts[j].field
             /\ Beginning(read[j].bytes, parts[j].bytes)
             /\ j < Len(read) => read[j] = parts[j]
  <2>1. /\ read \in Seq(FieldSet) /\ Len(read) \in Nat /\ Len(read) <= Len(parts)
        /\ \A j \in 1 .. Len(read) :
               /\ read[j].field = parts[j].field
               /\ Beginning(read[j].bytes, parts[j].bytes)
               /\ j < Len(read) => read[j] = parts[j]
    BY <1>1, <1>2, PartRead
  <2> HIDE DEF read
  <2> QED
    BY <1>3, <2>1
<1>5. PICK message \in BytesIn(read, 13) :
          /\ ~ParseFields(message).raised
          /\ p \in NumberIn(ParseFields(message).result, 1) \intersect 0 .. Top
  BY DEF PositionOf
<1> HIDE DEF all
<1>6. DOMAIN read = 1 .. Len(read)
  BY <1>4
<1>7. PICK i \in 1 .. Len(read) : message = read[i].bytes /\ read[i].field = 13
  BY <1>5, <1>6, FirstIs DEF BytesIn
<1>8. i = 3 /\ Len(read) = 3
  <2>1. parts[1].field = 1 /\ parts[2].field = 12
    BY <1>3 DEF Blob, Value
  <2> HIDE DEF read
  <2>2. parts[i].field = 13
    BY <1>4, <1>7
  <2>3. i # 1 /\ i # 2
    BY <2>1, <2>2
  <2>4. \A k \in Nat : k <= 3 /\ i \in 1 .. k => i = 3 /\ k = 3
    BY <2>3
  <2>5. i \in 1 .. Len(read) /\ Len(read) \in Nat /\ Len(read) <= 3
    BY <1>4
  <2> QED
    BY <2>4, <2>5
<1>9. Beginning(message, PositionText(n))
  BY <1>3, <1>4, <1>7, <1>8 DEF Blob
<1>10. p = n
  <2> DEFINE found == ParseFields(message).result
             one == <<Value(1, n)>>
  <2>1. Len(one) = 1 /\ one[1] = Value(1, n)
    OBVIOUS
  <2> HIDE DEF one
  <2>2. /\ found \in Seq(FieldSet) /\ Len(found) \in Nat /\ Len(found) <= 1
        /\ \A j \in 1 .. Len(found) : found[j].number = one[j].number
    BY <1>1, <1>5, <1>9, <2>1, PartRead DEF one
  <2>3. p \in NumberIn(found, 1)
    BY <1>5
  <2> HIDE DEF found
  <2>4. PICK j \in DOMAIN found : p = found[j].number
    BY <2>3, FirstIs DEF NumberIn
  <2>5. j = 1 /\ j \in 1 .. Len(found)
    BY <2>2, <2>4
  <2> QED
    BY <2>1, <2>2, <2>4, <2>5 DEF Value
<1>11. IdIn(read) \subseteq {IdOf[x]}
  <2> SUFFICES ASSUME NEW id \in BytesIn(read, 1)
               PROVE  id = IdOf[x]
    BY DEF IdIn
  <2>1. PICK j \in 1 .. Len(read) : id = read[j].bytes /\ read[j].field = 1
    BY <1>6, FirstIs DEF BytesIn
  <2>2. j = 1 /\ read[1] = parts[1]
    BY <1>3, <1>4, <1>8, <2>1 DEF Blob, Value
  <2> QED
    BY <1>3, <2>1, <2>2 DEF Blob
<1> QED
  BY <1>2, <1>5, <1>10, <1>11 DEF all

\* The fields of a plant that is cut short are those of the plant, but for the last,
\* which may have lost the end of its bytes.
LEMMA PlantRead ==
    ASSUME NEW body, NEW parts, Spells(body, parts),
           NEW data, Beginning(data, field_string(3, body)),
           NEW i \in DOMAIN PlantFields(data)
    PROVE  /\ i \in 1 .. Len(parts)
           /\ PlantFields(data)[i].field = parts[i].field
           /\ Beginning(PlantFields(data)[i].bytes, parts[i].bytes)
<1> DEFINE top == ParseFields(data)
           bodies == IF top.raised THEN {} ELSE BytesIn(top.result, 3)
           b == CHOOSE b \in bodies : TRUE
           plant == ParseFields(b)
           one == <<Blob(3, body)>>
<1>1. Spells(field_string(3, body), one)
  BY SpeltIs, TextSpelt
<1>2. DOMAIN <<>> = {}
  OBVIOUS
<1>3. ~top.raised /\ bodies # {} /\ ~plant.raised /\ PlantFields(data) = plant.result
  BY <1>2 DEF PlantFields
<1>4. b \in BytesIn(top.result, 3)
  BY <1>3
<1>5. Len(one) = 1 /\ one[1] = Blob(3, body)
  OBVIOUS
<1> HIDE DEF one
<1>6. /\ top.result \in Seq(FieldSet) /\ Len(top.result) \in Nat /\ Len(top.result) <= 1
      /\ \A j \in 1 .. Len(top.result) : Beginning(top.result[j].bytes, one[j].bytes)
  BY <1>1, <1>3, <1>5, PartRead
<1> HIDE DEF top, b
<1>7. PICK j \in DOMAIN top.result : b = top.result[j].bytes
  BY <1>4, FirstIs DEF BytesIn
<1>8. j = 1 /\ j \in 1 .. Len(top.result)
  BY <1>6, <1>7
<1>9. Beginning(b, body)
  BY <1>5, <1>6, <1>7, <1>8 DEF Blob
<1>10. /\ plant.result \in Seq(FieldSet) /\ Len(plant.result) \in Nat
       /\ Len(plant.result) <= Len(parts) /\ Len(parts) \in Nat
       /\ \A k \in 1 .. Len(plant.result) :
              /\ plant.result[k].field = parts[k].field
              /\ Beginning(plant.result[k].bytes, parts[k].bytes)
  BY <1>3, <1>9, PartRead, SpeltIs
<1> HIDE DEF plant
<1>11. i \in 1 .. Len(plant.result)
  BY <1>3, <1>10
<1> QED
  BY <1>3, <1>10, <1>11

\* Every position that is found is that of a shutter.
LEMMA PositionsRead ==
    ASSUME NEW position \in [Shutters -> Reported], NEW data,
           Beginning(data, Plant(position).bytes),
           NEW found \in Positions(States(data))
    PROVE  \E x \in Shutters : position[x] <= Top /\ found = <<IdOf[x], position[x]>>
<1>1. PICK body, parts :
          /\ Spells(body, parts) /\ Covers(parts, position, Shutters)
          /\ Plant(position).bytes = field_string(3, body)
  BY PlantMade
<1> DEFINE fields == PlantFields(data)
           id(i) == CHOOSE b \in IdIn(ParseFields(fields[i].bytes).result) : TRUE
<1>2. PICK i \in DOMAIN fields :
          /\ IsState(fields[i])
          /\ \E p \in PositionOf(fields[i]) : found = <<id(i), p>>
  <2> DEFINE states == StatesOf(fields)
  <2>1. /\ DOMAIN states \subseteq DOMAIN fields
        /\ \A i \in DOMAIN states : IsState(fields[i]) /\ states[i] = fields[i]
    BY DEF StatesOf
  <2>2. PICK i \in DOMAIN states : \E p \in PositionOf(states[i]) :
            found = <<CHOOSE b \in IdIn(ParseFields(states[i].bytes).result) : TRUE, p>>
    BY DEF Positions, Collect, States
  <2> QED
    BY <2>1, <2>2
<1>3. PICK p \in PositionOf(fields[i]) : found = <<id(i), p>>
  BY <1>2
<1>4. /\ i \in 1 .. Len(parts) /\ fields[i].field = parts[i].field
      /\ Beginning(fields[i].bytes, parts[i].bytes)
  BY <1>1, <1>2, PlantRead
<1>5. fields[i].field = 12
  BY <1>2 DEF IsState
<1> HIDE DEF fields
<1>6. PICK x \in Shutters : parts[i] = Blob(12, StateText(x, position[x]))
  <2>1. PlantPart(parts[i], position) /\ parts[i].field # 11
    BY <1>1, <1>4, <1>5 DEF Covers
  <2> QED
    BY <2>1 DEF PlantPart, PartsOf, Blob
<1>7. Beginning(fields[i].bytes, StateText(x, position[x])) /\ position[x] \in Nat
  <2>1. parts[i].bytes = StateText(x, position[x])
    BY <1>6 DEF Blob
  <2> QED
    BY <1>4, <2>1, EventsAssumption
<1>8. /\ p = position[x] /\ p \in 0 .. Top
      /\ IdIn(ParseFields(fields[i].bytes).result) = {IdOf[x]}
  BY <1>2, <1>3, <1>7, StateRead
<1>9. id(i) = IdOf[x]
  BY <1>8
<1> QED
  BY <1>3, <1>8, <1>9

\* A message says whether it is a plant.
LEMMA KindsApart ==
    ASSUME NEW m \in Messages
    PROVE  IF m \in Plants THEN m.kind = "plant" ELSE m.kind = "notification"
<1>1. \A bytes, fields, ids : Message(bytes, fields, ids).kind = "notification"
  BY DEF Message
<1>2. m \in Plants => m.kind = "plant"
  BY PlantMade DEF Plants
<1>3. m \in Leaves => m.kind = "notification"
  <2>1. /\ \A f, n : Number(f, n).kind = "notification"
        /\ \A f, b, ids : Text(f, b, ids).kind = "notification"
    BY <1>1 DEF Number, Text
  <2>2. m \in Leaves => \/ \E f \in Fields, n \in Numbers : m = Number(f, n)
                        \/ \E f \in Fields, x \in Shutters : m = Text(f, IdOf[x], {x})
    BY DEF Leaves
  <2> QED
    BY <2>1, <2>2
<1>4. (\E i \in Inner, n \in Leaves : m = Join(i, n)) => m.kind = "notification"
  BY <1>1 DEF Join
<1>5. m = Silence => m.kind = "notification"
  BY <1>1 DEF Silence
<1> QED
  BY <1>2, <1>3, <1>4, <1>5 DEF Messages, Notifications

\* Where a plant was sent its bytes are those of its positions.
LEMMA PlantOfSent ==
    ASSUME EventsInv, sent.kind = "plant"
    PROVE  sent.position \in [Shutters -> Reported] /\ sent = Plant(sent.position)
<1>1. sent \in Plants
  BY KindsApart DEF EventsInv, EventsTypeOK, Messages
<1>2. PICK position \in [Shutters -> Reported] : sent = Plant(position)
  BY <1>1 DEF Plants
<1> QED
  BY <1>2, PlantMade

\* Wherever a plant is cut, in a state, in a position message or in a number, no
\* shutter is read in a position that the cloud did not report for it, whatever the
\* ids, the positions and the schema of a state.
THEOREM PositionsAreHonest == Spec => []PositionsAreReported
<1>1. EventsInv => PositionsAreReported
  <2> SUFFICES ASSUME EventsInv, sent.kind = "plant", NEW found \in Positions(States(Received))
               PROVE  found \in Meant
    BY DEF PositionsAreReported
  <2> DEFINE position == sent.position
  <2>1. position \in [Shutters -> Reported] /\ sent.bytes = Plant(position).bytes
    BY PlantOfSent
  <2>2. Beginning(Received, Plant(position).bytes)
    BY <2>1, ReceivedIs
  <2>3. PICK x \in Shutters : position[x] <= Top /\ found = <<IdOf[x], position[x]>>
    BY <2>1, <2>2, PositionsRead
  <2> QED
    BY <2>3 DEF Meant
<1> QED
  BY <1>1, EventsInvariance, PTL

-----------------------------------------------------------------------------
(* Of a whole plant everything is read.                                    *)

\* A whole message is read back.
LEMMA WholeRead ==
    ASSUME NEW bytes, NEW fields, Spells(bytes, fields)
    PROVE  /\ ~ParseFields(bytes).raised /\ ParseFields(bytes).result = fields
           /\ fields \in Seq(FieldSet)
<1>1. bytes \in Bytes /\ Len(bytes) \in Nat /\ fields \in Seq(FieldSet)
  BY SpeltIs, ByteIs
<1>2. Beginning(bytes, bytes)
  BY <1>1 DEF Beginning
<1> QED
  BY <1>1, <1>2, MessageReadBack

\* A whole state is recognised, with its id, its position if it is in range, and its
\* motion.
LEMMA StateWhole ==
    ASSUME IdsAreIds, NEW x \in Shutters, NEW n \in Nat,
           NEW state, state = Blob(12, StateText(x, n))
    PROVE  /\ IsState(state) /\ IdIn(ParseFields(state.bytes).result) = {IdOf[x]}
           /\ PositionOf(state) = {n} \intersect 0 .. Top
           /\ MotionOf(state) = {2}
<1> DEFINE all == ParseFields(state.bytes)
           read == all.result
<1>1. state.bytes = StateText(x, n) /\ state.field = 12 /\ state.wire = 2
  BY DEF Blob
<1>2. ~all.raised /\ read = StateParts(x, n)
  BY <1>1, StateSpelt, WholeRead
<1>3. /\ DOMAIN read = 1 .. 3
      /\ read[1] = Blob(1, IdOf[x]) /\ read[2] = Value(12, 2)
      /\ read[3] = Blob(13, PositionText(n))
  BY <1>2 DEF StateParts
<1> HIDE DEF all
<1>4. /\ read[1].field = 1 /\ read[1].wire = 2 /\ read[1].bytes = IdOf[x]
      /\ read[2].field = 12 /\ read[2].wire = 0 /\ read[2].number = 2
      /\ read[3].field = 13 /\ read[3].wire = 2 /\ read[3].bytes = PositionText(n)
  BY <1>3 DEF Blob, Value
<1>5. /\ First(read, 1, 2) = {read[1]} /\ First(read, 12, 0) = {read[2]}
      /\ First(read, 13, 2) = {read[3]}
  <2> HIDE DEF read
  <2>1. DOMAIN read \subseteq Nat /\ 1 \in DOMAIN read /\ 2 \in DOMAIN read /\ 3 \in DOMAIN read
    BY <1>3
  <2>2. \A j \in DOMAIN read : j = 1 \/ j = 2 \/ j = 3
    BY <1>3
  <2>3. /\ \A j \in DOMAIN read : read[j].field = 1 => j = 1
        /\ \A j \in DOMAIN read : read[j].field = 12 => j = 2
        /\ \A j \in DOMAIN read : read[j].field = 13 => j = 3
    BY <1>4, <2>2
  <2>4. First(read, 1, 2) = {read[1]}
    BY <1>4, <2>1, <2>3, FirstOfOne
  <2>5. First(read, 12, 0) = {read[2]}
    BY <1>4, <2>1, <2>3, FirstOfOne
  <2>6. First(read, 13, 2) = {read[3]}
    BY <1>4, <2>1, <2>3, FirstOfOne
  <2> QED
    BY <2>4, <2>5, <2>6
<1>6. /\ BytesIn(read, 1) = {IdOf[x]} /\ NumberIn(read, 12) = {2}
      /\ BytesIn(read, 13) = {PositionText(n)}
  BY <1>4, <1>5 DEF BytesIn, NumberIn
<1>7. IdIn(read) = {IdOf[x]}
  BY <1>6 DEF IdIn, IdsAreIds
<1>8. {read[i].field : i \in DOMAIN read} = StateFields
  BY <1>3, <1>4 DEF IdsAreIds
<1>9. IsState(state)
  BY <1>1, <1>2, <1>7, <1>8 DEF IsState, IsSchema, all
<1>10. PositionOf(state) = {n} \intersect 0 .. Top
  <2> DEFINE message == PositionText(n)
             parsed == ParseFields(message)
             one == <<Value(1, n)>>
  <2>1. ~parsed.raised /\ parsed.result = one
    BY StateSpelt, WholeRead
  <2>2. DOMAIN one = {1} /\ one[1].field = 1 /\ one[1].wire = 0 /\ one[1].number = n
    BY DEF Value
  <2> HIDE DEF one
  <2>3. First(one, 1, 0) = {one[1]}
    <3>1. DOMAIN one \subseteq Nat /\ 1 \in DOMAIN one /\ \A j \in DOMAIN one : j = 1
      BY <2>2
    <3> QED
      BY <2>2, <3>1, FirstOfOne
  <2>4. NumberIn(parsed.result, 1) = {n}
    BY <2>1, <2>2, <2>3 DEF NumberIn
  <2> HIDE DEF message
  <2>5. BytesIn(ParseFields(state.bytes).result, 13) = {message}
    BY <1>6 DEF message, all
  <2> QED
    BY <2>1, <2>4, <2>5 DEF PositionOf
<1>11. MotionOf(state) = {2}
  BY <1>6 DEF MotionOf, all
<1> QED
  BY <1>7, <1>9, <1>10, <1>11 DEF all

\* What is read of a message of one field of bytes.
LEMMA WrappedRead ==
    ASSUME NEW f \in Nat, NEW b \in Bytes
    PROVE  LET read == ParseFields(field_string(f, b))
           IN  /\ ~read.raised /\ read.result = <<Blob(f, b)>>
               /\ BytesIn(read.result, f) = {b} /\ NumberIn(read.result, f) = {}
               /\ b \in Values(read)
<1> DEFINE read == ParseFields(field_string(f, b))
           one == <<Blob(f, b)>>
<1>1. ~read.raised /\ read.result = one
  BY TextSpelt, WholeRead
<1>2. DOMAIN one = {1} /\ one[1].field = f /\ one[1].wire = 2 /\ one[1].bytes = b
  BY DEF Blob
<1> HIDE DEF one, read
<1>3. First(one, f, 2) = {one[1]}
  <2>1. DOMAIN one \subseteq Nat /\ 1 \in DOMAIN one /\ \A j \in DOMAIN one : j = 1
    BY <1>2
  <2> QED
    BY <1>2, <2>1, FirstOfOne
<1>4. BytesIn(one, f) = {b}
  BY <1>2, <1>3 DEF BytesIn
<1>5. NumberIn(one, f) = {}
  BY <1>2, FirstIs DEF NumberIn
<1>6. b \in Values(read)
  BY <1>1, <1>2 DEF Values
<1> QED
  BY <1>1, <1>4, <1>5, <1>6 DEF one, read

\* Of a whole plant all fields are there.
LEMMA PlantWhole ==
    ASSUME NEW body, NEW parts, Spells(body, parts)
    PROVE  PlantFields(field_string(3, body)) = parts
<1> DEFINE top == ParseFields(field_string(3, body))
<1>1. body \in Bytes
  BY SpeltIs
<1>2. ~top.raised /\ BytesIn(top.result, 3) = {body}
  BY <1>1, WrappedRead
<1>3. ~ParseFields(body).raised /\ ParseFields(body).result = parts
  BY WholeRead
<1> HIDE DEF top
<1>4. (CHOOSE b \in {body} : TRUE) = body
  OBVIOUS
<1> QED
  BY <1>2, <1>3, <1>4 DEF PlantFields, top

\* Of some numbers there is a last.
LEMMA LastNumber ==
    ASSUME NEW n \in Nat, NEW T \in SUBSET (1 .. n), T # {}
    PROVE  \E i \in T : \A j \in T : j <= i
<1> DEFINE U == {k \in Nat : \E i \in T : k = n - i}
<1>1. U # {} /\ U \subseteq Nat
  <2>1. PICK i \in T : TRUE
    OBVIOUS
  <2>2. n - i \in U
    BY <2>1
  <2> QED
    BY <2>2
<1>2. PICK k \in U : \A l \in U : k <= l
  BY <1>1, LeastNumber
<1>3. PICK i \in T : k = n - i
  BY <1>2
<1>4. ASSUME NEW j \in T
      PROVE  j <= i
  <2>1. n - j \in U
    OBVIOUS
  <2>2. n - i <= n - j
    BY <1>2, <1>3, <2>1
  <2> QED
    BY <2>2
<1> QED
  BY <1>4

\* The values val of each shutter, under its id.
ForEach(val) == UNION {{<<IdOf[x], v>> : v \in val[x]} : x \in Shutters}

\* The states of a plant have the values of their shutters.
HasValues(parts, position, F, val) ==
    \A i \in DOMAIN parts : \A x \in Shutters :
        parts[i] = Blob(12, StateText(x, position[x])) => F[i] = val[x]

\* Of a whole plant Collect leaves out no value of any shutter.
LEMMA CollectWhole ==
    ASSUME IdsAreIds, NEW position \in [Shutters -> Reported],
           NEW parts \in Seq(FieldSet), Covers(parts, position, Shutters),
           NEW F, NEW val, HasValues(parts, position, F, val)
    PROVE  Collect(StatesOf(parts), F) = ForEach(val)
<1> DEFINE states == StatesOf(parts)
           id(i)  == CHOOSE b \in IdIn(ParseFields(parts[i].bytes).result) : TRUE
           ids    == [i \in DOMAIN states |->
                         CHOOSE b \in IdIn(ParseFields(states[i].bytes).result) : TRUE]
           with   == {i \in DOMAIN states : F[i] # {}}
           last   == {i \in with : \A j \in with : ids[i] = ids[j] => j <= i}
           Of(i, x) == parts[i] = Blob(12, StateText(x, position[x]))
<1>1. Len(parts) \in Nat /\ DOMAIN parts = 1 .. Len(parts)
  OBVIOUS
<1>2. ASSUME NEW i \in DOMAIN parts, NEW x \in Shutters, Of(i, x)
      PROVE  IsState(parts[i]) /\ id(i) = IdOf[x] /\ F[i] = val[x]
  <2>1. position[x] \in Nat
    BY EventsAssumption
  <2>2. IsState(parts[i]) /\ IdIn(ParseFields(parts[i].bytes).result) = {IdOf[x]}
    BY <1>2, <2>1, StateWhole
  <2>3. (CHOOSE b \in {IdOf[x]} : TRUE) = IdOf[x]
    OBVIOUS
  <2> QED
    BY <1>2, <2>2, <2>3 DEF HasValues
<1>3. ASSUME NEW i \in DOMAIN parts, IsState(parts[i])
      PROVE  \E x \in Shutters : Of(i, x)
  <2>1. PlantPart(parts[i], position) /\ parts[i].field = 12
    BY <1>1, <1>3 DEF Covers, IsState
  <2> QED
    BY <2>1 DEF PlantPart, PartsOf, Blob
<1>4. /\ DOMAIN states = {i \in DOMAIN parts : IsState(parts[i])}
      /\ \A i \in DOMAIN states : ids[i] = id(i)
  BY DEF StatesOf
<1>5. Collect(states, F) = UNION {{<<ids[i], v>> : v \in F[i]} : i \in last}
  BY DEF Collect
<1> HIDE DEF id, ids, states, Of
<1>6. ASSUME NEW i \in last, NEW v \in F[i]
      PROVE  \E x \in Shutters : v \in val[x] /\ ids[i] = IdOf[x]
  BY <1>2, <1>3, <1>4
<1>7. ASSUME NEW x \in Shutters, NEW v \in val[x]
      PROVE  \E i \in last : v \in F[i] /\ ids[i] = IdOf[x]
  <2> DEFINE T == {i \in DOMAIN parts : Of(i, x)}
  <2>1. T \in SUBSET (1 .. Len(parts))
    BY <1>1
  <2>2. T # {}
    BY <1>1 DEF Covers, PartsOf, Of
  <2> HIDE DEF T
  <2>3. PICK i \in T : \A j \in T : j <= i
    BY <1>1, <2>1, <2>2, LastNumber
  <2>4. i \in with /\ F[i] = val[x] /\ ids[i] = IdOf[x]
    BY <1>2, <1>4 DEF T
  <2>5. ASSUME NEW j \in with, ids[i] = ids[j]
        PROVE  j <= i
    <3>1. PICK y \in Shutters : Of(j, y)
      BY <1>3, <1>4
    <3>2. IdOf[y] = IdOf[x]
      BY <1>2, <1>4, <2>4, <2>5, <3>1
    <3>3. j \in T
      BY <1>4, <3>1, <3>2 DEF T, IdsAreIds
    <3> QED
      BY <2>3, <3>3
  <2> QED
    BY <2>4, <2>5
<1> HIDE DEF last, with
<1> DEFINE A == UNION {{<<ids[i], v>> : v \in F[i]} : i \in last}
           B == ForEach(val)
<1>8. ASSUME NEW e \in A
      PROVE  e \in B
  <2>1. PICK i \in last : \E v \in F[i] : e = <<ids[i], v>>
    OBVIOUS
  <2>2. PICK v \in F[i] : e = <<ids[i], v>>
    BY <2>1
  <2>3. PICK x \in Shutters : v \in val[x] /\ ids[i] = IdOf[x]
    BY <1>6
  <2> QED
    BY <2>2, <2>3 DEF ForEach
<1>9. ASSUME NEW e \in B
      PROVE  e \in A
  <2>1. PICK x \in Shutters : \E v \in val[x] : e = <<IdOf[x], v>>
    BY DEF ForEach
  <2>2. PICK v \in val[x] : e = <<IdOf[x], v>>
    BY <2>1
  <2>3. PICK i \in last : v \in F[i] /\ ids[i] = IdOf[x]
    BY <1>7
  <2> QED
    BY <2>2, <2>3
<1> QED
  BY <1>5, <1>8, <1>9 DEF states

\* Of a whole answer no shutter is overlooked: every position in range is read, the
\* closed ones (0) as well, and of every shutter the motion and the slice; for any
\* number of shutters and rooms, if the ids are as the code expects them.
THEOREM WholePlantIsRead ==
    ASSUME IdsAreIds
    PROVE  Spec => []ReadsWholePlant
<1>1. ASSUME EventsInv
      PROVE  ReadsWholePlant
  <2> SUFFICES ASSUME sent.kind = "plant", cut = Len(sent.bytes)
               PROVE  /\ Positions(States(Received)) = Meant
                      /\ Motion(States(Received)) = {<<IdOf[x], 2>> : x \in Shutters}
                      /\ {slice[1] : slice \in Slices(States(Received))} = {IdOf[x] : x \in Shutters}
    BY DEF ReadsWholePlant
  <2> DEFINE position == sent.position
  <2>1. position \in [Shutters -> Reported] /\ sent = Plant(position) /\ Received = sent.bytes
    BY <1>1, PlantOfSent, ReceivedIs
  <2>2. PICK body, parts :
            /\ Spells(body, parts) /\ Covers(parts, position, Shutters)
            /\ Plant(position).bytes = field_string(3, body)
    BY <2>1, PlantMade
  <2> DEFINE states == StatesOf(parts)
  <2>3. States(Received) = states /\ parts \in Seq(FieldSet)
    BY <2>1, <2>2, PlantWhole, SpeltIs DEF States
  <2>4. \A x \in Shutters : position[x] \in Nat
    BY <2>1, EventsAssumption
  <2>5. ASSUME NEW i \in DOMAIN parts, NEW x \in Shutters,
               parts[i] = Blob(12, StateText(x, position[x]))
        PROVE  /\ i \in DOMAIN states
               /\ PositionOf(states[i]) = {position[x]} \intersect 0 .. Top
               /\ MotionOf(states[i]) = {2}
               /\ states[i].bytes = StateText(x, position[x])
    <3>1. /\ IsState(parts[i])
          /\ PositionOf(parts[i]) = {position[x]} \intersect 0 .. Top
          /\ MotionOf(parts[i]) = {2}
      BY <2>4, <2>5, StateWhole
    <3>2. parts[i].bytes = StateText(x, position[x])
      BY <2>5 DEF Blob
    <3>3. i \in DOMAIN states /\ states[i] = parts[i]
      BY <3>1 DEF StatesOf
    <3> QED
      BY <3>1, <3>2, <3>3
  <2>6. Positions(States(Received)) = Meant
    <3> DEFINE F == [i \in DOMAIN states |-> PositionOf(states[i])]
               val == [x \in Shutters |-> {position[x]} \intersect 0 .. Top]
    <3>1. Positions(States(Received)) = Collect(states, F)
      BY <2>3 DEF Positions
    <3> HIDE DEF states
    <3>2. HasValues(parts, position, F, val)
      BY <2>5 DEF HasValues
    <3>3. ForEach(val) = Meant
      BY <2>4 DEF Meant, ForEach
    <3> HIDE DEF F, val, position
    <3>4. Collect(states, F) = ForEach(val)
      BY <2>1, <2>2, <2>3, <3>2, CollectWhole DEF states
    <3> QED
      BY <3>1, <3>3, <3>4
  <2>7. Motion(States(Received)) = {<<IdOf[x], 2>> : x \in Shutters}
    <3> DEFINE F == [i \in DOMAIN states |-> MotionOf(states[i])]
               val == [x \in Shutters |-> {2}]
    <3>1. Motion(States(Received)) = Collect(states, F)
      BY <2>3 DEF Motion
    <3> HIDE DEF states
    <3>2. HasValues(parts, position, F, val)
      BY <2>5 DEF HasValues
    <3>3. ForEach(val) = {<<IdOf[x], 2>> : x \in Shutters}
      BY DEF ForEach
    <3> HIDE DEF F, val, position
    <3>4. Collect(states, F) = ForEach(val)
      BY <2>1, <2>2, <2>3, <3>2, CollectWhole DEF states
    <3> QED
      BY <3>1, <3>3, <3>4
  <2>8. {slice[1] : slice \in Slices(States(Received))} = {IdOf[x] : x \in Shutters}
    <3> DEFINE F == [i \in DOMAIN states |-> {states[i].bytes}]
               val == [x \in Shutters |-> {StateText(x, position[x])}]
    <3>1. Slices(States(Received)) = Collect(states, F)
      BY <2>3 DEF Slices
    <3> HIDE DEF states
    <3>2. HasValues(parts, position, F, val)
      BY <2>5 DEF HasValues
    <3>3. ForEach(val) = {<<IdOf[x], StateText(x, position[x])>> : x \in Shutters}
      BY DEF ForEach
    <3> HIDE DEF F, val, position
    <3>4. Collect(states, F) = ForEach(val)
      BY <2>1, <2>2, <2>3, <3>2, CollectWhole DEF states
    <3>5. Slices(States(Received)) = {<<IdOf[x], StateText(x, position[x])>> : x \in Shutters}
      BY <3>1, <3>3, <3>4
    <3>6. \A x \in Shutters : <<IdOf[x], StateText(x, position[x])>>[1] = IdOf[x]
      OBVIOUS
    <3>7. \A id : (\E slice \in Slices(States(Received)) : id = slice[1])
                      <=> (\E x \in Shutters : id = IdOf[x])
      BY <3>5, <3>6
    <3> QED
      BY <3>7
  <2> QED
    BY <2>6, <2>7, <2>8
<1> QED
  BY <1>1, EventsInvariance, PTL
-----------------------------------------------------------------------------
(* The walk through a notification.                                        *)

\* All there is of a beginning.
LEMMA BeginningIsAll ==
    ASSUME NEW v, NEW bytes, Beginning(v, bytes), Len(v) = Len(bytes)
    PROVE  v = bytes
<1>1. v \in Seq(0 .. 2 * Group - 1) /\ bytes \in Seq(0 .. 2 * Group - 1)
  BY DEF Beginning, Bytes
<1>2. \A i \in 1 .. Len(v) : v[i] = bytes[i]
  BY DEF Beginning
<1> QED
  BY <1>1, <1>2, SeqEqual

\* A beginning is what the slice up to its length is.
LEMMA BeginningIsSub ==
    ASSUME NEW v, NEW bytes, Beginning(v, bytes)
    PROVE  SubSeq(bytes, 1, Len(v)) = v
<1> DEFINE s == SubSeq(bytes, 1, Len(v))
<1>1. /\ v \in Bytes /\ bytes \in Bytes /\ Len(v) \in Nat /\ Len(bytes) \in Nat
      /\ Len(v) <= Len(bytes) /\ \A i \in 1 .. Len(v) : v[i] = bytes[i]
  BY ByteIs DEF Beginning
<1>2. \A i \in 1 .. Len(v) : bytes[i] \in 0 .. 2 * Group - 1
  BY <1>1, ByteIs
<1>3. /\ s \in Seq(0 .. 2 * Group - 1)
      /\ Len(s) = (IF 1 <= Len(v) THEN Len(v) - 1 + 1 ELSE 0)
      /\ \A i \in 1 .. Len(v) - 1 + 1 : s[i] = bytes[1 + i - 1]
  BY <1>1, <1>2, SubSeqProperties
<1>4. v \in Seq(0 .. 2 * Group - 1)
  BY <1>1 DEF Bytes
<1> HIDE DEF s
<1>5. Len(s) = Len(v)
  BY <1>1, <1>3
<1>6. \A i \in 1 .. Len(v) : s[i] = bytes[i]
  BY <1>1, <1>3
<1>7. s = v
  BY <1>1, <1>3, <1>4, <1>5, <1>6, SeqEqual
<1> QED
  BY <1>7 DEF s

\* What is nested in data is shorter than the data.
LEMMA ValuesAreShorter ==
    ASSUME NEW data \in Bytes, NEW v \in Values(ParseFields(data))
    PROVE  v \in Bytes /\ Len(v) \in Nat /\ Len(v) < Len(data)
<1> DEFINE all == ParseFields(data)
<1>1. ~all.raised /\ \E i \in DOMAIN all.result : v = all.result[i].bytes
  BY DEF Values
<1>2. \A i \in DOMAIN all.result :
          all.result[i].bytes \in Bytes /\ Len(all.result[i].bytes) < Len(data)
  BY <1>1, FieldsAreShorter
<1> HIDE DEF all
<1>3. v \in Bytes /\ Len(v) < Len(data)
  BY <1>1, <1>2
<1> QED
  BY <1>3, ByteIs

\* What the walk finds in one value, if it finds f in those that it goes into.
Reached(bytes, f) ==
    IF IsId(bytes) THEN {bytes}
    ELSE IF Len(bytes) \in 2 .. WalkLimit THEN f[bytes] ELSE {}

\* An id is found and not gone into.
LEMMA ReachedIs ==
    ASSUME NEW bytes, NEW f
    PROVE  /\ IsId(bytes) => Reached(bytes, f) = {bytes}
           /\ ~IsId(bytes) /\ Len(bytes) \in 2 .. WalkLimit => Reached(bytes, f) = f[bytes]
           /\ ~IsId(bytes) /\ Len(bytes) \notin 2 .. WalkLimit => Reached(bytes, f) = {}
  BY DEF Reached

\* What the definition of Seen says of its values.
LEMMA SeenDefined ==
    /\ Seen \in [Bytes -> SUBSET Bytes]
    /\ \A data \in Bytes :
           Seen[data] = UNION {Reached(v, Seen) : v \in Values(ParseFields(data))}
<1> DEFINE T == SUBSET Bytes
           Step(data, f) == UNION {Reached(v, f) : v \in Values(ParseFields(data))}
           D == [f \in [Bytes -> T] |-> [data \in Bytes |-> Step(data, f)]]
           m == [data \in Bytes |-> Len(data)]
<1>1. D \in [[Bytes -> T] -> [Bytes -> T]]
  <2> SUFFICES ASSUME NEW f \in [Bytes -> T], NEW data \in Bytes
               PROVE  Step(data, f) \in T
    OBVIOUS
  <2>1. ASSUME NEW v \in Values(ParseFields(data))
        PROVE  Reached(v, f) \in SUBSET Bytes
    <3>1. v \in Bytes /\ f[v] \in SUBSET Bytes
      BY ValuesAreShorter
    <3>2. {v} \in SUBSET Bytes /\ {} \in SUBSET Bytes
      BY <3>1
    <3> QED
      BY <3>1, <3>2, ReachedIs
  <2> QED
    BY <2>1
<1>2. m \in [Bytes -> Nat]
  BY ByteIs
<1>3. Local(D, Bytes, T, m)
  <2> SUFFICES ASSUME NEW g \in [Bytes -> T], NEW h \in [Bytes -> T], NEW data \in Bytes,
                      \A r \in Bytes : m[r] < m[data] => g[r] = h[r]
               PROVE  D[g][data] = D[h][data]
    BY DEF Local
  <2>1. ASSUME NEW v \in Values(ParseFields(data))
        PROVE  Reached(v, g) = Reached(v, h)
    <3>1. v \in Bytes /\ m[v] < m[data]
      BY ValuesAreShorter
    <3>2. g[v] = h[v]
      BY <3>1
    <3> QED
      BY <3>2, ReachedIs
  <2>2. Step(data, g) = Step(data, h)
    BY <2>1
  <2>3. D[g][data] = Step(data, g) /\ D[h][data] = Step(data, h)
    <3> HIDE DEF Step
    <3> QED
      OBVIOUS
  <2> QED
    BY <2>2, <2>3
<1>4. PICK f \in [Bytes -> T] : f = D[f]
  <2> HIDE DEF D, m, T
  <2>1. T # {}
    BY DEF T
  <2>2. WellDefined(D, Bytes, T, m)
    BY <1>1, <1>2, <1>3, <2>1 DEF WellDefined
  <2> QED
    BY <2>2, Recursion
<1>5. f = [data \in Bytes |-> Step(data, f)]
  <2> HIDE DEF Step
  <2> QED
    BY <1>4, Zenon
<1>6. Seen = [data \in Bytes |-> Step(data, Seen)]
  BY <1>5, Zenon DEF Seen, Reached
<1>7. \A data \in Bytes : Seen[data] = Step(data, Seen)
  <2> HIDE DEF Step
  <2> QED
    BY <1>6
<1> DEFINE Typed == {data \in Bytes : Seen[data] \in SUBSET Bytes}
<1>8. ASSUME NEW data \in Bytes, \A r \in Bytes : m[r] < m[data] => r \in Typed
      PROVE  data \in Typed
  <2>1. ASSUME NEW v \in Values(ParseFields(data))
        PROVE  Reached(v, Seen) \in SUBSET Bytes
    <3>1. v \in Bytes /\ m[v] < m[data]
      BY ValuesAreShorter
    <3>2. {v} \in SUBSET Bytes /\ {} \in SUBSET Bytes /\ Seen[v] \in SUBSET Bytes
      BY <1>8, <3>1
    <3> QED
      BY <3>2, ReachedIs
  <2>2. Step(data, Seen) \in SUBSET Bytes
    BY <2>1
  <2> HIDE DEF Step
  <2> QED
    BY <1>7, <2>2
<1> HIDE DEF m, Typed, Step
<1>9. Bytes \subseteq Typed
  BY <1>2, <1>8, MeasureInduction
<1>10. \A data \in Bytes : Seen[data] \in SUBSET Bytes
  BY <1>9 DEF Typed
<1>11. Seen \in [Bytes -> SUBSET Bytes]
  BY <1>6, <1>10
<1> QED
  BY <1>7, <1>11 DEF Step

\* The walk finds nothing but ids, and none in what is no longer than an id.
LEMMA SeenAreIds ==
    ASSUME NEW data \in Bytes, NEW id \in Seen[data]
    PROVE  IsId(id) /\ IdLength \in Nat /\ IdLength < Len(data)
<1> DEFINE m == [d \in Bytes |-> Len(d)]
           Fine(d, i) == IsId(i) /\ IdLength \in Nat /\ IdLength < Len(d)
           Good == {d \in Bytes : \A i \in Seen[d] : Fine(d, i)}
<1>1. m \in [Bytes -> Nat]
  BY ByteIs
<1>2. ASSUME NEW d \in Bytes, \A r \in Bytes : m[r] < m[d] => r \in Good
      PROVE  d \in Good
  <2> SUFFICES ASSUME NEW i \in Seen[d]
               PROVE  Fine(d, i)
    OBVIOUS
  <2>1. PICK v \in Values(ParseFields(d)) : i \in Reached(v, Seen)
    BY SeenDefined
  <2>2. v \in Bytes /\ Len(v) \in Nat /\ Len(v) < Len(d) /\ Len(d) \in Nat
    BY ValuesAreShorter, ByteIs
  <2>3. CASE IsId(v)
    <3>1. i = v
      BY <2>1, <2>3, ReachedIs
    <3>2. Len(v) = IdLength
      BY <2>3 DEF IsId
    <3> QED
      BY <2>2, <2>3, <3>1, <3>2
  <2>4. CASE ~IsId(v)
    <3>1. i \in Seen[v]
      BY <2>1, <2>4, ReachedIs
    <3>2. v \in Good
      BY <1>2, <2>2
    <3>3. Fine(v, i)
      BY <3>1, <3>2
    <3> QED
      BY <2>2, <3>3
  <2> QED
    BY <2>3, <2>4
<1> HIDE DEF m, Good
<1>3. Bytes \subseteq Good
  BY <1>1, <1>2, MeasureInduction
<1> QED
  BY <1>3 DEF Good

\* No beginning of the bytes gives the walk the id of another shutter than these.
Shows(bytes, ids) ==
    \A v \in Bytes : Beginning(v, bytes) =>
        \A x \in Shutters : IdOf[x] \in Reached(v, Seen) => x \in ids

\* If that is so of all fields of a message, the walk through the message, or what
\* has arrived of it, finds no others.
LEMMA WalkShows ==
    ASSUME NEW bytes, NEW fields, Spells(bytes, fields), NEW ids,
           \A j \in 1 .. Len(fields) : Shows(fields[j].bytes, ids),
           NEW data, Beginning(data, bytes), NEW x \in Shutters, IdOf[x] \in Seen[data]
    PROVE  x \in ids
<1> DEFINE all == ParseFields(data)
           read == all.result
<1>1. data \in Bytes
  BY DEF Beginning
<1>2. PICK v \in Values(all) : IdOf[x] \in Reached(v, Seen)
  BY <1>1, SeenDefined
<1>3. ~all.raised /\ \E j \in DOMAIN read : v = read[j].bytes
  BY <1>2 DEF Values
<1>4. /\ read \in Seq(FieldSet) /\ Len(read) \in Nat /\ Len(read) <= Len(fields)
      /\ \A j \in 1 .. Len(read) : Beginning(read[j].bytes, fields[j].bytes)
  BY <1>3, PartRead
<1>5. Len(fields) \in Nat
  BY SpeltIs
<1> HIDE DEF all
<1>6. PICK j \in 1 .. Len(read) : v = read[j].bytes
  BY <1>3, <1>4
<1>7. j \in 1 .. Len(fields) /\ Beginning(v, fields[j].bytes) /\ v \in Bytes
  BY <1>4, <1>5, <1>6 DEF Beginning
<1> QED
  BY <1>2, <1>7 DEF Shows

\* Of a whole message the walk goes into every field.
LEMMA WalkFinds ==
    ASSUME NEW bytes, NEW fields, Spells(bytes, fields), NEW j \in 1 .. Len(fields)
    PROVE  Reached(fields[j].bytes, Seen) \subseteq Seen[bytes]
<1> DEFINE v == fields[j].bytes
<1>1. ~ParseFields(bytes).raised /\ ParseFields(bytes).result = fields /\ bytes \in Bytes
  BY WholeRead, SpeltIs
<1>2. fields \in Seq(FieldSet) /\ DOMAIN fields = 1 .. Len(fields)
  BY SpeltIs
<1>3. v \in Values(ParseFields(bytes))
  BY <1>1, <1>2 DEF Values
<1> HIDE DEF v
<1>4. Seen[bytes] = UNION {Reached(w, Seen) : w \in Values(ParseFields(bytes))}
  BY <1>1, SeenDefined
<1> QED
  BY <1>3, <1>4 DEF v

\* What the walk finds of a value is the value itself, an id, or nested in it.
LEMMA ReachedAreIds ==
    ASSUME NEW v \in Bytes, NEW id \in Reached(v, Seen)
    PROVE  /\ IsId(id)
           /\ \/ id = v
              \/ ~IsId(v) /\ id \in Seen[v] /\ IdLength \in Nat /\ IdLength < Len(v)
<1>1. CASE IsId(v)
  BY <1>1, ReachedIs
<1>2. CASE ~IsId(v)
  <2>1. id \in Seen[v]
    BY <1>2, ReachedIs
  <2>2. IsId(id) /\ IdLength \in Nat /\ IdLength < Len(v)
    BY <2>1, SeenAreIds
  <2> QED
    BY <1>2, <2>1, <2>2
<1> QED
  BY <1>1, <1>2

\* An id, or what has arrived of it, is taken for no other.
LEMMA IdShows ==
    ASSUME IdsStandOut, NEW y \in Shutters
    PROVE  Shows(IdOf[y], {y}) /\ IdOf[y] \in Reached(IdOf[y], Seen)
<1>1. IsId(IdOf[y]) /\ Len(IdOf[y]) = IdLength /\ IdOf[y] \in Bytes
  BY EventsAssumption DEF IdsStandOut, IsId
<1>2. ASSUME NEW v \in Bytes, Beginning(v, IdOf[y]), NEW x \in Shutters,
             IdOf[x] \in Reached(v, Seen)
      PROVE  x \in {y}
  <2>1. Len(v) <= IdLength /\ Len(v) \in Nat
    BY <1>1, <1>2, ByteIs DEF Beginning
  <2>2. IdOf[x] = v
    BY <1>2, <2>1, ReachedAreIds
  <2>3. Len(v) = IdLength
    BY <1>2, <2>2, ReachedAreIds DEF IsId
  <2>4. v = IdOf[y]
    BY <1>1, <1>2, <2>3, BeginningIsAll
  <2> QED
    BY <2>2, <2>4 DEF IdsStandOut
<1> QED
  BY <1>1, <1>2, ReachedIs DEF Shows

\* In what is empty there is no id.
LEMMA NothingShows ==
    ASSUME IdsStandOut, NEW ids
    PROVE  Shows(<<>>, ids)
<1> SUFFICES ASSUME NEW v \in Bytes, Beginning(v, <<>>), NEW x \in Shutters,
                    IdOf[x] \in Reached(v, Seen)
             PROVE  FALSE
  BY DEF Shows
<1>1. Len(v) = 0
  BY ByteIs DEF Beginning
<1>2. IdOf[x] = v /\ IsId(v)
  BY <1>1, ReachedAreIds
<1> QED
  BY <1>1, <1>2 DEF IsId, IdsStandOut

\* What a message is said to mention is what the walk finds in its fields.
Tells(m) ==
    /\ Spells(m.bytes, m.fields)
    /\ \A j \in 1 .. Len(m.fields) : Shows(m.fields[j].bytes, m.ids)
    /\ \A x \in m.ids : x \in Shutters /\ \E j \in 1 .. Len(m.fields) :
                            IdOf[x] \in Reached(m.fields[j].bytes, Seen)

\* It is so of one field of bytes, ...
LEMMA TextTells ==
    ASSUME NEW f \in Nat, NEW bytes \in Bytes, NEW ids \in SUBSET Shutters, Shows(bytes, ids),
           \A x \in ids : IdOf[x] \in Reached(bytes, Seen)
    PROVE  Tells(Text(f, bytes, ids))
<1> DEFINE m == Text(f, bytes, ids)
           one == <<Blob(f, bytes)>>
<1>1. m.bytes = field_string(f, bytes) /\ m.fields = one /\ m.ids = ids
  BY DEF Text, Message
<1>2. Spells(m.bytes, m.fields)
  BY <1>1, TextSpelt
<1>3. Len(one) = 1 /\ one[1].bytes = bytes
  BY DEF Blob
<1> HIDE DEF m, one
<1>4. 1 \in 1 .. Len(one) /\ \A j \in 1 .. Len(one) : j = 1
  BY <1>3
<1>5. Tells(m)
  BY <1>1, <1>2, <1>3, <1>4 DEF Tells
<1> QED
  BY <1>5 DEF m

\* ... of a number and of an id, ...
LEMMA LeafTells ==
    ASSUME IdsStandOut, NEW m \in Leaves
    PROVE  Tells(m)
<1>1. ASSUME NEW f \in Fields, NEW n \in Numbers, m = Number(f, n)
      PROVE  Tells(m)
  <2> DEFINE one == <<Value(f, n)>>
  <2>1. Spells(m.bytes, m.fields)
    BY LeafSpelt
  <2>2. m.fields = one /\ m.ids = {}
    BY <1>1 DEF Number, Message
  <2>3. Len(one) = 1 /\ one[1].bytes = <<>>
    BY DEF Value
  <2> HIDE DEF one
  <2>4. \A j \in 1 .. Len(one) : Shows(one[j].bytes, {})
    BY <2>3, NothingShows
  <2> QED
    BY <2>1, <2>2, <2>4 DEF Tells
<1>2. ASSUME NEW f \in Fields, NEW x \in Shutters, m = Text(f, IdOf[x], {x})
      PROVE  Tells(m)
  <2>1. f \in Nat /\ IdOf[x] \in Bytes
    BY EventsAssumption
  <2>2. Shows(IdOf[x], {x}) /\ IdOf[x] \in Reached(IdOf[x], Seen)
    BY IdShows
  <2> QED
    BY <1>2, <2>1, <2>2, TextTells
<1>3. \/ \E f \in Fields, n \in Numbers : m = Number(f, n)
      \/ \E f \in Fields, x \in Shutters : m = Text(f, IdOf[x], {x})
  BY DEF Leaves
<1> QED
  BY <1>1, <1>2, <1>3

\* ... of two messages one after the other, ...
LEMMA JoinTells ==
    ASSUME NEW m, NEW n, Tells(m), Tells(n)
    PROVE  Tells(Join(m, n))
<1> DEFINE a == m.fields
           b == n.fields
           both == a \o b
           ids == m.ids \union n.ids
<1>1. Spells(m.bytes, a) /\ Spells(n.bytes, b)
  BY DEF Tells
<1>2. a \in Seq(FieldSet) /\ b \in Seq(FieldSet)
  BY <1>1, SpeltIs
<1>3. /\ Spells(Join(m, n).bytes, both) /\ Join(m, n).fields = both
      /\ Join(m, n).ids = ids
  BY <1>1, JoinSpelt DEF Join, Message
<1>4. /\ \A j \in 1 .. Len(a) : Shows(a[j].bytes, m.ids)
      /\ \A j \in 1 .. Len(b) : Shows(b[j].bytes, n.ids)
      /\ \A x \in m.ids : x \in Shutters /\ \E j \in 1 .. Len(a) :
                              IdOf[x] \in Reached(a[j].bytes, Seen)
      /\ \A x \in n.ids : x \in Shutters /\ \E j \in 1 .. Len(b) :
                              IdOf[x] \in Reached(b[j].bytes, Seen)
  BY DEF Tells
<1> HIDE DEF a, b
<1>5. /\ Len(a) \in Nat /\ Len(b) \in Nat /\ Len(both) = Len(a) + Len(b)
      /\ \A j \in 1 .. Len(a) : both[j] = a[j]
      /\ \A j \in 1 .. Len(b) : both[Len(a) + j] = b[j]
  BY <1>2
<1> HIDE DEF both
<1>6. ASSUME NEW j \in 1 .. Len(both)
      PROVE  Shows(both[j].bytes, ids)
  <2>1. CASE j \in 1 .. Len(a)
    <3>1. Shows(both[j].bytes, m.ids)
      BY <1>4, <1>5, <2>1
    <3> QED
      BY <3>1 DEF Shows
  <2>2. CASE j \notin 1 .. Len(a)
    <3> DEFINE k == j - Len(a)
    <3>1. k \in 1 .. Len(b) /\ Len(a) + k = j
      BY <1>5, <2>2
    <3> HIDE DEF k
    <3>2. Shows(both[j].bytes, n.ids)
      BY <1>4, <1>5, <3>1
    <3> QED
      BY <3>2 DEF Shows
  <2> QED
    BY <2>1, <2>2
<1>7. ASSUME NEW x \in ids
      PROVE  x \in Shutters /\ \E j \in 1 .. Len(both) : IdOf[x] \in Reached(both[j].bytes, Seen)
  <2>1. CASE x \in m.ids
    <3>1. PICK j \in 1 .. Len(a) : IdOf[x] \in Reached(a[j].bytes, Seen)
      BY <1>4, <2>1
    <3>2. j \in 1 .. Len(both) /\ both[j] = a[j]
      BY <1>5
    <3> QED
      BY <1>4, <2>1, <3>1, <3>2
  <2>2. CASE x \in n.ids
    <3>1. PICK j \in 1 .. Len(b) : IdOf[x] \in Reached(b[j].bytes, Seen)
      BY <1>4, <2>2
    <3>2. Len(a) + j \in 1 .. Len(both) /\ both[Len(a) + j] = b[j]
      BY <1>5
    <3> QED
      BY <1>4, <2>2, <3>1, <3>2
  <2> QED
    BY <2>1, <2>2
<1> QED
  BY <1>3, <1>6, <1>7 DEF Tells

\* ... of a message in a message, ...
LEMMA InnerTells ==
    ASSUME IdsStandOut, NEW i \in Inner
    PROVE  Tells(i)
<1>1. PICK f \in Fields, m \in Leaves, n \in Leaves :
          i = Text(f, Join(m, n).bytes, m.ids \union n.ids)
  BY DEF Inner
<1> DEFINE inner == Join(m, n).bytes
           fields == Join(m, n).fields
           ids == m.ids \union n.ids
<1>2. Tells(Join(m, n)) /\ Join(m, n).ids = ids
  BY LeafTells, JoinTells DEF Join, Message
<1>3. /\ Spells(inner, fields) /\ ids \in SUBSET Shutters
      /\ \A j \in 1 .. Len(fields) : Shows(fields[j].bytes, ids)
      /\ \A x \in ids : \E j \in 1 .. Len(fields) : IdOf[x] \in Reached(fields[j].bytes, Seen)
  BY <1>2 DEF Tells
<1>4. /\ Len(inner) <= WalkLimit
      /\ IdLength <= Len(inner) => \A x \in Shutters : SubSeq(inner, 1, IdLength) # IdOf[x]
  BY DEF IdsStandOut
<1> HIDE DEF inner, fields, ids
<1>5. inner \in Bytes /\ Len(inner) \in Nat
  BY <1>3, SpeltIs, ByteIs
<1>6. ASSUME NEW v \in Bytes, Beginning(v, inner), NEW x \in Shutters,
             IdOf[x] \in Reached(v, Seen)
      PROVE  x \in ids
  <2>1. v # IdOf[x]
    <3> SUFFICES ASSUME v = IdOf[x]
                 PROVE  FALSE
      OBVIOUS
    <3>1. Len(v) = IdLength /\ Len(v) \in Nat /\ Len(v) <= Len(inner)
      BY <1>6, ReachedAreIds, ByteIs DEF IsId, Beginning
    <3>2. SubSeq(inner, 1, Len(v)) = v
      BY <1>5, <1>6, BeginningIsSub
    <3> QED
      BY <1>4, <3>1, <3>2
  <2>2. IdOf[x] \in Seen[v]
    BY <1>6, <2>1, ReachedAreIds
  <2> QED
    BY <1>3, <1>6, <2>2, WalkShows
<1>7. Shows(inner, ids)
  BY <1>6 DEF Shows
<1>8. ASSUME NEW x \in ids
      PROVE  IdOf[x] \in Reached(inner, Seen)
  <2>1. PICK j \in 1 .. Len(fields) : IdOf[x] \in Reached(fields[j].bytes, Seen)
    BY <1>3
  <2>2. IdOf[x] \in Seen[inner]
    BY <1>3, <2>1, WalkFinds
  <2>3. IdLength \in Nat /\ IdLength < Len(inner) /\ 0 < IdLength
    BY <1>5, <2>2, SeenAreIds DEF IdsStandOut
  <2>4. ~IsId(inner) /\ Len(inner) \in 2 .. WalkLimit
    BY <1>4, <1>5, <2>3, EventsAssumption DEF IsId
  <2> QED
    BY <2>2, <2>4, ReachedIs
<1>9. f \in Nat
  BY EventsAssumption
<1>10. Tells(Text(f, inner, ids))
  BY <1>3, <1>5, <1>7, <1>8, <1>9, TextTells
<1> QED
  BY <1>1, <1>10 DEF inner, ids

\* ... and so of every notification: of the whole the walk finds all the ids that were
\* put into it, and of what has arrived of it no others.
LEMMA NotificationTells ==
    ASSUME IdsStandOut, NEW m \in Notifications, NEW data, Beginning(data, m.bytes)
    PROVE  Mentioned(data) \subseteq m.ids /\ (data = m.bytes => Mentioned(data) = m.ids)
<1>1. Tells(m)
  BY LeafTells, InnerTells, JoinTells DEF Notifications
<1>2. Spells(m.bytes, m.fields) /\ \A j \in 1 .. Len(m.fields) : Shows(m.fields[j].bytes, m.ids)
  BY <1>1 DEF Tells
<1>3. Mentioned(data) \subseteq m.ids
  BY <1>2, WalkShows DEF Mentioned
<1>4. ASSUME data = m.bytes, NEW x \in m.ids
      PROVE  x \in Mentioned(data)
  <2>1. x \in Shutters
    BY <1>1 DEF Tells
  <2>2. PICK j \in 1 .. Len(m.fields) : IdOf[x] \in Reached(m.fields[j].bytes, Seen)
    BY <1>1 DEF Tells
  <2>3. IdOf[x] \in Seen[m.bytes]
    BY <1>2, <2>2, WalkFinds
  <2> QED
    BY <1>4, <2>1, <2>3 DEF Mentioned
<1> QED
  BY <1>3, <1>4

\* What WokenByMention says of a step.
Wakes ==
    LET waiting == {w \in Waiters : wait[w] = "waiting"}
        woken   == {w \in waiting : wait'[w] = "woken"}
        meant   == IF sent.kind = "plant" THEN {}
                   ELSE {w \in waiting : ShutterOf[w] \in sent.ids}
    IN  /\ woken \subseteq meant
        /\ cut = 0 /\ cut' # 0 /\ cut' = Len(sent.bytes) => woken = meant

\* A step in which nobody who waits is woken, and no notification is read.
LEMMA NobodyWoken ==
    ASSUME \A w \in Waiters : wait[w] = "waiting" => wait'[w] # "woken",
           cut = 0 /\ cut' # 0 => sent.kind = "plant"
    PROVE  Wakes
  BY DEF Wakes

\* The read loop hands over what has arrived: what it wakes are those that wait for a
\* shutter that is mentioned there.
LEMMA DispatchWakes ==
    ASSUME WaitersInv, NEW mentioned \in SUBSET Shutters, Dispatch(mentioned),
           NEW w \in Waiters, wait[w] = "waiting"
    PROVE  wait'[w] = "woken" <=> ShutterOf[w] \in mentioned
<1>1. wait'[w] = "woken" <=> \E x \in mentioned : w \in listed[x]
  BY DEF Dispatch
<1>2. w \in listed[ShutterOf[w]]
  BY DEF WaitersInv, WaitersListed
<1>3. \A x \in mentioned : w \in listed[x] => ShutterOf[w] = x
  BY DEF WaitersInv, WaitersListed
<1> QED
  BY <1>1, <1>2, <1>3

\* However deep an id is nested in a notification, and beside whatever else, the
\* notification wakes every task that waits for its shutter and no other task; and of
\* one that is cut short, which nobody in the client notices, no half of a value is
\* taken for the id of another shutter.
THEOREM MentionWakes ==
    ASSUME IdsStandOut
    PROVE  Spec => WokenByMention
<1>1. ASSUME EventsInv, [Next]_eventVars
      PROVE  [Wakes]_eventVars
  <2>1. ASSUME NEW m \in Notifications \union Plants, Send(m)
        PROVE  Wakes
    <3>1. wait' = wait /\ cut' = 0
      BY <2>1 DEF Send, waiterVars
    <3> QED
      BY <3>1, NobodyWoken
  <2>2. ASSUME NEW length \in 1 .. Len(sent.bytes), Receive(length)
        PROVE  Wakes
    <3> DEFINE data == SubSeq(sent.bytes, 1, length)
    <3>1. sent \in Messages /\ sent # Silence /\ cut' = length
      BY <1>1, <2>2 DEF EventsInv, EventsTypeOK, Messages, Receive
    <3>2. CASE sent.kind # "notification"
      <4>1. wait' = wait
        BY <2>2, <3>2 DEF Receive, waiterVars
      <4>2. sent.kind = "plant"
        BY <3>1, <3>2, KindsApart
      <4> QED
        BY <4>1, <4>2, NobodyWoken
    <3>3. CASE sent.kind = "notification"
      <4>1. Dispatch(Mentioned(data)) /\ Mentioned(data) \in SUBSET Shutters
        BY <2>2, <3>3 DEF Receive, Mentioned
      <4>2. Beginning(data, sent.bytes) /\ (length = Len(sent.bytes) => data = sent.bytes)
        BY <3>1, MessageSpelt, CutIs
      <4>3. sent \in Notifications
        BY <3>1, <3>3, KindsApart DEF Messages
      <4> HIDE DEF data
      <4>4. /\ Mentioned(data) \subseteq sent.ids
            /\ length = Len(sent.bytes) => Mentioned(data) = sent.ids
        BY <4>2, <4>3, NotificationTells
      <4>5. \A w \in Waiters : wait[w] = "waiting" =>
                (wait'[w] = "woken" <=> ShutterOf[w] \in Mentioned(data))
        BY <1>1, <4>1, DispatchWakes DEF EventsInv
      <4> QED
        BY <3>1, <3>3, <4>4, <4>5 DEF Wakes
    <3> QED
      BY <3>2, <3>3
  <2>3. ASSUME WaitersStep
        PROVE  Wakes
    <3>1. cut' = cut
      BY <2>3 DEF WaitersStep
    <3>2. PICK v \in Waiters : WaitForEvent(v) \/ WaiterStep(v)
      BY <2>3 DEF WaitersStep
    <3>3. \A w \in Waiters : wait[w] = "waiting" => wait'[w] # "woken"
      BY <1>1, <3>2 DEF EventsInv, WaitersInv, WaiterTypeOK, WaitForEvent, WaiterStep,
                        WaitReturns, WaitExpires, CleanUp
    <3> QED
      BY <3>1, <3>3, NobodyWoken
  <2> QED
    BY <1>1, <2>1, <2>2, <2>3 DEF Next
<1>2. EventsInv /\ [Next]_eventVars => [Wakes]_eventVars
  BY <1>1
<1> QED
  BY <1>2, EventsInvariance, PTL DEF Spec, WokenByMention, Wakes

-----------------------------------------------------------------------------
(* The list of the shutters.                                               *)

\* What has the marker is one of the values, and shorter than what it is read from.
LEMMA MarkedInIs ==
    ASSUME NEW data \in Bytes
    PROVE  /\ MarkedIn(data) = {v \in Values(ParseFields(data)) : HasMarker(v)}
           /\ \A v \in MarkedIn(data) : v \in Bytes /\ Len(v) \in Nat /\ Len(v) < Len(data)
<1>1. MarkedIn(data) = {v \in Values(ParseFields(data)) : HasMarker(v)}
  BY DEF MarkedIn, Values
<1> QED
  BY <1>1, ValuesAreShorter

\* What the definition of Marked says of its values.
LEMMA MarkedDefined ==
    /\ Marked \in [Bytes -> SUBSET Bytes]
    /\ \A data \in Bytes :
           Marked[data] = MarkedIn(data) \union UNION {Marked[v] : v \in MarkedIn(data)}
<1> DEFINE T == SUBSET Bytes
           Step(data, f) == MarkedIn(data) \union UNION {f[v] : v \in MarkedIn(data)}
           D == [f \in [Bytes -> T] |-> [data \in Bytes |-> Step(data, f)]]
           m == [data \in Bytes |-> Len(data)]
<1>1. D \in [[Bytes -> T] -> [Bytes -> T]]
  <2> SUFFICES ASSUME NEW f \in [Bytes -> T], NEW data \in Bytes
               PROVE  Step(data, f) \in T
    OBVIOUS
  <2>1. \A v \in MarkedIn(data) : v \in Bytes /\ f[v] \in SUBSET Bytes
    BY MarkedInIs
  <2> QED
    BY <2>1
<1>2. m \in [Bytes -> Nat]
  BY ByteIs
<1>3. Local(D, Bytes, T, m)
  <2> SUFFICES ASSUME NEW g \in [Bytes -> T], NEW h \in [Bytes -> T], NEW data \in Bytes,
                      \A r \in Bytes : m[r] < m[data] => g[r] = h[r]
               PROVE  D[g][data] = D[h][data]
    BY DEF Local
  <2>1. \A v \in MarkedIn(data) : v \in Bytes /\ m[v] < m[data]
    BY MarkedInIs
  <2>2. \A v \in MarkedIn(data) : g[v] = h[v]
    BY <2>1
  <2>3. Step(data, g) = Step(data, h)
    BY <2>2
  <2>4. D[g][data] = Step(data, g) /\ D[h][data] = Step(data, h)
    <3> HIDE DEF Step
    <3> QED
      OBVIOUS
  <2> QED
    BY <2>3, <2>4
<1>4. PICK f \in [Bytes -> T] : f = D[f]
  <2> HIDE DEF D, m, T
  <2>1. T # {}
    BY DEF T
  <2>2. WellDefined(D, Bytes, T, m)
    BY <1>1, <1>2, <1>3, <2>1 DEF WellDefined
  <2> QED
    BY <2>2, Recursion
<1>5. f = [data \in Bytes |-> Step(data, f)]
  <2> HIDE DEF Step
  <2> QED
    BY <1>4, Zenon
<1>6. Marked = [data \in Bytes |-> Step(data, Marked)]
  BY <1>5, Zenon DEF Marked
<1>7. \A data \in Bytes : Marked[data] = Step(data, Marked)
  <2> HIDE DEF Step
  <2> QED
    BY <1>6
<1> DEFINE Typed == {data \in Bytes : Marked[data] \in SUBSET Bytes}
<1>8. ASSUME NEW data \in Bytes, \A r \in Bytes : m[r] < m[data] => r \in Typed
      PROVE  data \in Typed
  <2>1. \A v \in MarkedIn(data) : v \in Bytes /\ m[v] < m[data]
    BY MarkedInIs
  <2>2. \A v \in MarkedIn(data) : v \in Bytes /\ Marked[v] \in SUBSET Bytes
    BY <1>8, <2>1
  <2>3. Step(data, Marked) \in SUBSET Bytes
    BY <2>2
  <2> HIDE DEF Step
  <2> QED
    BY <1>7, <2>3
<1> HIDE DEF m, Typed, Step
<1>9. Bytes \subseteq Typed
  BY <1>2, <1>8, MeasureInduction
<1>10. \A data \in Bytes : Marked[data] \in SUBSET Bytes
  BY <1>9 DEF Typed
<1>11. Marked \in [Bytes -> SUBSET Bytes]
  BY <1>6, <1>10
<1> QED
  BY <1>7, <1>11 DEF Step

\* The marker is where its bytes are.
LEMMA MarkerIs ==
    ASSUME NEW bytes \in Bytes
    PROVE  HasMarker(bytes) <=> \E i \in Place : Holds(bytes, i, Marker)
<1> DEFINE n == Len(Marker)
           s(i) == SubSeq(bytes, i, i + n - 1)
<1>1. /\ Marker \in Seq(0 .. 2 * Group - 1) /\ n \in Nat /\ Len(bytes) \in Nat
      /\ \A i \in 1 .. Len(bytes) : bytes[i] \in 0 .. 2 * Group - 1
  BY ByteIs, EventsAssumption DEF Bytes
<1>2. ASSUME NEW i \in 1 .. Len(bytes) + 1 - n
      PROVE  s(i) = Marker <=> Holds(bytes, i, Marker)
  <2>1. i \in Nat /\ i + n - 1 \in Int /\ \A k \in i .. i + n - 1 : bytes[k] \in 0 .. 2 * Group - 1
    BY <1>1
  <2>2. /\ s(i) \in Seq(0 .. 2 * Group - 1)
        /\ Len(s(i)) = (IF i <= i + n - 1 THEN i + n - 1 - i + 1 ELSE 0)
        /\ \A k \in 1 .. i + n - 1 - i + 1 : s(i)[k] = bytes[i + k - 1]
    BY <1>1, <2>1, SubSeqProperties
  <2> HIDE DEF s
  <2>3. Len(s(i)) = n /\ \A k \in 1 .. n : s(i)[k] = bytes[i + k - 1]
    BY <1>1, <2>1, <2>2
  <2>4. s(i) = Marker => Holds(bytes, i, Marker)
    BY <1>1, <2>3 DEF Holds
  <2>5. Holds(bytes, i, Marker) => s(i) = Marker
    <3> SUFFICES ASSUME Holds(bytes, i, Marker)
                 PROVE  s(i) = Marker
      OBVIOUS
    <3>1. \A k \in 1 .. n : s(i)[k] = Marker[k]
      BY <2>3 DEF Holds
    <3> HIDE DEF n
    <3> QED
      BY <1>1, <2>2, <2>3, <3>1, SeqEqual DEF n
  <2> QED
    BY <2>4, <2>5
<1> HIDE DEF s
<1>3. \A i \in Place : Holds(bytes, i, Marker) => i \in 1 .. Len(bytes) + 1 - n
  BY <1>1 DEF Holds, Place
<1>4. \A i \in 1 .. Len(bytes) + 1 - n : i \in Place
  BY <1>1 DEF Place
<1>5. HasMarker(bytes) <=> \E i \in 1 .. Len(bytes) + 1 - n : s(i) = Marker
  BY DEF HasMarker, s
<1> QED
  BY <1>2, <1>3, <1>4, <1>5

\* A marker in a beginning is one in the whole, ...
LEMMA MarkerInBeginning ==
    ASSUME NEW v, NEW bytes, Beginning(v, bytes), HasMarker(v)
    PROVE  HasMarker(bytes)
<1>1. /\ v \in Bytes /\ bytes \in Bytes /\ Len(v) \in Nat /\ Len(bytes) \in Nat
      /\ Len(v) <= Len(bytes) /\ \A i \in 1 .. Len(v) : v[i] = bytes[i]
      /\ Len(Marker) \in Nat
  BY ByteIs, EventsAssumption DEF Beginning
<1>2. PICK i \in Place : Holds(v, i, Marker)
  BY <1>1, MarkerIs
<1>3. \A j \in 1 .. Len(Marker) : i + j - 1 \in 1 .. Len(v)
  BY <1>1, <1>2 DEF Holds, Place
<1>4. Holds(bytes, i, Marker)
  BY <1>1, <1>2, <1>3 DEF Holds, Place
<1> QED
  BY <1>1, <1>4, MarkerIs

\* ... and one in a field is one in the message.
LEMMA MarkerInField ==
    ASSUME NEW bytes, NEW fields, Spells(bytes, fields), NEW j \in 1 .. Len(fields),
           NEW f \in Nat, NEW b \in Bytes, fields[j] = Blob(f, b), HasMarker(b)
    PROVE  HasMarker(bytes)
<1> DEFINE tag == varint[f * Wires + 2]
           number == varint[Len(b)]
           head == tag \o number
<1>1. PICK at : Delimited(bytes, fields, at)
  BY DEF Spells
<1>2. /\ bytes \in Bytes /\ at[j] \in Place /\ Holds(bytes, at[j], Written(fields[j]))
      /\ Len(fields) \in Nat
  BY <1>1, SpeltIs DEF Delimited
<1>3. Written(fields[j]) = head \o b
  <2>1. Written(Blob(f, b)) = field_string(f, b)
    BY DEF Written, Blob
  <2>2. field_string(f, b) = head \o b
    BY DEF field_string
  <2> QED
    BY <2>1, <2>2
<1>4. tag \in Bytes /\ number \in Bytes
  <2>1. 0 \in Nat
    OBVIOUS
  <2> QED
    BY <2>1, FieldBytes
<1> HIDE DEF tag, number
<1>5. head \in Bytes /\ Len(head) \in Nat /\ head \o b \in Bytes
  BY <1>4, JoinIs, ByteIs
<1> HIDE DEF head
<1>6. Holds(head \o b, Len(head) + 1, b) /\ Len(head) + 1 \in Place
  BY <1>5, JoinHoldsBoth DEF Place
<1>7. PICK i \in Place : Holds(b, i, Marker)
  BY MarkerIs
<1>8. Marker \in Bytes /\ Len(head) + 1 + i - 1 \in Place
  BY <1>5, EventsAssumption DEF Place
<1>9. Holds(head \o b, Len(head) + 1 + i - 1, Marker)
  BY <1>5, <1>6, <1>7, <1>8, HoldsInside
<1>10. Holds(bytes, at[j] + (Len(head) + 1 + i - 1) - 1, Marker)
  BY <1>2, <1>3, <1>5, <1>8, <1>9, HoldsInside
<1>11. at[j] + (Len(head) + 1 + i - 1) - 1 \in Place
  BY <1>2, <1>8 DEF Place
<1> QED
  BY <1>2, <1>10, <1>11, MarkerIs

Ids == {IdOf[x] : x \in Shutters}

\* What is taken for a room gives no id that is not one of a shutter, and, where it is
\* all there, no error.
Fine(bytes, whole) ==
    LET room == Extract(ParseFields(bytes))
    IN  /\ ~room.raised => room.result \subseteq Ids
        /\ whole => ~room.raised

\* A value does no harm if, whole or cut short, all that is looked at in it is fine.
Harmless(full) ==
    \A v \in Bytes : Beginning(v, full) /\ HasMarker(v) =>
        \A e \in {v} \union Marked[v] : Fine(e, v = full)

\* Neither does a message with fields that do none.
LEMMA WalkIsFine ==
    ASSUME NEW full, NEW fields, Spells(full, fields),
           \A j \in 1 .. Len(fields) : Harmless(fields[j].bytes),
           NEW data, Beginning(data, full), NEW e \in Marked[data]
    PROVE  Fine(e, data = full)
<1> DEFINE all == ParseFields(data)
           read == all.result
<1>1. data \in Bytes
  BY DEF Beginning
<1>2. PICK v \in MarkedIn(data) : e \in {v} \union Marked[v]
  BY <1>1, MarkedDefined
<1>3. /\ v \in Bytes /\ HasMarker(v)
      /\ ~all.raised /\ \E j \in DOMAIN read : v = read[j].bytes
  BY <1>1, <1>2, MarkedInIs DEF Values
<1>4. /\ read \in Seq(FieldSet) /\ Len(read) \in Nat /\ Len(read) <= Len(fields)
      /\ \A j \in 1 .. Len(read) : Beginning(read[j].bytes, fields[j].bytes)
  BY <1>3, PartRead
<1>5. Len(fields) \in Nat /\ (data = full => read = fields)
  BY SpeltIs, WholeRead
<1> HIDE DEF all, read
<1>6. PICK j \in 1 .. Len(read) : v = read[j].bytes
  BY <1>3, <1>4
<1>7. /\ j \in 1 .. Len(fields) /\ Beginning(v, fields[j].bytes)
      /\ data = full => v = fields[j].bytes
  BY <1>4, <1>5, <1>6
<1>8. Fine(e, v = fields[j].bytes)
  BY <1>2, <1>3, <1>7 DEF Harmless
<1> QED
  BY <1>7, <1>8 DEF Fine

\* ... as long as it is not itself taken for a room with another id.
LEMMA NestIsHarmless ==
    ASSUME NEW full, NEW fields, Spells(full, fields),
           \A j \in 1 .. Len(fields) : Harmless(fields[j].bytes),
           \A v \in Bytes : Beginning(v, full) => Fine(v, v = full)
    PROVE  Harmless(full)
  BY WalkIsFine DEF Harmless

\* What has no name is not taken for a room.
LEMMA NamelessIsFine ==
    ASSUME NEW full, NEW fields, Spells(full, fields),
           \A j \in 1 .. Len(fields) : fields[j].field # 7,
           NEW v, Beginning(v, full), NEW whole
    PROVE  Fine(v, whole)
<1> DEFINE all == ParseFields(v)
           read == all.result
<1>1. ASSUME ~all.raised
      PROVE  BytesIn(read, 7) = {}
  <2>1. /\ read \in Seq(FieldSet) /\ Len(read) \in Nat /\ Len(read) <= Len(fields)
        /\ \A j \in 1 .. Len(read) : read[j].field = fields[j].field
    BY <1>1, PartRead
  <2>2. Len(fields) \in Nat
    BY SpeltIs
  <2> HIDE DEF read
  <2>3. \A j \in DOMAIN read : read[j].field # 7
    BY <2>1, <2>2
  <2> QED
    BY <2>3, FirstIs DEF BytesIn
<1>2. Extract(all) = Parsed({}, 0)
  BY <1>1 DEF Extract
<1> QED
  BY <1>2 DEF Fine, Parsed

\* So it does no harm if its fields do none.
LEMMA NamelessIsHarmless ==
    ASSUME NEW full, NEW fields, Spells(full, fields),
           \A j \in 1 .. Len(fields) : fields[j].field # 7 /\ Harmless(fields[j].bytes)
    PROVE  Harmless(full)
  BY NamelessIsFine, NestIsHarmless

\* An id has no marker in it.
LEMMA IdIsHarmless ==
    ASSUME MarkerStandsOut, NEW x \in Shutters
    PROVE  Harmless(IdOf[x])
  BY MarkerInBeginning DEF Harmless, MarkerStandsOut

\* Nothing is read of the marker, nor of what is too short to hold it.
LEMMA MarkerIsHarmless ==
    ASSUME MarkerStandsOut, NEW full \in Bytes, Len(full) <= Len(Marker)
    PROVE  Harmless(full)
<1> SUFFICES ASSUME NEW v \in Bytes, Beginning(v, full), HasMarker(v),
                    NEW e \in {v} \union Marked[v]
             PROVE  Fine(e, v = full)
  BY DEF Harmless
<1>1. /\ Marker \in Bytes /\ Len(Marker) \in Nat /\ Len(v) \in Nat /\ Len(full) \in Nat
      /\ Len(v) <= Len(full)
  BY ByteIs, EventsAssumption DEF Beginning
<1>2. PICK i \in Place : Holds(v, i, Marker)
  BY MarkerIs
<1>3. i = 1 /\ Len(v) = Len(Marker)
  BY <1>1, <1>2 DEF Holds, Place
<1>4. \A j \in 1 .. Len(Marker) : Marker[j] = v[j]
  BY <1>1, <1>2, <1>3 DEF Holds
<1>5. Beginning(Marker, v)
  BY <1>1, <1>3, <1>4 DEF Beginning
<1>6. v = Marker
  BY <1>3, <1>5, BeginningIsAll
<1>7. ParseFields(v).raised
  BY <1>6 DEF MarkerStandsOut
<1>8. Values(ParseFields(v)) = {}
  BY <1>7 DEF Values
<1>9. Marked[v] = {}
  <2>1. MarkedIn(v) = {}
    BY <1>8, MarkedInIs
  <2> QED
    BY <2>1, MarkedDefined
<1>10. e = v /\ Extract(ParseFields(v)) = Parsed({}, 0)
  BY <1>7, <1>9 DEF Extract
<1> QED
  BY <1>10 DEF Fine, Parsed

\* The marker itself is something.
LEMMA MarkerNotEmpty ==
    ASSUME MarkerStandsOut
    PROVE  0 < Len(Marker) /\ Harmless(<<>>) /\ Harmless(<<7>>)
<1>1. Marker \in Bytes /\ Len(Marker) \in Nat
  BY ByteIs, EventsAssumption
<1>2. 0 < Len(Marker)
  <2> SUFFICES ASSUME Len(Marker) = 0
               PROVE  FALSE
    BY <1>1
  <2>1. Marker = <<>>
    BY <1>1 DEF Bytes
  <2>2. ~ParseFields(Marker).raised
    BY <2>1, NothingSpelt, WholeRead
  <2> QED
    BY <2>2 DEF MarkerStandsOut
<1>3. <<>> \in Bytes /\ Len(<<>>) = 0
  BY DEF Bytes
<1>4. <<7>> \in Bytes /\ Len(<<7>>) = 1
  BY EventsAssumption, CodecAssumption DEF Bytes
<1>5. Harmless(<<>>)
  BY <1>1, <1>3, MarkerIsHarmless
<1>6. Harmless(<<7>>)
  <2> DEFINE seven == <<7>>
  <2>1. seven \in Bytes /\ Len(seven) = 1
    BY <1>4
  <2> HIDE DEF seven
  <2>2. Len(seven) <= Len(Marker)
    BY <1>1, <1>2, <2>1
  <2>3. Harmless(seven)
    BY <2>1, <2>2, MarkerIsHarmless
  <2> QED
    BY <2>3 DEF seven
<1> QED
  BY <1>2, <1>5, <1>6

\* A message of one field of bytes.
LEMMA WrappedIsHarmless ==
    ASSUME NEW f \in Nat, f # 7, NEW b \in Bytes, Harmless(b)
    PROVE  Harmless(field_string(f, b))
<1> DEFINE one == <<Blob(f, b)>>
<1>1. Spells(field_string(f, b), one)
  BY TextSpelt
<1>2. Len(one) = 1 /\ one[1].field = f /\ one[1].bytes = b
  BY DEF Blob
<1> HIDE DEF one
<1>3. \A j \in 1 .. Len(one) : one[j].field # 7 /\ Harmless(one[j].bytes)
  BY <1>2
<1> QED
  BY <1>1, <1>3, NamelessIsHarmless

RoomParts(x) ==
    <<Blob(2, field_string(1, IdOf[x])), Blob(7, <<7>>), Blob(8, field_string(1, Marker))>>

\* A room is made of its three fields.
LEMMA RoomSpelt ==
    ASSUME NEW x \in Shutters
    PROVE  /\ Spells(RoomText(x), RoomParts(x))
           /\ field_string(1, IdOf[x]) \in Bytes /\ field_string(1, Marker) \in Bytes
           /\ <<7>> \in Bytes
<1> DEFINE id == field_string(1, IdOf[x])
           kind == field_string(1, Marker)
           device == Blob(2, id)
           name == Blob(7, <<7>>)
           type == Blob(8, kind)
<1>1. IdOf[x] \in Bytes /\ Marker \in Bytes /\ 0 \in Nat /\ 1 \in Nat
  BY EventsAssumption
<1>2. id \in Bytes /\ kind \in Bytes
  BY <1>1, FieldBytes
<1>3. <<7>> \in Bytes
  BY EventsAssumption, CodecAssumption DEF Bytes
<1> HIDE DEF id, kind
<1>4. /\ Spells(field_string(2, id), <<device>>)
      /\ Spells(field_string(7, <<7>>), <<name>>)
      /\ Spells(field_string(8, kind), <<type>>)
  <2>1. 2 \in Nat /\ 7 \in Nat /\ 8 \in Nat
    OBVIOUS
  <2> QED
    BY <1>2, <1>3, <2>1, TextSpelt
<1> HIDE DEF device, name, type
<1>5. Spells(field_string(2, id) \o field_string(7, <<7>>), <<device>> \o <<name>>)
  BY <1>4, JoinSpelt
<1>6. Spells(field_string(2, id) \o field_string(7, <<7>>), <<device, name>>)
  BY <1>5, Pair
<1>7. Spells((field_string(2, id) \o field_string(7, <<7>>)) \o field_string(8, kind),
             <<device, name>> \o <<type>>)
  BY <1>4, <1>6, JoinSpelt
<1>8. Spells(RoomText(x), <<device, name, type>>)
  BY <1>7, Triple DEF RoomText, id, kind
<1> QED
  BY <1>2, <1>3, <1>8 DEF RoomParts, id, kind, device, name, type

\* The id of the device, if anything is given.
LEMMA DeviceIs ==
    ASSUME NEW types, NEW device, ~device.raised, NEW id, IdIn(device.result) = {id}
    PROVE  LET found == DeviceIn(types, {device})
           IN  /\ ~found.raised => found.result \subseteq {id}
               /\ \A type : types = {type} /\ ~type.raised /\ BytesIn(type.result, 1) = {Marker}
                      => found = Parsed({id}, 0)
  BY DEF DeviceIn, Parsed, Raised

\* Of what is left of a room, if it has a name, the whole device is read.
LEMMA DeviceRead ==
    ASSUME MarkerStandsOut, NEW x \in Shutters, NEW v, Beginning(v, RoomText(x)),
           ~ParseFields(v).raised, BytesIn(ParseFields(v).result, 7) # {}
    PROVE  \E device : /\ MessagesIn(ParseFields(v).result, 2) = {device}
                       /\ ~device.raised /\ IdIn(device.result) = {IdOf[x]}
<1> DEFINE read == ParseFields(v).result
           parts == RoomParts(x)
           text == field_string(1, IdOf[x])
           device == ParseFields(text)
<1>1. Spells(RoomText(x), parts) /\ IdOf[x] \in Bytes
  BY RoomSpelt, EventsAssumption
<1>2. Len(parts) = 3 /\ parts[1] = Blob(2, text) /\ parts[2].field = 7 /\ parts[3].field = 8
  BY DEF RoomParts, Blob
<1> HIDE DEF parts
<1>3. /\ read \in Seq(FieldSet) /\ Len(read) \in Nat /\ Len(read) <= Len(parts)
      /\ \A j \in 1 .. Len(read) :
             read[j].field = parts[j].field /\ (j < Len(read) => read[j] = parts[j])
  BY <1>1, PartRead
<1>4. DOMAIN read = 1 .. Len(read)
  BY <1>3
<1>5. ~device.raised /\ BytesIn(device.result, 1) = {IdOf[x]}
  BY <1>1, WrappedRead
<1>6. IdIn(device.result) = {IdOf[x]}
  BY <1>5 DEF IdIn, MarkerStandsOut
<1>7. PICK i \in DOMAIN read : read[i].field = 7
  BY FirstIs DEF BytesIn
<1> HIDE DEF read, text, device
<1>8. parts[1].field = 2 /\ parts[1].wire = 2 /\ parts[1].bytes = text
  BY <1>2 DEF Blob
<1>9. 1 < Len(read) /\ read[1] = parts[1]
  <2>1. i # 1 /\ i \in 1 .. Len(read)
    BY <1>3, <1>4, <1>7, <1>8
  <2>2. 1 < Len(read) /\ 1 \in 1 .. Len(read)
    BY <1>3, <2>1
  <2> QED
    BY <1>3, <2>2
<1>10. \A j \in DOMAIN read : read[j].field = 2 => j = 1
  <2> SUFFICES ASSUME NEW j \in DOMAIN read, read[j].field = 2
               PROVE  j = 1
    OBVIOUS
  <2>1. j \in 1 .. 3 /\ parts[j].field = 2
    BY <1>2, <1>3, <1>4
  <2> QED
    BY <1>2, <2>1
<1>11. First(read, 2, 2) = {read[1]}
  <2>1. DOMAIN read \subseteq Nat /\ 1 \in DOMAIN read
    BY <1>3, <1>4, <1>9
  <2>2. read[1].field = 2 /\ read[1].wire = 2 /\ 1 \in Nat /\ 2 \in Nat
    BY <1>8, <1>9
  <2> QED
    BY <1>10, <2>1, <2>2, FirstOfOne
<1>12. BytesIn(read, 2) = {text}
  BY <1>8, <1>9, <1>11 DEF BytesIn
<1>13. MessagesIn(read, 2) = {device}
  BY <1>12 DEF MessagesIn, device
<1> QED
  BY <1>5, <1>6, <1>13 DEF read

\* Of a whole room the id is read.
LEMMA RoomWhole ==
    ASSUME MarkerStandsOut, NEW x \in Shutters
    PROVE  Extract(ParseFields(RoomText(x))) = Parsed({IdOf[x]}, 0)
<1> DEFINE room == ParseFields(RoomText(x))
           parts == RoomParts(x)
           text == field_string(1, Marker)
           type == ParseFields(text)
<1>1. ~room.raised /\ room.result = parts /\ RoomText(x) \in Bytes
  BY RoomSpelt, WholeRead, SpeltIs
<1>2. /\ DOMAIN parts = 1 .. 3
      /\ parts[1].field = 2
      /\ parts[2].field = 7 /\ parts[2].wire = 2
      /\ parts[3].field = 8 /\ parts[3].wire = 2 /\ parts[3].bytes = text
  BY DEF RoomParts, Blob
<1> HIDE DEF room, parts, text
<1>3. First(parts, 7, 2) = {parts[2]} /\ First(parts, 8, 2) = {parts[3]}
  <2>1. DOMAIN parts \subseteq Nat /\ 2 \in DOMAIN parts /\ 3 \in DOMAIN parts
    BY <1>2
  <2>2. \A j \in DOMAIN parts : j = 1 \/ j = 2 \/ j = 3
    BY <1>2
  <2>3. /\ \A j \in DOMAIN parts : parts[j].field = 7 => j = 2
        /\ \A j \in DOMAIN parts : parts[j].field = 8 => j = 3
    BY <1>2, <2>2
  <2>4. First(parts, 7, 2) = {parts[2]}
    BY <1>2, <2>1, <2>3, FirstOfOne
  <2>5. First(parts, 8, 2) = {parts[3]}
    BY <1>2, <2>1, <2>3, FirstOfOne
  <2> QED
    BY <2>4, <2>5
<1>4. BytesIn(parts, 7) # {} /\ MessagesIn(parts, 8) = {type}
  BY <1>2, <1>3 DEF BytesIn, MessagesIn
<1>5. ~type.raised /\ BytesIn(type.result, 1) = {Marker}
  BY WrappedRead, EventsAssumption DEF text
<1>6. Beginning(RoomText(x), RoomText(x))
  BY <1>1, ByteIs DEF Beginning
<1>7. PICK device : /\ MessagesIn(parts, 2) = {device}
                    /\ ~device.raised /\ IdIn(device.result) = {IdOf[x]}
  BY <1>1, <1>4, <1>6, DeviceRead DEF room
<1> HIDE DEF type
<1>8. DeviceIn({type}, {device}) = Parsed({IdOf[x]}, 0)
  BY <1>5, <1>7, DeviceIs
<1>9. Extract(room) = DeviceIn({type}, {device})
  BY <1>1, <1>4, <1>7 DEF Extract
<1> QED
  BY <1>8, <1>9 DEF room

\* A room does no harm, wherever it is cut.
LEMMA RoomIsHarmless ==
    ASSUME MarkerStandsOut, NEW x \in Shutters
    PROVE  Harmless(RoomText(x))
<1> DEFINE parts == RoomParts(x)
<1>1. Harmless(field_string(1, IdOf[x])) /\ Harmless(field_string(1, Marker))
  <2>1. IdOf[x] \in Bytes /\ Marker \in Bytes /\ Len(Marker) \in Nat /\ 1 \in Nat
    BY ByteIs, EventsAssumption
  <2> QED
    BY <2>1, IdIsHarmless, MarkerIsHarmless, WrappedIsHarmless
<1>2. /\ Len(parts) = 3
      /\ parts[1].bytes = field_string(1, IdOf[x])
      /\ parts[2].bytes = <<7>> /\ parts[3].bytes = field_string(1, Marker)
  BY DEF RoomParts, Blob
<1> HIDE DEF parts
<1>3. \A j \in 1 .. Len(parts) : Harmless(parts[j].bytes)
  <2>1. \A j \in 1 .. Len(parts) : j = 1 \/ j = 2 \/ j = 3
    BY <1>2
  <2> QED
    BY <1>1, <1>2, <2>1, MarkerNotEmpty
<1>4. ASSUME NEW v \in Bytes, Beginning(v, RoomText(x))
      PROVE  Fine(v, v = RoomText(x))
  <2> DEFINE room == ParseFields(v)
  <2>1. CASE v = RoomText(x)
    BY <2>1, RoomWhole DEF Fine, Ids, Parsed
  <2>2. CASE v # RoomText(x)
    <3>1. CASE room.raised \/ BytesIn(room.result, 7) = {}
      BY <2>2, <3>1 DEF Fine, Extract, Parsed
    <3>2. CASE ~room.raised /\ BytesIn(room.result, 7) # {}
      <4>1. PICK device : /\ MessagesIn(room.result, 2) = {device}
                          /\ ~device.raised /\ IdIn(device.result) = {IdOf[x]}
        BY <1>4, <3>2, DeviceRead
      <4> DEFINE found == DeviceIn(MessagesIn(room.result, 8), {device})
      <4>2. ~found.raised => found.result \subseteq {IdOf[x]}
        BY <4>1, DeviceIs
      <4>3. Extract(room) = found
        BY <3>2, <4>1 DEF Extract
      <4> HIDE DEF found
      <4> QED
        BY <2>2, <4>2, <4>3 DEF Fine, Ids
    <3> QED
      BY <3>1, <3>2
  <2> QED
    BY <2>1, <2>2
<1>5. Spells(RoomText(x), parts)
  BY RoomSpelt DEF parts
<1> QED
  BY <1>3, <1>4, <1>5, NestIsHarmless

\* A state has neither a name nor a marker.
LEMMA StateIsHarmless ==
    ASSUME MarkerStandsOut, NEW x \in Shutters, NEW n \in Nat
    PROVE  Harmless(StateText(x, n))
<1> DEFINE parts == StateParts(x, n)
           one == <<Value(1, n)>>
<1>1. Spells(StateText(x, n), parts) /\ Spells(PositionText(n), one)
  BY StateSpelt
<1>2. /\ Len(parts) = 3
      /\ parts[1].field = 1 /\ parts[1].bytes = IdOf[x]
      /\ parts[2].field = 12 /\ parts[2].bytes = <<>>
      /\ parts[3].field = 13 /\ parts[3].bytes = PositionText(n)
      /\ Len(one) = 1 /\ one[1].field = 1 /\ one[1].bytes = <<>>
  BY DEF StateParts, Blob, Value
<1> HIDE DEF parts, one
<1>3. Harmless(PositionText(n))
  <2>1. \A j \in 1 .. Len(one) : one[j].field # 7 /\ Harmless(one[j].bytes)
    BY <1>2, MarkerNotEmpty
  <2> QED
    BY <1>1, <2>1, NamelessIsHarmless
<1>4. \A j \in 1 .. Len(parts) : parts[j].field # 7 /\ Harmless(parts[j].bytes)
  <2>1. \A j \in 1 .. Len(parts) : j = 1 \/ j = 2 \/ j = 3
    BY <1>2
  <2> QED
    BY <1>2, <1>3, <2>1, IdIsHarmless, MarkerNotEmpty
<1> QED
  BY <1>1, <1>4, NamelessIsHarmless

\* Whatever has arrived of a plant, nothing that is looked at in it gives the id of
\* something else; and the whole gives no error.
LEMMA PlantIsFine ==
    ASSUME MarkerStandsOut, NEW position \in [Shutters -> Reported],
           NEW body, NEW parts, Spells(body, parts), Covers(parts, position, Shutters),
           NEW data, Beginning(data, field_string(3, body)), NEW e \in Marked[data]
    PROVE  Fine(e, data = field_string(3, body))
<1> DEFINE one == <<Blob(3, body)>>
<1>1. ASSUME NEW j \in 1 .. Len(parts)
      PROVE  parts[j].field # 7 /\ Harmless(parts[j].bytes)
  <2>1. PICK x \in Shutters : parts[j] \in PartsOf(x, position[x])
    BY <1>1 DEF Covers, PlantPart
  <2>2. Harmless(RoomText(x)) /\ Harmless(StateText(x, position[x]))
    BY RoomIsHarmless, StateIsHarmless, EventsAssumption
  <2> QED
    BY <2>1, <2>2 DEF PartsOf, Blob
<1>2. Harmless(body)
  BY <1>1, NamelessIsHarmless
<1>3. Spells(field_string(3, body), one)
  BY SpeltIs, TextSpelt
<1>4. Len(one) = 1 /\ one[1].bytes = body
  BY DEF Blob
<1> HIDE DEF one
<1>5. \A j \in 1 .. Len(one) : Harmless(one[j].bytes)
  BY <1>2, <1>4
<1> QED
  BY <1>3, <1>5, WalkIsFine

\* The marker of a room is found in the plant, and with it the room.
LEMMA RoomIsMarked ==
    ASSUME NEW position \in [Shutters -> Reported],
           NEW body, NEW parts, Spells(body, parts), Covers(parts, position, Shutters),
           NEW x \in Shutters
    PROVE  RoomText(x) \in Marked[field_string(3, body)]
<1> DEFINE kind == field_string(1, Marker)
           room == RoomText(x)
           payload == field_string(3, body)
           one == <<Blob(1, Marker)>>
           inner == RoomParts(x)
<1>1. Marker \in Bytes /\ Len(Marker) \in Nat
  BY ByteIs, EventsAssumption
<1>2. HasMarker(Marker)
  <2>1. Holds(Marker, 1, Marker) /\ 1 \in Place
    BY <1>1 DEF Holds, Place
  <2> QED
    BY <1>1, <2>1, MarkerIs
<1>3. HasMarker(kind)
  <2>1. Spells(kind, one)
    BY <1>1, TextSpelt
  <2>2. 1 \in 1 .. Len(one) /\ one[1] = Blob(1, Marker)
    OBVIOUS
  <2> HIDE DEF one, kind
  <2> QED
    BY <1>1, <1>2, <2>1, <2>2, MarkerInField
<1>4. HasMarker(room)
  <2>1. Spells(room, inner) /\ kind \in Bytes
    BY RoomSpelt
  <2>2. 3 \in 1 .. Len(inner) /\ inner[3] = Blob(8, kind)
    BY DEF RoomParts
  <2> HIDE DEF inner, kind, room
  <2> QED
    BY <1>3, <2>1, <2>2, MarkerInField
<1>5. room \in Bytes /\ body \in Bytes /\ Len(parts) \in Nat /\ parts \in Seq(FieldSet)
  BY RoomSpelt, SpeltIs
<1>6. PICK i \in 1 .. Len(parts) : parts[i] = Blob(11, room)
  BY DEF Covers, PartsOf
<1>7. HasMarker(body)
  <2> HIDE DEF room
  <2> QED
    BY <1>4, <1>5, <1>6, MarkerInField
<1>8. room \in MarkedIn(body)
  <2>1. ~ParseFields(body).raised /\ ParseFields(body).result = parts
    BY WholeRead
  <2>2. i \in DOMAIN parts /\ parts[i].bytes = room
    BY <1>5, <1>6 DEF Blob
  <2>3. room \in Values(ParseFields(body))
    BY <2>1, <2>2 DEF Values
  <2> QED
    BY <1>4, <1>5, <2>3, MarkedInIs
<1>9. body \in MarkedIn(payload) /\ payload \in Bytes
  <2>1. body \in Values(ParseFields(payload))
    BY <1>5, WrappedRead
  <2>2. payload \in Bytes
    BY <1>5, TextSpelt, SpeltIs
  <2> QED
    BY <1>7, <2>1, <2>2, MarkedInIs
<1>10. room \in Marked[body]
  BY <1>5, <1>8, MarkedDefined
<1> QED
  BY <1>9, <1>10, MarkedDefined

\* parse_plant lists no shutter that there is not, wherever the answer was cut, in a
\* room, in a device or in an id; and of a whole answer it fails on nothing and lists
\* them all, for any number of shutters.
THEOREM AllAreListed ==
    ASSUME MarkerStandsOut
    PROVE  Spec => []ListsTheShutters
<1>1. ASSUME EventsInv
      PROVE  ListsTheShutters
  <2> DEFINE payload == Received
             rooms == Rooms(payload)
             found == Listed(payload)
             top == ParseFields(payload)
  <2> SUFFICES ASSUME sent.kind = "plant"
               PROVE  /\ ~found.raised => found.result \subseteq Ids
                      /\ cut = Len(sent.bytes) => ~found.raised /\ found.result = Ids
    BY DEF ListsTheShutters, Ids
  <2> DEFINE position == sent.position
  <2>1. position \in [Shutters -> Reported] /\ sent = Plant(position)
    BY <1>1, PlantOfSent
  <2>2. PICK body, parts :
            /\ Spells(body, parts) /\ Covers(parts, position, Shutters)
            /\ Plant(position).bytes = field_string(3, body)
    BY <2>1, PlantMade
  <2>3. /\ Beginning(payload, field_string(3, body))
        /\ cut = Len(sent.bytes) => payload = field_string(3, body)
    BY <1>1, <2>1, <2>2, ReceivedIs
  <2> HIDE DEF payload, position
  <2>4. \A v \in Marked[payload] : Fine(v, payload = field_string(3, body))
    BY <2>1, <2>2, <2>3, PlantIsFine
  <2>5. \A room \in rooms : /\ ~room.raised => room.result \subseteq Ids
                            /\ payload = field_string(3, body) => ~room.raised
    BY <2>4 DEF Rooms, Fine
  <2>6. found = ListedIn(top, rooms)
    BY DEF Listed
  <2> HIDE DEF found, rooms, top
  <2>7. ASSUME ~found.raised
        PROVE  found.result \subseteq Ids
    <3>1. /\ found = Parsed(UNION {room.result : room \in rooms}, 0)
          /\ ~\E room \in rooms : room.raised
      BY <2>6, <2>7 DEF ListedIn, Raised
    <3>2. found.result = UNION {room.result : room \in rooms}
      BY <3>1 DEF Parsed
    <3> QED
      BY <2>5, <3>1, <3>2
  <2>8. ASSUME cut = Len(sent.bytes)
        PROVE  ~found.raised /\ found.result = Ids
    <3>1. payload = field_string(3, body) /\ body \in Bytes
      BY <2>2, <2>3, <2>8, SpeltIs
    <3>2. ~top.raised /\ NumberIn(top.result, 3) = {} /\ BytesIn(top.result, 3) = {body}
      BY <3>1, WrappedRead DEF top
    <3>3. ~ParseFields(body).raised /\ ParseFields(body).result = parts /\ parts \in Seq(FieldSet)
      BY <2>2, WholeRead
    <3>4. NumberIn(parts, 2) = {}
      <4>1. \A j \in DOMAIN parts : parts[j].field # 2
        <5> SUFFICES ASSUME NEW j \in DOMAIN parts
                     PROVE  parts[j].field # 2
          OBVIOUS
        <5>1. PICK x \in Shutters : parts[j] \in PartsOf(x, position[x])
          BY <2>2, <3>3 DEF Covers, PlantPart
        <5> QED
          BY <5>1 DEF PartsOf, Blob
      <4> QED
        BY <4>1, FirstIs DEF NumberIn
    <3>5. MessagesIn(top.result, 3) = {ParseFields(body)}
      BY <3>2 DEF MessagesIn
    <3>6. ~\E room \in rooms : room.raised
      BY <2>5, <3>1
    <3>7. found = Parsed(UNION {room.result : room \in rooms}, 0)
      BY <2>6, <3>2, <3>3, <3>4, <3>5, <3>6 DEF ListedIn
    <3>8. ~found.raised /\ found.result = UNION {room.result : room \in rooms}
      BY <3>7 DEF Parsed
    <3>9. ASSUME NEW x \in Shutters
          PROVE  Parsed({IdOf[x]}, 0) \in rooms
      <4>1. RoomText(x) \in Marked[payload]
        BY <2>1, <2>2, <3>1, RoomIsMarked
      <4>2. Extract(ParseFields(RoomText(x))) = Parsed({IdOf[x]}, 0)
        BY RoomWhole
      <4>3. Extract(ParseFields(RoomText(x))) \in rooms
        BY <4>1, Zenon DEF rooms, Rooms
      <4> QED
        BY <4>2, <4>3
    <3>10. Ids \subseteq found.result
      <4> SUFFICES ASSUME NEW x \in Shutters
                   PROVE  IdOf[x] \in found.result
        BY DEF Ids
      <4> DEFINE room == Parsed({IdOf[x]}, 0)
      <4>1. room \in rooms /\ IdOf[x] \in room.result
        BY <3>9 DEF Parsed
      <4> HIDE DEF room
      <4> QED
        BY <3>8, <4>1
    <3> QED
      BY <2>7, <3>8, <3>10
  <2> QED
    BY <2>7, <2>8
<1> QED
  BY <1>1, EventsInvariance, PTL

=============================================================================
