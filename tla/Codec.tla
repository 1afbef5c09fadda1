--------------------------------- MODULE Codec ---------------------------------
(***************************************************************************)
(* api/proto.py: varints, and the fields of a message.  A byte holds a     *)
(* digit below Group, and the continuation bit counts Group; Group is 128  *)
(* and Wires is 8 in the code.  Positions start at 1.                      *)
(***************************************************************************)
EXTENDS Naturals, Sequences

CONSTANTS
    Group,
    Wires

ASSUME CodecAssumption == Group \in Nat \ {0, 1} /\ Wires \in Nat \ {0, 1, 2}

Bytes == Seq(0 .. 2 * Group - 1)

varint[n \in Nat] ==
    IF n < Group THEN <<n>> ELSE <<(n % Group) + Group>> \o varint[n \div Group]

field_string(field, value) == varint[field * Wires + 2] \o varint[Len(value)] \o value

field_varint(field, value) == varint[field * Wires] \o varint[value]

-----------------------------------------------------------------------------
\* IndexError or ValueError.
Raised == [raised |-> TRUE]

Parsed(result, next) == [raised |-> FALSE, result |-> result, next |-> next]

\* Seeded fault: the first digit is taken for the most significant one.
ParseVarintBackwards(data, from) ==
    LET parse[pos \in Nat \ {0}] ==
            IF pos > Len(data) THEN Raised
            ELSE IF data[pos] < Group THEN Parsed(data[pos], pos + 1)
            ELSE LET rest == parse[pos + 1]
                 IN  IF rest.raised THEN Raised
                     ELSE Parsed((data[pos] - Group) * Group + rest.result, rest.next)
    IN  parse[from]

\* Reading past the end raises; a varint may be longer than it needs to be.
ParseVarint(data, from) ==
    LET parse[pos \in Nat \ {0}] ==
            IF pos > Len(data) THEN Raised
            ELSE IF data[pos] < Group THEN Parsed(data[pos], pos + 1)
            ELSE LET rest == parse[pos + 1]
                 IN  IF rest.raised THEN Raised
                     ELSE Parsed(data[pos] - Group + Group * rest.result, rest.next)
    IN  parse[from]

\* A value is a number (wire type 0) or bytes (wire type 2).
Value(field, number) == [field |-> field, wire |-> 0, number |-> number, bytes |-> <<>>]
Blob(field, bytes)   == [field |-> field, wire |-> 2, number |-> 0, bytes |-> bytes]

\* A slice stops at the end of the data, whatever the length says.
Slice(data, from, length) ==
    SubSeq(data, from, IF from + length - 1 < Len(data) THEN from + length - 1 ELSE Len(data))

\* What follows a tag, and the field that starts at a position, each with the
\* position after it.
FieldOf(data, field, wire, value) ==
    IF value.raised THEN Raised
    ELSE IF wire = 0 THEN Parsed(Value(field, value.result), value.next)
    ELSE Parsed(Blob(field, Slice(data, value.next, value.result)), value.next + value.result)

FieldAfter(data, tag) ==
    IF tag.raised \/ tag.result % Wires \notin {0, 2} THEN Raised
    ELSE FieldOf(data, tag.result \div Wires, tag.result % Wires, ParseVarint(data, tag.next))

ParseField(data, from) == FieldAfter(data, ParseVarint(data, from))

\* parse_fields: the fields in their order, or nothing at all.
Prepend(field, rest) ==
    IF rest.raised THEN Raised ELSE Parsed(<<field>> \o rest.result, rest.next)

ParseFields(data) ==
    LET parse[pos \in Nat \ {0}] ==
            IF pos > Len(data) THEN Parsed(<<>>, pos)
            ELSE LET first == ParseField(data, pos)
                 IN  IF first.raised THEN Raised ELSE Prepend(first.result, parse[first.next])
    IN  parse[1]
=============================================================================
