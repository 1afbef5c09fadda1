------------------------------ MODULE CodecProofs -----------------------------
(***************************************************************************)
(* What TLAPS proves of the codec, for every base and number of wire       *)
(* types: that what is written is what is read.                            *)
(***************************************************************************)
EXTENDS Codec, MeasureRecursion, SequenceTheorems

\* Division with a rest, ...
LEMMA Division ==
    ASSUME NEW d \in Nat \ {0}, NEW n \in Nat
    PROVE  /\ n \div d \in Nat /\ n % d \in 0 .. d - 1
           /\ n = d * (n \div d) + (n % d)
  OBVIOUS

\* What is divided gets smaller.
LEMMA QuotientShrinks ==
    ASSUME NEW d \in Nat \ {0, 1}, NEW n \in Nat \ {0}
    PROVE  n \div d < n
<1>1. n \div d \in Nat /\ n % d \in 0 .. d - 1 /\ n = d * (n \div d) + (n % d)
  BY Division
<1>2. n \div d = 0 \/ d * (n \div d) >= 2 * (n \div d)
  BY <1>1
<1> QED
  BY <1>1, <1>2

\* ... which there is only one of.
LEMMA DivisionUnique ==
    ASSUME NEW d \in Nat \ {0}, NEW q \in Nat, NEW r \in 0 .. d - 1
    PROVE  (q * d + r) \div d = q /\ (q * d + r) % d = r
<1> DEFINE n == q * d + r
<1>1. n \in Nat /\ n = d * q + r
  OBVIOUS
<1> HIDE DEF n
<1>2. n \div d \in Nat /\ n % d \in 0 .. d - 1 /\ n = d * (n \div d) + (n % d)
  BY <1>1, Division
<1>3. ASSUME NEW a \in Nat, NEW b \in Nat, NEW x \in 0 .. d - 1, NEW y \in 0 .. d - 1,
             d * a + x = d * b + y, a < b
      PROVE  FALSE
  <2>1. d * b >= d * (a + 1) /\ d * (a + 1) = d * a + d
    BY <1>3
  <2> QED
    BY <1>3, <2>1
<1>4. q = n \div d
  BY <1>1, <1>2, <1>3
<1>5. n % d = r
  BY <1>1, <1>2, <1>4
<1> QED
  BY <1>4, <1>5 DEF n

\* The last digit of a number, and the others, which are a smaller number.
LEMMA Digits ==
    ASSUME NEW n \in Nat
    PROVE  /\ n \div Group \in Nat /\ n % Group \in 0 .. Group - 1
           /\ n = Group * (n \div Group) + (n % Group)
           /\ ~(n < Group) => n \div Group < n
<1>1. Group \in Nat \ {0} /\ Group \in Nat \ {0, 1}
  BY CodecAssumption
<1>2. CASE n = 0
  BY <1>1, <1>2, Division
<1>3. CASE n \in Nat \ {0}
  BY <1>1, <1>3, Division, QuotientShrinks
<1> QED
  BY <1>2, <1>3

VarintStep == [f \in [Nat -> Bytes] |->
                 [n \in Nat |-> IF n < Group THEN <<n>>
                                ELSE <<(n % Group) + Group>> \o f[n \div Group]]]

\* Its values are bytes.
LEMMA VarintTypes == VarintStep \in [[Nat -> Bytes] -> [Nat -> Bytes]]
<1> USE CodecAssumption
<1> SUFFICES ASSUME NEW f \in [Nat -> Bytes], NEW n \in Nat
             PROVE  (IF n < Group THEN <<n>>
                                ELSE <<(n % Group) + Group>> \o f[n \div Group]) \in Bytes
  BY DEF VarintStep
<1>1. n \div Group \in Nat /\ n % Group \in 0 .. Group - 1
  BY Digits
<1>2. f[n \div Group] \in Bytes
  BY <1>1
<1>3. n < Group => <<n>> \in Bytes
  BY DEF Bytes
<1>4. (n % Group) + Group \in 0 .. 2 * Group - 1
  BY <1>1
<1>5. <<(n % Group) + Group>> \in Bytes
  BY <1>4 DEF Bytes
<1>6. <<(n % Group) + Group>> \o f[n \div Group] \in Bytes
  BY <1>2, <1>5 DEF Bytes
<1> QED
  BY <1>3, <1>6

\* What the definition of varint says of its values.
LEMMA VarintDefined ==
    /\ varint \in [Nat -> Bytes]
    /\ \A n \in Nat : varint[n] = IF n < Group THEN <<n>>
                                  ELSE <<(n % Group) + Group>> \o varint[n \div Group]
<1> USE CodecAssumption
<1> DEFINE m == [n \in Nat |-> n]
<1>1. m \in [Nat -> Nat] /\ Bytes # {}
  <2>1. <<>> \in Bytes
    BY DEF Bytes
  <2> QED
    BY <2>1
<1>2. Local(VarintStep, Nat, Bytes, m)
  <2> SUFFICES ASSUME NEW g \in [Nat -> Bytes], NEW h \in [Nat -> Bytes], NEW n \in Nat,
                      \A r \in Nat : m[r] < m[n] => g[r] = h[r]
               PROVE  VarintStep[g][n] = VarintStep[h][n]
    BY DEF Local
  <2>1. CASE n < Group
    BY <2>1 DEF VarintStep
  <2>2. CASE ~(n < Group)
    <3>1. n \div Group < n /\ n \div Group \in Nat
      BY <2>2, Digits
    <3>2. g[n \div Group] = h[n \div Group]
      BY <3>1
    <3> QED
      BY <3>2 DEF VarintStep
  <2> QED
    BY <2>1, <2>2
<1>3. \E f \in [Nat -> Bytes] : f = VarintStep[f]
  <2> HIDE DEF m
  <2>1. WellDefined(VarintStep, Nat, Bytes, m)
    BY <1>1, <1>2, VarintTypes DEF WellDefined
  <2> QED
    BY <2>1, Recursion
<1>4. PICK f \in [Nat -> Bytes] : f = VarintStep[f]
  BY <1>3
<1>5. VarintStep[f] = [n \in Nat |-> IF n < Group THEN <<n>>
                                ELSE <<(n % Group) + Group>> \o f[n \div Group]]
  BY Zenon DEF VarintStep
<1>6. f = [n \in Nat |-> IF n < Group THEN <<n>>
                                ELSE <<(n % Group) + Group>> \o f[n \div Group]]
  BY <1>4, <1>5
<1>7. varint = [n \in Nat |-> IF n < Group THEN <<n>>
                                ELSE <<(n % Group) + Group>> \o varint[n \div Group]]
  BY <1>6, Zenon DEF varint
<1>8. \A n \in Nat : varint[n] = IF n < Group THEN <<n>>
                                 ELSE <<(n % Group) + Group>> \o varint[n \div Group]
  BY <1>7
<1> DEFINE Typed == {n \in Nat : varint[n] \in Bytes}
<1>9. ASSUME NEW n \in Nat, \A k \in Nat : m[k] < m[n] => k \in Typed
      PROVE  n \in Typed
  <2>1. CASE n < Group
    <3>1. <<n>> \in Bytes
      BY <2>1 DEF Bytes
    <3> QED
      BY <1>8, <2>1, <3>1
  <2>2. CASE ~(n < Group)
    <3>1. n \div Group < n /\ n \div Group \in Nat /\ (n % Group) + Group \in 0 .. 2 * Group - 1
      BY <2>2, Digits
    <3>2. varint[n \div Group] \in Bytes
      BY <1>9, <3>1
    <3>4. <<(n % Group) + Group>> \in Bytes
      BY <3>1 DEF Bytes
    <3>3. <<(n % Group) + Group>> \o varint[n \div Group] \in Bytes
      BY <3>2, <3>4 DEF Bytes
    <3> QED
      BY <1>8, <2>2, <3>3
  <2> QED
    BY <2>1, <2>2
<1> HIDE DEF m, Typed
<1>10. Nat \subseteq Typed
  BY <1>1, <1>9, MeasureInduction
<1> QED
  BY <1>7, <1>8, <1>10 DEF Typed

\* What a parser that reads values of A may end with.
Outcomes(A) == {Raised} \union {Parsed(a, n) : a \in A, n \in Nat \ {0}}

\* An outcome is a failure, or a value with the position after it.
LEMMA OutcomeIs ==
    ASSUME NEW A, NEW o \in Outcomes(A)
    PROVE  \/ o = Raised /\ o.raised = TRUE
           \/ /\ o.raised = FALSE /\ o.result \in A /\ o.next \in Nat \ {0}
              /\ o = Parsed(o.result, o.next)
  BY DEF Outcomes, Raised, Parsed

\* A value with a position is an outcome.
LEMMA OutcomeOf ==
    ASSUME NEW A, NEW a \in A, NEW n \in Nat \ {0}
    PROVE  Parsed(a, n) \in Outcomes(A) /\ Raised \in Outcomes(A)
  BY DEF Outcomes

Place == Nat \ {0}

\* Bytes have a length, and are digits.
LEMMA ByteIs ==
    ASSUME NEW data \in Bytes
    PROVE  Len(data) \in Nat /\ \A i \in 1 .. Len(data) : data[i] \in 0 .. 2 * Group - 1
  BY CodecAssumption DEF Bytes

VarintReadAt(data, pos, rest) ==
    IF pos > Len(data) THEN Raised
    ELSE IF data[pos] < Group THEN Parsed(data[pos], pos + 1)
    ELSE IF rest.raised THEN Raised
         ELSE Parsed(data[pos] - Group + Group * rest.result, rest.next)

\* It is an outcome if the rest is one.
LEMMA VarintReadTyped ==
    ASSUME NEW data \in Bytes, NEW pos \in Place, NEW rest \in Outcomes(Nat)
    PROVE  VarintReadAt(data, pos, rest) \in Outcomes(Nat)
<1>1. CASE pos > Len(data)
  BY <1>1, OutcomeOf DEF VarintReadAt, Outcomes
<1>2. CASE ~(pos > Len(data))
  <2>1. data[pos] \in Nat /\ pos + 1 \in Nat \ {0}
    BY <1>2, ByteIs DEF Bytes, Place
  <2>2. CASE data[pos] < Group
    <3>1. VarintReadAt(data, pos, rest) = Parsed(data[pos], pos + 1)
      BY <1>2, <2>2 DEF VarintReadAt
    <3> QED
      BY <2>1, <3>1, OutcomeOf
  <2>3. CASE ~(data[pos] < Group) /\ rest.raised
    BY <1>2, <2>3 DEF VarintReadAt, Outcomes
  <2>4. CASE ~(data[pos] < Group) /\ ~rest.raised
    <3>1. rest.result \in Nat /\ rest.next \in Nat \ {0}
      BY <2>4, OutcomeIs
    <3>2. data[pos] - Group + Group * rest.result \in Nat
      BY <2>1, <2>4, <3>1, CodecAssumption
    <3> QED
      BY <1>2, <2>4, <3>1, <3>2, OutcomeOf DEF VarintReadAt
  <2> QED
    BY <2>2, <2>3, <2>4
<1> QED
  BY <1>1, <1>2

\* How many bytes are left.
Left(data) == [pos \in Place |-> IF pos > Len(data) THEN 0 ELSE Len(data) + 1 - pos]

\* There is less left further on.
LEMMA LeftShrinks ==
    ASSUME NEW data \in Bytes
    PROVE  /\ Left(data) \in [Place -> Nat]
           /\ \A p, q \in Place : p <= Len(data) /\ p < q => Left(data)[q] < Left(data)[p]
  BY DEF Bytes, Left, Place

\* What the definition of ParseVarint says of its values.
LEMMA ParseVarintDefined ==
    ASSUME NEW data \in Bytes, NEW pos \in Place
    PROVE  /\ ParseVarint(data, pos) \in Outcomes(Nat)
           /\ ParseVarint(data, pos) = VarintReadAt(data, pos, ParseVarint(data, pos + 1))
<1> USE CodecAssumption
<1> DEFINE D == [f \in [Place -> Outcomes(Nat)] |->
                   [p \in Place |-> VarintReadAt(data, p, f[p + 1])]]
           m == Left(data)
<1>1. D \in [[Place -> Outcomes(Nat)] -> [Place -> Outcomes(Nat)]]
  <2> SUFFICES ASSUME NEW f \in [Place -> Outcomes(Nat)], NEW p \in Place
               PROVE  VarintReadAt(data, p, f[p + 1]) \in Outcomes(Nat)
    OBVIOUS
  <2>1. p + 1 \in Place
    BY DEF Place
  <2> QED
    BY <2>1, VarintReadTyped
<1>2. Local(D, Place, Outcomes(Nat), m)
  <2> SUFFICES ASSUME NEW g \in [Place -> Outcomes(Nat)], NEW h \in [Place -> Outcomes(Nat)],
                      NEW p \in Place, \A r \in Place : m[r] < m[p] => g[r] = h[r]
               PROVE  D[g][p] = D[h][p]
    BY DEF Local
  <2>1. p + 1 \in Place /\ p < p + 1
    BY DEF Place
  <2>2. CASE p > Len(data)
    BY <2>2 DEF VarintReadAt
  <2>3. CASE ~(p > Len(data))
    <3>1. Len(data) \in Nat /\ p \in Nat
      BY DEF Bytes, Place
    <3>2. g[p + 1] = h[p + 1]
      BY <2>1, <2>3, <3>1, LeftShrinks
    <3> QED
      BY <3>2
  <2> QED
    BY <2>2, <2>3
<1>3. WellDefined(D, Place, Outcomes(Nat), m)
  <2> HIDE DEF D
  <2>1. Outcomes(Nat) # {}
    BY DEF Outcomes
  <2> QED
    BY <1>1, <1>2, <2>1, LeftShrinks DEF WellDefined
<1>4. PICK f \in [Place -> Outcomes(Nat)] : f = D[f]
  <2> HIDE DEF D
  <2> QED
    BY <1>3, Recursion
<1> DEFINE Body(e) ==
    [p \in Nat \ {0} |->
            IF p > Len(data) THEN Raised
            ELSE IF data[p] < Group THEN Parsed(data[p], p + 1)
            ELSE LET rest == e[p + 1]
                 IN  IF rest.raised THEN Raised
                     ELSE Parsed(data[p] - Group + Group * rest.result, rest.next)]
<1>5. f = Body(f)
  BY <1>4, Zenon DEF VarintReadAt, Place
<1> DEFINE parse == CHOOSE parse : parse = Body(parse)
<1>6. parse = Body(parse)
  BY <1>5, Zenon
<1>7. \A p : ParseVarint(data, p) = parse[p]
  BY DEF ParseVarint
<1>8. \A p \in Place : parse[p] = VarintReadAt(data, p, parse[p + 1])
  <2> HIDE DEF parse
  <2> QED
    BY <1>6, Zenon DEF VarintReadAt, Place
<1> DEFINE Typed == {p \in Place : parse[p] \in Outcomes(Nat)}
<1>9. ASSUME NEW p \in Place, \A r \in Place : m[r] < m[p] => r \in Typed
      PROVE  p \in Typed
  <2> HIDE DEF parse, m
  <2>1. CASE p > Len(data)
    <3>1. parse[p] = Raised
      BY <1>8, <2>1 DEF VarintReadAt
    <3> QED
      BY <3>1 DEF Outcomes
  <2>2. CASE ~(p > Len(data))
    <3>1. p + 1 \in Place /\ p < p + 1 /\ p <= Len(data)
      BY <2>2, ByteIs DEF Place
    <3>2. parse[p + 1] \in Outcomes(Nat)
      BY <1>9, <3>1, LeftShrinks DEF m
    <3> QED
      BY <1>8, <3>2, VarintReadTyped
  <2> QED
    BY <2>1, <2>2
<1>10. Place \subseteq Typed
  <2>1. m \in [Place -> Nat]
    BY LeftShrinks
  <2> HIDE DEF Typed, m
  <2> QED
    BY <1>9, <2>1, MeasureInduction
<1>11. pos + 1 \in Place
  BY DEF Place
<1> HIDE DEF parse, m
<1> QED
  BY <1>7, <1>8, <1>10

\* The bytes s are found in data from p on; or data ends before s does.
Holds(data, p, s) ==
    /\ p + Len(s) <= Len(data) + 1
    /\ \A j \in 1 .. Len(s) : data[p + j - 1] = s[j]

Ends(data, p, s) ==
    /\ p <= Len(data) + 1 /\ Len(data) + 1 < p + Len(s)
    /\ \A j \in 1 .. Len(s) : p + j - 1 <= Len(data) => data[p + j - 1] = s[j]

\* Bytes after bytes.
LEMMA JoinIs ==
    ASSUME NEW s \in Bytes, NEW t \in Bytes
    PROVE  /\ s \o t \in Bytes
           /\ Len(s) \in Nat /\ Len(t) \in Nat /\ Len(s \o t) = Len(s) + Len(t)
           /\ \A j \in 1 .. Len(s) : (s \o t)[j] = s[j]
           /\ \A j \in 1 .. Len(t) : (s \o t)[Len(s) + j] = t[j]
  BY CodecAssumption DEF Bytes

\* Two strings that are found one after the other ...
LEMMA HoldsJoin ==
    ASSUME NEW data \in Bytes, NEW p \in Place, NEW s \in Bytes, NEW t \in Bytes,
           Holds(data, p, s \o t)
    PROVE  Holds(data, p, s) /\ Holds(data, p + Len(s), t)
<1>1. /\ Len(s) \in Nat /\ Len(t) \in Nat /\ Len(s \o t) = Len(s) + Len(t)
      /\ Len(data) \in Nat /\ p \in Nat
  BY JoinIs, ByteIs DEF Place
<1>2. ASSUME NEW j \in 1 .. Len(s)
      PROVE  data[p + j - 1] = s[j]
  <2>1. j \in 1 .. Len(s \o t) /\ (s \o t)[j] = s[j]
    BY <1>1, JoinIs
  <2> QED
    BY <2>1 DEF Holds
<1>3. ASSUME NEW j \in 1 .. Len(t)
      PROVE  data[p + Len(s) + j - 1] = t[j]
  <2>1. Len(s) + j \in 1 .. Len(s \o t) /\ p + Len(s) + j - 1 = p + (Len(s) + j) - 1
    BY <1>1
  <2>2. data[p + (Len(s) + j) - 1] = (s \o t)[Len(s) + j]
    BY <2>1 DEF Holds
  <2> QED
    BY <2>1, <2>2, JoinIs
<1> QED
  BY <1>1, <1>2, <1>3 DEF Holds

\* ... and two the first or the second of which is cut short.
LEMMA EndsJoin ==
    ASSUME NEW data \in Bytes, NEW p \in Place, NEW s \in Bytes, NEW t \in Bytes,
           Ends(data, p, s \o t)
    PROVE  Ends(data, p, s) \/ (Holds(data, p, s) /\ Ends(data, p + Len(s), t))
<1>1. /\ Len(s) \in Nat /\ Len(t) \in Nat /\ Len(s \o t) = Len(s) + Len(t)
      /\ Len(data) \in Nat /\ p \in Nat
  BY JoinIs, ByteIs DEF Place
<1>2. ASSUME NEW j \in 1 .. Len(s), p + j - 1 <= Len(data)
      PROVE  data[p + j - 1] = s[j]
  <2>1. j \in 1 .. Len(s \o t) /\ (s \o t)[j] = s[j]
    BY <1>1, JoinIs
  <2> QED
    BY <1>2, <2>1 DEF Ends
<1>3. ASSUME NEW j \in 1 .. Len(t), p + Len(s) + j - 1 <= Len(data)
      PROVE  data[p + Len(s) + j - 1] = t[j]
  <2>1. Len(s) + j \in 1 .. Len(s \o t) /\ p + Len(s) + j - 1 = p + (Len(s) + j) - 1
    BY <1>1
  <2>2. data[p + (Len(s) + j) - 1] = (s \o t)[Len(s) + j]
    BY <1>3, <2>1 DEF Ends
  <2> QED
    BY <2>1, <2>2, JoinIs
<1>4. CASE Len(data) + 1 < p + Len(s)
  BY <1>1, <1>2, <1>4 DEF Ends
<1>5. CASE ~(Len(data) + 1 < p + Len(s))
  BY <1>1, <1>2, <1>3, <1>5 DEF Ends, Holds
<1> QED
  BY <1>4, <1>5

-----------------------------------------------------------------------------
\* A varint is read back, whatever follows it; and one that is cut short is not read.
VarintRead(n) ==
    \A data \in Bytes, p \in Place :
        /\ Holds(data, p, varint[n]) => ParseVarint(data, p) = Parsed(n, p + Len(varint[n]))
        /\ Ends(data, p, varint[n]) => ParseVarint(data, p) = Raised

\* A number below Group has one byte.
LEMMA OneDigit ==
    ASSUME NEW n \in Nat, n < Group
    PROVE  VarintRead(n)
<1> SUFFICES ASSUME NEW data \in Bytes, NEW p \in Place
             PROVE  /\ Holds(data, p, <<n>>) => ParseVarint(data, p) = Parsed(n, p + 1)
                    /\ Ends(data, p, <<n>>) => ParseVarint(data, p) = Raised
  BY VarintDefined DEF VarintRead
<1>1. /\ Len(data) \in Nat /\ p \in Nat
      /\ ParseVarint(data, p) = VarintReadAt(data, p, ParseVarint(data, p + 1))
  BY ByteIs, ParseVarintDefined DEF Place
<1>2. ASSUME Holds(data, p, <<n>>)
      PROVE  ParseVarint(data, p) = Parsed(n, p + 1)
  <2>1. p <= Len(data) /\ data[p] = n
    BY <1>1, <1>2 DEF Holds
  <2> QED
    BY <1>1, <2>1 DEF VarintReadAt
<1>3. ASSUME Ends(data, p, <<n>>)
      PROVE  ParseVarint(data, p) = Raised
  <2>1. p > Len(data)
    BY <1>1, <1>3 DEF Ends
  <2> QED
    BY <1>1, <2>1 DEF VarintReadAt
<1> QED
  BY <1>2, <1>3

\* A byte with the continuation bit, followed by the rest.
LEMMA FirstDigitRead ==
    ASSUME NEW data \in Bytes, NEW p \in Place, NEW first \in Bytes, NEW rest \in Bytes,
           NEW high \in Nat,
           Len(first) = 1, ~(first[1] < Group), Holds(data, p, first \o rest),
           Holds(data, p + 1, rest) => ParseVarint(data, p + 1) = Parsed(high, p + 1 + Len(rest))
    PROVE  ParseVarint(data, p) = Parsed(first[1] - Group + Group * high, p + Len(first \o rest))
<1>1. /\ Len(data) \in Nat /\ p \in Nat /\ p + 1 \in Place /\ Len(rest) \in Nat
      /\ Len(first \o rest) = 1 + Len(rest)
  <2>1. Len(data) \in Nat /\ p \in Nat /\ p + 1 \in Place
    BY ByteIs DEF Place
  <2>2. Len(rest) \in Nat /\ Len(first \o rest) = Len(first) + Len(rest)
    BY JoinIs
  <2> QED
    BY <2>1, <2>2
<1>2. Holds(data, p, first) /\ Holds(data, p + Len(first), rest)
  BY HoldsJoin
<1>3. p <= Len(data) /\ data[p] = first[1]
  BY <1>1, <1>2 DEF Holds
<1> DEFINE tail == ParseVarint(data, p + 1)
<1>4. tail = Parsed(high, p + 1 + Len(rest))
  BY <1>2
<1>5. tail.raised = FALSE /\ tail.result = high /\ tail.next = p + 1 + Len(rest)
  BY <1>4 DEF Parsed
<1>6. ParseVarint(data, p) = VarintReadAt(data, p, tail)
  BY ParseVarintDefined
<1> HIDE DEF tail
<1>7. VarintReadAt(data, p, tail) = Parsed(data[p] - Group + Group * tail.result, tail.next)
  <2>1. ~(p > Len(data)) /\ ~(data[p] < Group) /\ ~tail.raised
    BY <1>1, <1>3, <1>5
  <2> QED
    BY <2>1 DEF VarintReadAt
<1>8. p + 1 + Len(rest) = p + Len(first \o rest)
  BY <1>1
<1> QED
  BY <1>3, <1>5, <1>6, <1>7, <1>8

\* A byte with the continuation bit, the rest of which is cut short.
LEMMA FirstDigitCut ==
    ASSUME NEW data \in Bytes, NEW p \in Place, NEW first \in Bytes, NEW rest \in Bytes,
           Len(first) = 1, ~(first[1] < Group), Ends(data, p, first \o rest),
           Ends(data, p + 1, rest) => ParseVarint(data, p + 1) = Raised
    PROVE  ParseVarint(data, p) = Raised
<1>1. Len(data) \in Nat /\ p \in Nat
  BY ByteIs DEF Place
<1>2. ParseVarint(data, p) = VarintReadAt(data, p, ParseVarint(data, p + 1))
  BY ParseVarintDefined
<1>3. CASE Ends(data, p, first)
  <2>1. p > Len(data)
    BY <1>1, <1>3 DEF Ends
  <2> QED
    BY <1>2, <2>1 DEF VarintReadAt
<1>4. CASE Holds(data, p, first) /\ Ends(data, p + Len(first), rest)
  <2>1. ~(p > Len(data)) /\ ~(data[p] < Group)
    BY <1>1, <1>4 DEF Holds
  <2>2. ParseVarint(data, p + 1) = Raised
    BY <1>4
  <2>3. Raised.raised
    BY DEF Raised
  <2> QED
    BY <1>2, <2>1, <2>2, <2>3 DEF VarintReadAt
<1> QED
  BY <1>3, <1>4, EndsJoin

\* One more byte than the number without its last digit.
LEMMA MoreDigits ==
    ASSUME NEW n \in Nat, ~(n < Group), VarintRead(n \div Group)
    PROVE  VarintRead(n)
<1> DEFINE low == (n % Group) + Group
           high == n \div Group
           first == <<low>>
           rest == varint[high]
<1>1. /\ high \in Nat /\ low \in 0 .. 2 * Group - 1 /\ ~(low < Group)
      /\ low - Group + Group * high = n
  BY Digits, CodecAssumption
<1>2. varint[n] = first \o rest
  BY VarintDefined
<1>3. first \in Bytes /\ Len(first) = 1 /\ first[1] = low
  BY <1>1 DEF Bytes
<1>4. rest \in Bytes
  BY <1>1, VarintDefined
<1>5. \A data \in Bytes, p \in Place :
        /\ Holds(data, p, rest) => ParseVarint(data, p) = Parsed(high, p + Len(rest))
        /\ Ends(data, p, rest) => ParseVarint(data, p) = Raised
  BY DEF VarintRead
<1> HIDE DEF low, high, first, rest
<1> SUFFICES ASSUME NEW data \in Bytes, NEW p \in Place
             PROVE  /\ Holds(data, p, varint[n]) =>
                           ParseVarint(data, p) = Parsed(n, p + Len(varint[n]))
                    /\ Ends(data, p, varint[n]) => ParseVarint(data, p) = Raised
  BY DEF VarintRead
<1>6. p + 1 \in Place
  BY DEF Place
<1>7. ASSUME Holds(data, p, first \o rest)
      PROVE  ParseVarint(data, p) = Parsed(n, p + Len(first \o rest))
  <2>1. Holds(data, p + 1, rest) => ParseVarint(data, p + 1) = Parsed(high, p + 1 + Len(rest))
    BY <1>5, <1>6
  <2>2. ParseVarint(data, p) = Parsed(first[1] - Group + Group * high, p + Len(first \o rest))
    BY <1>1, <1>3, <1>4, <1>7, <2>1, FirstDigitRead
  <2> QED
    BY <1>1, <1>3, <2>2
<1>8. ASSUME Ends(data, p, first \o rest)
      PROVE  ParseVarint(data, p) = Raised
  <2>1. Ends(data, p + 1, rest) => ParseVarint(data, p + 1) = Raised
    BY <1>5, <1>6
  <2> QED
    BY <1>1, <1>3, <1>4, <1>8, <2>1, FirstDigitCut
<1> QED
  BY <1>2, <1>7, <1>8

\* parse_varint(varint(n)) is n for every number n, whatever comes before and
\* after; and a varint whose end is missing raises, it is never read as another
\* number.
THEOREM VarintReadBack == \A n \in Nat : VarintRead(n)
<1> DEFINE m == [n \in Nat |-> n]
           Good == {n \in Nat : VarintRead(n)}
<1>1. ASSUME NEW n \in Nat, \A k \in Nat : m[k] < m[n] => k \in Good
      PROVE  n \in Good
  <2>1. CASE n < Group
    BY <2>1, OneDigit
  <2>2. CASE ~(n < Group)
    <3>1. n \div Group < n /\ n \div Group \in Nat
      BY <2>2, Digits
    <3> QED
      BY <1>1, <2>2, <3>1, MoreDigits
  <2> QED
    BY <2>1, <2>2
<1>2. m \in [Nat -> Nat]
  OBVIOUS
<1> HIDE DEF m, Good
<1>3. Nat \subseteq Good
  BY <1>1, <1>2, MeasureInduction
<1> QED
  BY <1>3 DEF Good

\* Reading a varint takes at least one byte, and none beyond the end.
LEMMA ParseVarintAdvances ==
    ASSUME NEW data \in Bytes, NEW pos \in Place, ~ParseVarint(data, pos).raised
    PROVE  pos <= Len(data) /\ pos < ParseVarint(data, pos).next
<1> DEFINE Forward == {p \in Place : ~ParseVarint(data, p).raised =>
                           p <= Len(data) /\ p < ParseVarint(data, p).next}
<1>1. ASSUME NEW p \in Place,
             \A r \in Place : Left(data)[r] < Left(data)[p] => r \in Forward
      PROVE  p \in Forward
  <2> SUFFICES ASSUME ~ParseVarint(data, p).raised
               PROVE  p <= Len(data) /\ p < ParseVarint(data, p).next
    OBVIOUS
  <2> DEFINE rest == ParseVarint(data, p + 1)
  <2>1. ParseVarint(data, p) = VarintReadAt(data, p, rest)
    BY ParseVarintDefined
  <2>2. Len(data) \in Nat /\ p \in Nat /\ p + 1 \in Place /\ Raised.raised = TRUE
    BY ByteIs DEF Place, Raised
  <2>3. rest \in Outcomes(Nat)
    BY <2>2, ParseVarintDefined
  <2>4. ~(p > Len(data))
    BY <2>1, <2>2 DEF VarintReadAt
  <2>5. CASE data[p] < Group
    <3>1. ParseVarint(data, p) = Parsed(data[p], p + 1)
      BY <2>1, <2>4, <2>5 DEF VarintReadAt
    <3>2. ParseVarint(data, p).next = p + 1
      BY <3>1 DEF Parsed
    <3> QED
      BY <2>2, <2>4, <3>2
  <2>6. CASE ~(data[p] < Group)
    <3>1. ~rest.raised
      BY <2>1, <2>2, <2>4, <2>6 DEF VarintReadAt
    <3>2. ParseVarint(data, p) = Parsed(data[p] - Group + Group * rest.result, rest.next)
      BY <2>1, <2>4, <2>6, <3>1 DEF VarintReadAt
    <3>3. ParseVarint(data, p).next = rest.next
      BY <3>2 DEF Parsed
    <3>4. p + 1 \in Forward
      BY <1>1, <2>2, <2>4, LeftShrinks
    <3>5. p + 1 < rest.next /\ rest.next \in Nat
      BY <2>3, <3>1, <3>4, OutcomeIs
    <3> QED
      BY <2>2, <2>4, <3>3, <3>5
  <2> QED
    BY <2>5, <2>6
<1>2. Left(data) \in [Place -> Nat]
  BY LeftShrinks
<1> HIDE DEF Forward
<1>3. Place \subseteq Forward
  BY <1>1, <1>2, MeasureInduction
<1> QED
  BY <1>3 DEF Forward

-----------------------------------------------------------------------------
FieldSet == {Value(f, n) : f, n \in Nat} \union {Blob(f, b) : f \in Nat, b \in Bytes}

\* A slice is bytes, however long it ought to be.
LEMMA SliceIs ==
    ASSUME NEW data \in Bytes, NEW from \in Place, NEW length \in Nat
    PROVE  Slice(data, from, length) \in Bytes
<1>1. Len(data) \in Nat /\ from \in Nat \ {0}
  BY ByteIs DEF Place
<1>2. ASSUME NEW last \in Nat, last <= Len(data)
      PROVE  SubSeq(data, from, last) \in Bytes
  <2>1. \A i \in from .. last : data[i] \in 0 .. 2 * Group - 1
    BY <1>1, <1>2, ByteIs
  <2> QED
    BY <1>1, <2>1, SubSeqProperties DEF Bytes
<1> DEFINE last == from + length - 1
<1>3. last \in Nat
  BY <1>1
<1> HIDE DEF last
<1>4. CASE last < Len(data)
  BY <1>1, <1>2, <1>3, <1>4 DEF Slice, last
<1>5. CASE ~(last < Len(data))
  BY <1>1, <1>2, <1>5 DEF Slice, last
<1> QED
  BY <1>4, <1>5

\* A field takes at least its tag.
LEMMA ParseFieldAdvances ==
    ASSUME NEW data \in Bytes, NEW pos \in Place
    PROVE  /\ ParseField(data, pos) \in Outcomes(FieldSet)
           /\ ~ParseField(data, pos).raised =>
                  pos <= Len(data) /\ pos < ParseField(data, pos).next
<1> DEFINE tag == ParseVarint(data, pos)
           value == ParseVarint(data, tag.next)
<1>1. tag \in Outcomes(Nat)
  BY ParseVarintDefined
<1>2. ~tag.raised => pos <= Len(data) /\ pos < tag.next
  BY ParseVarintAdvances
<1>3. tag.next \in Place => value \in Outcomes(Nat)
  BY ParseVarintDefined
<1>4. tag.next \in Place => (~value.raised => tag.next < value.next)
  BY ParseVarintAdvances
<1>5. ParseField(data, pos) = IF tag.raised \/ tag.result % Wires \notin {0, 2} THEN Raised
                              ELSE FieldOf(data, tag.result \div Wires, tag.result % Wires, value)
  BY DEF ParseField, FieldAfter
<1> HIDE DEF tag, value
<1>6. Raised.raised = TRUE /\ Raised \in Outcomes(FieldSet)
  BY DEF Raised, Outcomes
<1>7. CASE tag.raised \/ tag.result % Wires \notin {0, 2}
  <2>1. ParseField(data, pos) = Raised
    BY <1>5, <1>7
  <2> QED
    BY <1>6, <2>1
<1>8. CASE ~(tag.raised \/ tag.result % Wires \notin {0, 2})
  <2> DEFINE field == tag.result \div Wires
             wire == tag.result % Wires
  <2>1. tag.result \in Nat /\ tag.next \in Place /\ pos <= Len(data) /\ pos < tag.next
    BY <1>1, <1>2, <1>8, OutcomeIs DEF Place
  <2>2. field \in Nat /\ wire \in {0, 2} /\ ParseField(data, pos) = FieldOf(data, field, wire, value)
    <3>1. Wires \in Nat \ {0}
      BY CodecAssumption
    <3> QED
      BY <1>5, <1>8, <2>1, <3>1, Division
  <2>3. value \in Outcomes(Nat) /\ (~value.raised => tag.next < value.next)
    BY <1>3, <1>4, <2>1
  <2> HIDE DEF field, wire
  <2>4. CASE value.raised
    <3>1. ParseField(data, pos) = Raised
      BY <2>2, <2>4 DEF FieldOf
    <3> QED
      BY <1>6, <3>1
  <2>5. CASE ~value.raised
    <3>1. value.result \in Nat /\ value.next \in Place /\ value.next \in Nat
      BY <2>3, <2>5, OutcomeIs DEF Place
    <3>2. CASE wire = 0
      <4>1. ParseField(data, pos) = Parsed(Value(field, value.result), value.next)
        BY <2>2, <2>5, <3>2 DEF FieldOf
      <4>2. Value(field, value.result) \in FieldSet
        BY <2>2, <3>1 DEF FieldSet
      <4>3. ParseField(data, pos) \in Outcomes(FieldSet)
        BY <3>1, <4>1, <4>2, OutcomeOf DEF Place
      <4>4. ParseField(data, pos).next = value.next
        BY <4>1 DEF Parsed
      <4> QED
        BY <2>1, <2>3, <2>5, <3>1, <4>3, <4>4 DEF Place
    <3>3. CASE wire # 0
      <4> DEFINE bytes == Slice(data, value.next, value.result)
      <4>1. ParseField(data, pos) = Parsed(Blob(field, bytes), value.next + value.result)
        BY <2>2, <2>5, <3>3 DEF FieldOf
      <4>2. Blob(field, bytes) \in FieldSet
        <5>1. bytes \in Bytes
          BY <3>1, SliceIs
        <5> HIDE DEF bytes
        <5> QED
          BY <2>2, <5>1 DEF FieldSet
      <4>5. value.next + value.result \in Nat \ {0}
        BY <3>1 DEF Place
      <4>3. ParseField(data, pos) \in Outcomes(FieldSet)
        BY <4>1, <4>2, <4>5, OutcomeOf
      <4>4. ParseField(data, pos).next = value.next + value.result
        BY <4>1 DEF Parsed
      <4> QED
        BY <2>1, <2>3, <2>5, <3>1, <4>3, <4>4 DEF Place
    <3> QED
      BY <3>2, <3>3
  <2> QED
    BY <2>4, <2>5
<1> QED
  BY <1>7, <1>8

\* A slice that starts behind the first byte is shorter than the data.
LEMMA SliceIsShort ==
    ASSUME NEW data \in Bytes, NEW from \in Place, NEW length \in Nat, 1 < from, 0 < Len(data)
    PROVE  Len(Slice(data, from, length)) < Len(data)
<1>1. Len(data) \in Nat /\ from \in Nat \ {0}
  BY ByteIs DEF Place
<1>2. ASSUME NEW last \in Nat, last <= Len(data)
      PROVE  Len(SubSeq(data, from, last)) < Len(data)
  <2>1. \A i \in from .. last : data[i] \in 0 .. 2 * Group - 1
    BY <1>1, <1>2, ByteIs
  <2>2. Len(SubSeq(data, from, last)) = IF from <= last THEN last - from + 1 ELSE 0
    BY <1>1, <2>1, SubSeqProperties
  <2> QED
    BY <1>1, <1>2, <2>2
<1> DEFINE last == from + length - 1
<1>3. last \in Nat
  BY <1>1
<1> HIDE DEF last
<1>4. CASE last < Len(data)
  BY <1>1, <1>2, <1>3, <1>4 DEF Slice, last
<1>5. CASE ~(last < Len(data))
  BY <1>1, <1>2, <1>5 DEF Slice, last
<1> QED
  BY <1>4, <1>5

\* The bytes of a field are fewer than those it is read from.
LEMMA FieldIsShorter ==
    ASSUME NEW data \in Bytes, NEW pos \in Place, ~ParseField(data, pos).raised
    PROVE  Len(ParseField(data, pos).result.bytes) < Len(data)
<1> DEFINE tag == ParseVarint(data, pos)
           value == ParseVarint(data, tag.next)
           field == tag.result \div Wires
           wire == tag.result % Wires
<1>1. tag \in Outcomes(Nat) /\ (~tag.raised => pos <= Len(data) /\ pos < tag.next)
  BY ParseVarintDefined, ParseVarintAdvances
<1>2. tag.next \in Place =>
          value \in Outcomes(Nat) /\ (~value.raised => tag.next < value.next)
  BY ParseVarintDefined, ParseVarintAdvances
<1>3. ParseField(data, pos) = IF tag.raised \/ wire \notin {0, 2} THEN Raised
                              ELSE FieldOf(data, field, wire, value)
  BY DEF ParseField, FieldAfter
<1> HIDE DEF tag, value, field, wire
<1>4. Raised.raised = TRUE
  BY DEF Raised
<1>5. ~tag.raised /\ ParseField(data, pos) = FieldOf(data, field, wire, value)
  BY <1>3, <1>4
<1>6. ~value.raised
  BY <1>4, <1>5 DEF FieldOf
<1>7. /\ tag.next \in Place /\ pos < tag.next /\ 0 < Len(data)
      /\ value.result \in Nat /\ value.next \in Place /\ 1 < value.next
  <2>1. /\ pos \in Nat /\ 0 < pos /\ Len(data) \in Nat
        /\ tag.next \in Place /\ pos < tag.next /\ pos <= Len(data)
    <3>1. tag.next \in Nat \ {0}
      BY <1>1, <1>5, OutcomeIs
    <3>2. pos \in Nat /\ 0 < pos /\ Len(data) \in Nat
      BY ByteIs DEF Place
    <3> QED
      BY <1>1, <1>5, <3>1, <3>2 DEF Place
  <2>2. value.result \in Nat /\ value.next \in Place /\ tag.next < value.next
    BY <1>2, <1>6, <2>1, OutcomeIs DEF Place
  <2> QED
    BY <2>1, <2>2 DEF Place
<1>8. CASE wire = 0
  <2>1. ParseField(data, pos) = Parsed(Value(field, value.result), value.next)
    BY <1>5, <1>6, <1>8 DEF FieldOf
  <2>2. ParseField(data, pos).result.bytes = <<>>
    BY <2>1 DEF Parsed, Value
  <2> QED
    BY <1>7, <2>2
<1>9. CASE wire # 0
  <2> DEFINE bytes == Slice(data, value.next, value.result)
  <2>1. ParseField(data, pos) = Parsed(Blob(field, bytes), value.next + value.result)
    BY <1>5, <1>6, <1>9 DEF FieldOf
  <2>2. Len(bytes) < Len(data)
    BY <1>7, SliceIsShort
  <2> HIDE DEF bytes
  <2>3. ParseField(data, pos).result.bytes = bytes
    BY <2>1 DEF Parsed, Blob
  <2> QED
    BY <2>2, <2>3
<1> QED
  BY <1>8, <1>9

\* The tag decides what is read after it.
LEMMA TagRead ==
    ASSUME NEW data \in Bytes, NEW p \in Place, NEW f \in Nat, NEW w \in {0, 2}, NEW q,
           ParseVarint(data, p) = Parsed(f * Wires + w, q)
    PROVE  ParseField(data, p) = FieldOf(data, f, w, ParseVarint(data, q))
<1>1. Wires \in Nat \ {0} /\ w \in 0 .. Wires - 1 /\ w \in {0, 2}
  BY CodecAssumption
<1> DEFINE n == f * Wires + w
<1>2. n \div Wires = f /\ n % Wires = w
  BY <1>1, DivisionUnique
<1> DEFINE tag == ParseVarint(data, p)
<1> HIDE DEF n
<1>3. tag = Parsed(n, q)
  BY DEF n
<1> HIDE DEF tag
<1>4. tag.raised = FALSE /\ tag.result = n /\ tag.next = q
  BY <1>3 DEF Parsed
<1>5. FieldAfter(data, tag) = FieldOf(data, f, w, ParseVarint(data, q))
  BY <1>1, <1>2, <1>4 DEF FieldAfter
<1> QED
  BY <1>5 DEF ParseField, tag

\* Without a tag there is no field.
LEMMA TagCut ==
    ASSUME NEW data, NEW p, ParseVarint(data, p) = Raised
    PROVE  ParseField(data, p) = Raised
  BY DEF ParseField, FieldAfter, Raised

\* The bytes of a field, tag first.
LEMMA FieldBytes ==
    ASSUME NEW f \in Nat, NEW n \in Nat, NEW b \in Bytes
    PROVE  /\ varint[f * Wires] \in Bytes /\ varint[f * Wires + 2] \in Bytes
           /\ varint[n] \in Bytes /\ varint[Len(b)] \in Bytes
           /\ field_varint(f, n) \in Bytes /\ field_string(f, b) \in Bytes
<1>1. f * Wires \in Nat /\ f * Wires + 2 \in Nat /\ Len(b) \in Nat
  BY CodecAssumption, ByteIs
<1>2. /\ varint[f * Wires] \in Bytes /\ varint[f * Wires + 2] \in Bytes
      /\ varint[n] \in Bytes /\ varint[Len(b)] \in Bytes
  BY <1>1, VarintDefined
<1>3. varint[f * Wires + 2] \o varint[Len(b)] \in Bytes
  BY <1>2, JoinIs
<1> QED
  BY <1>2, <1>3, JoinIs DEF field_varint, field_string

\* A field that holds a number is read back, and never read when it is cut short.
LEMMA ValueReadBack ==
    ASSUME NEW data \in Bytes, NEW p \in Place, NEW f \in Nat, NEW n \in Nat
    PROVE  /\ Holds(data, p, field_varint(f, n)) =>
                  ParseField(data, p) = Parsed(Value(f, n), p + Len(field_varint(f, n)))
           /\ Ends(data, p, field_varint(f, n)) => ParseField(data, p) = Raised
<1> DEFINE t == f * Wires
           tag == varint[t]
           number == varint[n]
           q == p + Len(tag)
<1>1. t \in Nat /\ t = f * Wires + 0
  BY CodecAssumption
<1>2. tag \in Bytes /\ number \in Bytes /\ field_varint(f, n) = tag \o number
  BY FieldBytes, ByteIs DEF field_varint
<1>3. VarintRead(t) /\ VarintRead(n)
  BY <1>1, VarintReadBack
<1>4. \A r \in Place :
          /\ Holds(data, r, tag) => ParseVarint(data, r) = Parsed(t, r + Len(tag))
          /\ Ends(data, r, tag) => ParseVarint(data, r) = Raised
          /\ Holds(data, r, number) => ParseVarint(data, r) = Parsed(n, r + Len(number))
          /\ Ends(data, r, number) => ParseVarint(data, r) = Raised
  BY <1>3 DEF VarintRead
<1> HIDE DEF t, tag, number
<1>5. /\ Len(tag) \in Nat /\ Len(number) \in Nat /\ q \in Place /\ p \in Nat
      /\ Len(tag \o number) = Len(tag) + Len(number)
  <2>1. /\ Len(tag) \in Nat /\ Len(number) \in Nat
        /\ Len(tag \o number) = Len(tag) + Len(number)
    BY <1>2, JoinIs
  <2> QED
    BY <2>1 DEF Place
<1>6. ASSUME Holds(data, p, tag)
      PROVE  ParseField(data, p) = FieldOf(data, f, 0, ParseVarint(data, q))
  BY <1>1, <1>4, <1>6, TagRead
<1>7. ASSUME Holds(data, p, tag \o number)
      PROVE  ParseField(data, p) = Parsed(Value(f, n), p + Len(tag \o number))
  <2>1. Holds(data, p, tag) /\ Holds(data, q, number)
    BY <1>2, <1>7, HoldsJoin
  <2> DEFINE value == ParseVarint(data, q)
  <2>2. value = Parsed(n, q + Len(number))
    BY <1>4, <1>5, <2>1
  <2>3. ParseField(data, p) = FieldOf(data, f, 0, value)
    BY <1>6, <2>1
  <2> HIDE DEF value
  <2>4. value.raised = FALSE /\ value.result = n /\ value.next = q + Len(number)
    BY <2>2 DEF Parsed
  <2>5. FieldOf(data, f, 0, value) = Parsed(Value(f, n), q + Len(number))
    BY <2>4 DEF FieldOf
  <2>6. q + Len(number) = p + Len(tag \o number)
    BY <1>5
  <2> QED
    BY <2>3, <2>5, <2>6
<1>8. ASSUME Ends(data, p, tag \o number)
      PROVE  ParseField(data, p) = Raised
  <2>1. CASE Ends(data, p, tag)
    BY <1>4, <2>1, TagCut
  <2>2. CASE Holds(data, p, tag) /\ Ends(data, q, number)
    <3>1. ParseVarint(data, q) = Raised
      BY <1>4, <1>5, <2>2
    <3>2. FieldOf(data, f, 0, Raised) = Raised
      BY DEF FieldOf, Raised
    <3> QED
      BY <1>6, <2>2, <3>1, <3>2
  <2> QED
    BY <1>2, <1>8, <2>1, <2>2, EndsJoin
<1> QED
  BY <1>2, <1>7, <1>8

\* A slice of what is there, and of what is cut short.
LEMMA SliceOfWhole ==
    ASSUME NEW data \in Bytes, NEW p \in Place, NEW b \in Bytes, Holds(data, p, b)
    PROVE  Slice(data, p, Len(b)) = b
<1>1. Len(data) \in Nat /\ p \in Nat \ {0} /\ Len(b) \in Nat
  BY ByteIs DEF Place
<1> DEFINE last == p + Len(b) - 1
<1>2. last \in Nat /\ last <= Len(data)
  BY <1>1 DEF Holds
<1>3. Slice(data, p, Len(b)) = SubSeq(data, p, last)
  BY <1>1, <1>2 DEF Slice
<1>4. \A i \in p .. last : data[i] \in 0 .. 2 * Group - 1
  BY <1>1, <1>2, ByteIs
<1> DEFINE s == SubSeq(data, p, last)
<1>5. /\ s \in Bytes /\ Len(s) = (IF p <= last THEN last - p + 1 ELSE 0)
      /\ \A i \in 1 .. last - p + 1 : s[i] = data[p + i - 1]
  BY <1>1, <1>2, <1>4, SubSeqProperties DEF Bytes
<1>6. Len(s) = Len(b)
  BY <1>1, <1>5
<1>7. \A i \in 1 .. Len(b) : s[i] = b[i]
  BY <1>1, <1>5 DEF Holds
<1> HIDE DEF s
<1>8. s = b
  BY <1>5, <1>6, <1>7, SeqEqual DEF Bytes
<1> QED
  BY <1>3, <1>8 DEF s

\* The slice of a string that is cut short is its beginning.
LEMMA SliceOfPart ==
    ASSUME NEW data \in Bytes, NEW p \in Place, NEW b \in Bytes, Ends(data, p, b)
    PROVE  LET s == Slice(data, p, Len(b))
           IN  s \in Bytes /\ Len(s) <= Len(b) /\ s = SubSeq(b, 1, Len(s))
<1>1. Len(data) \in Nat /\ p \in Nat \ {0} /\ Len(b) \in Nat
  BY ByteIs DEF Place
<1>2. p <= Len(data) + 1 /\ Len(data) + 1 < p + Len(b)
  BY DEF Ends
<1>3. Slice(data, p, Len(b)) = SubSeq(data, p, Len(data))
  BY <1>1, <1>2 DEF Slice
<1>4. \A i \in p .. Len(data) : data[i] \in 0 .. 2 * Group - 1
  BY <1>1, ByteIs
<1> DEFINE s == SubSeq(data, p, Len(data))
           k == Len(data) - p + 1
<1>5. /\ s \in Bytes /\ Len(s) = (IF p <= Len(data) THEN Len(data) - p + 1 ELSE 0)
      /\ \A i \in 1 .. Len(data) - p + 1 : s[i] = data[p + i - 1]
  BY <1>1, <1>4, SubSeqProperties DEF Bytes
<1>6. k \in Nat /\ k <= Len(b) /\ Len(s) = k
  BY <1>1, <1>2, <1>5
<1>7. \A i \in 1 .. k : s[i] = b[i]
  BY <1>1, <1>5 DEF Ends
<1>8. \A i \in 1 .. k : b[i] \in 0 .. 2 * Group - 1
  BY <1>1, <1>6, ByteIs
<1> HIDE DEF s, k
<1> DEFINE r == SubSeq(b, 1, k)
<1>9. r \in Bytes /\ Len(r) = k /\ \A i \in 1 .. k : r[i] = b[i]
  <2>1. k \in Int /\ 1 \in Int /\ k - 1 + 1 = k
    BY <1>6
  <2>2. /\ r \in Seq(0 .. 2 * Group - 1)
        /\ Len(r) = (IF 1 <= k THEN k - 1 + 1 ELSE 0)
        /\ \A i \in 1 .. k - 1 + 1 : r[i] = b[1 + i - 1]
    BY <1>8, <2>1, SubSeqProperties
  <2> QED
    BY <1>6, <2>1, <2>2 DEF Bytes
<1> HIDE DEF r
<1>10. s = r
  BY <1>5, <1>6, <1>7, <1>9, SeqEqual DEF Bytes
<1> QED
  BY <1>3, <1>5, <1>6, <1>10 DEF s, r

\* Of a blob that ends too early a beginning may be read, which takes all there is.
Shortened(o, f, b, data) ==
    \E k \in 0 .. Len(b), next \in Place :
        next > Len(data) /\ o = Parsed(Blob(f, SubSeq(b, 1, k)), next)

\* A field that holds bytes is read back.
LEMMA BlobReadBack ==
    ASSUME NEW data \in Bytes, NEW p \in Place, NEW f \in Nat, NEW b \in Bytes
    PROVE  /\ Holds(data, p, field_string(f, b)) =>
                  ParseField(data, p) = Parsed(Blob(f, b), p + Len(field_string(f, b)))
           /\ Ends(data, p, field_string(f, b)) =>
                  \/ ParseField(data, p) = Raised
                  \/ Shortened(ParseField(data, p), f, b, data)
<1> DEFINE t == f * Wires + 2
           n == Len(b)
           tag == varint[t]
           number == varint[n]
           head == tag \o number
           q == p + Len(tag)
           r == p + Len(head)
<1>1. t \in Nat /\ n \in Nat
  BY CodecAssumption, ByteIs
<1>2. /\ tag \in Bytes /\ number \in Bytes /\ head \in Bytes /\ field_string(f, b) = head \o b
  BY <1>1, FieldBytes, JoinIs DEF field_string
<1>3. VarintRead(t) /\ VarintRead(n)
  BY <1>1, VarintReadBack
<1>4. \A u \in Place :
          /\ Holds(data, u, tag) => ParseVarint(data, u) = Parsed(t, u + Len(tag))
          /\ Ends(data, u, tag) => ParseVarint(data, u) = Raised
          /\ Holds(data, u, number) => ParseVarint(data, u) = Parsed(n, u + Len(number))
          /\ Ends(data, u, number) => ParseVarint(data, u) = Raised
  BY <1>3 DEF VarintRead
<1> HIDE DEF tag, number, n
<1>5. /\ Len(tag) \in Nat /\ Len(number) \in Nat /\ q \in Place /\ p \in Nat
      /\ r = q + Len(number) /\ r \in Place /\ Len(head \o b) = Len(head) + n
  <2>1. /\ Len(tag) \in Nat /\ Len(number) \in Nat
        /\ Len(head) = Len(tag) + Len(number) /\ Len(head \o b) = Len(head) + n
    BY <1>2, JoinIs DEF n
  <2> QED
    BY <2>1 DEF Place
<1> HIDE DEF t
<1>6. ASSUME Holds(data, p, tag)
      PROVE  ParseField(data, p) = FieldOf(data, f, 2, ParseVarint(data, q))
  BY <1>4, <1>6, TagRead DEF t
<1> HIDE DEF head
<1>7. ASSUME Holds(data, p, head)
      PROVE  ParseField(data, p) = Parsed(Blob(f, Slice(data, r, n)), r + n)
  <2>1. Holds(data, p, tag) /\ Holds(data, q, number)
    BY <1>2, <1>7, HoldsJoin DEF head
  <2> DEFINE value == ParseVarint(data, q)
  <2>2. value = Parsed(n, r)
    BY <1>4, <1>5, <2>1
  <2>3. ParseField(data, p) = FieldOf(data, f, 2, value)
    BY <1>6, <2>1
  <2> HIDE DEF value, r
  <2>4. value.raised = FALSE /\ value.result = n /\ value.next = r
    BY <2>2 DEF Parsed
  <2>5. FieldOf(data, f, 2, value) = Parsed(Blob(f, Slice(data, r, n)), r + n)
    BY <2>4 DEF FieldOf
  <2> QED
    BY <2>3, <2>5
<1>8. ASSUME Holds(data, p, head \o b)
      PROVE  ParseField(data, p) = Parsed(Blob(f, b), p + Len(head \o b))
  <2>1. Holds(data, p, head) /\ Holds(data, r, b)
    BY <1>2, <1>8, HoldsJoin
  <2>2. Slice(data, r, n) = b
    BY <1>5, <2>1, SliceOfWhole DEF n
  <2>3. r + n = p + Len(head \o b)
    <3>1. Len(head) \in Nat /\ n \in Nat
      BY <1>1, <1>2, ByteIs
    <3> QED
      BY <1>5, <3>1
  <2> QED
    BY <1>7, <2>1, <2>2, <2>3
<1>9. ASSUME Ends(data, p, head)
      PROVE  ParseField(data, p) = Raised
  <2>1. CASE Ends(data, p, tag)
    BY <1>4, <2>1, TagCut
  <2>2. CASE Holds(data, p, tag) /\ Ends(data, q, number)
    <3>1. ParseVarint(data, q) = Raised
      BY <1>4, <1>5, <2>2
    <3>2. FieldOf(data, f, 2, Raised) = Raised
      BY DEF FieldOf, Raised
    <3> QED
      BY <1>6, <2>2, <3>1, <3>2
  <2> QED
    BY <1>2, <1>9, <2>1, <2>2, EndsJoin DEF head
<1>10. ASSUME Holds(data, p, head), Ends(data, r, b)
       PROVE  Shortened(ParseField(data, p), f, b, data)
  <2> DEFINE s == Slice(data, r, n)
  <2>1. s \in Bytes /\ Len(s) <= Len(b) /\ s = SubSeq(b, 1, Len(s))
    BY <1>5, <1>10, SliceOfPart DEF n
  <2>2. ParseField(data, p) = Parsed(Blob(f, s), r + n)
    BY <1>7, <1>10
  <2> HIDE DEF s
  <2>3. Len(s) \in 0 .. Len(b)
    BY <1>1, <2>1, ByteIs DEF n
  <2>4. r + n \in Place /\ r + n > Len(data)
    BY <1>1, <1>5, <1>10, ByteIs DEF Place, Ends, n
  <2>5. ParseField(data, p) = Parsed(Blob(f, SubSeq(b, 1, Len(s))), r + n)
    BY <2>1, <2>2
  <2> QED
    BY <2>3, <2>4, <2>5 DEF Shortened
<1> QED
  BY <1>2, <1>8, <1>9, <1>10, EndsJoin

FieldsReadAt(data, pos, parse) ==
    IF pos > Len(data) THEN Parsed(<<>>, pos)
    ELSE IF ParseField(data, pos).raised THEN Raised
    ELSE Prepend(ParseField(data, pos).result, parse[ParseField(data, pos).next])

\* The function that parse_fields is the value of at the first byte.
FieldsFrom(data) ==
    CHOOSE parse : parse = [pos \in Nat \ {0} |->
        IF pos > Len(data) THEN Parsed(<<>>, pos)
        ELSE LET first == ParseField(data, pos)
             IN  IF first.raised THEN Raised ELSE Prepend(first.result, parse[first.next])]

FieldLists == Outcomes(Seq(FieldSet))

\* A field in front of a list of fields.
LEMMA PrependIs ==
    ASSUME NEW f \in FieldSet, NEW rest \in FieldLists
    PROVE  Prepend(f, rest) \in FieldLists
<1>1. CASE rest.raised
  BY <1>1 DEF Prepend, FieldLists, Outcomes
<1>2. CASE ~rest.raised
  <2>1. rest.result \in Seq(FieldSet) /\ rest.next \in Nat \ {0}
    BY <1>2, OutcomeIs DEF FieldLists
  <2>2. <<f>> \o rest.result \in Seq(FieldSet)
    BY <2>1
  <2>3. Prepend(f, rest) = Parsed(<<f>> \o rest.result, rest.next)
    BY <1>2 DEF Prepend
  <2> QED
    BY <2>1, <2>2, <2>3, OutcomeOf DEF FieldLists
<1> QED
  BY <1>1, <1>2

\* It is an outcome if the rest is one.
LEMMA FieldsReadTyped ==
    ASSUME NEW data \in Bytes, NEW pos \in Place, NEW parse,
           ~(pos > Len(data)) /\ ~ParseField(data, pos).raised
               => parse[ParseField(data, pos).next] \in FieldLists
    PROVE  FieldsReadAt(data, pos, parse) \in FieldLists
<1>1. CASE pos > Len(data)
  <2>1. <<>> \in Seq(FieldSet) /\ pos \in Nat \ {0}
    BY DEF Place
  <2>2. Parsed(<<>>, pos) \in FieldLists
    BY <2>1, OutcomeOf DEF FieldLists
  <2> QED
    BY <1>1, <2>2 DEF FieldsReadAt
<1>2. CASE ~(pos > Len(data)) /\ ParseField(data, pos).raised
  <2>1. FieldsReadAt(data, pos, parse) = Raised
    BY <1>2 DEF FieldsReadAt
  <2> QED
    BY <2>1 DEF FieldLists, Outcomes
<1>3. CASE ~(pos > Len(data)) /\ ~ParseField(data, pos).raised
  <2> DEFINE first == ParseField(data, pos)
  <2>1. first.result \in FieldSet
    BY <1>3, ParseFieldAdvances, OutcomeIs
  <2>2. parse[first.next] \in FieldLists
    BY <1>3
  <2>3. FieldsReadAt(data, pos, parse) = Prepend(first.result, parse[first.next])
    BY <1>3 DEF FieldsReadAt
  <2> HIDE DEF first
  <2> QED
    BY <2>1, <2>2, <2>3, PrependIs
<1> QED
  BY <1>1, <1>2, <1>3

\* After a field that is read there is less left.
LEMMA FieldShrinks ==
    ASSUME NEW data \in Bytes, NEW pos \in Place, ~ParseField(data, pos).raised
    PROVE  /\ ParseField(data, pos).next \in Place
           /\ Left(data)[ParseField(data, pos).next] < Left(data)[pos]
<1> DEFINE first == ParseField(data, pos)
<1>1. first \in Outcomes(FieldSet) /\ pos <= Len(data) /\ pos < first.next
  BY ParseFieldAdvances
<1>2. first.raised = FALSE
  <2>1. first.raised = FALSE \/ (first = Raised /\ first.raised = TRUE)
    BY <1>1, OutcomeIs
  <2> QED
    BY <2>1
<1>3. first.next \in Place
  BY <1>1, <1>2, OutcomeIs DEF Place
<1> HIDE DEF first
<1>4. Left(data)[first.next] < Left(data)[pos]
  BY <1>1, <1>3, LeftShrinks
<1> QED
  BY <1>3, <1>4 DEF first

\* What the definition of ParseFields says of its values.
LEMMA FieldsFromDefined ==
    ASSUME NEW data \in Bytes
    PROVE  /\ ParseFields(data) = FieldsFrom(data)[1]
           /\ \A pos \in Place :
                  /\ FieldsFrom(data)[pos] \in FieldLists
                  /\ FieldsFrom(data)[pos] = FieldsReadAt(data, pos, FieldsFrom(data))
<1> DEFINE D == [f \in [Place -> FieldLists] |->
                   [p \in Place |-> FieldsReadAt(data, p, f)]]
           m == Left(data)
<1>1. D \in [[Place -> FieldLists] -> [Place -> FieldLists]]
  <2> SUFFICES ASSUME NEW f \in [Place -> FieldLists], NEW p \in Place
               PROVE  FieldsReadAt(data, p, f) \in FieldLists
    OBVIOUS
  <2>1. ASSUME ~ParseField(data, p).raised
        PROVE  f[ParseField(data, p).next] \in FieldLists
    <3>1. ParseField(data, p).next \in Place
      BY <2>1, FieldShrinks
    <3> QED
      BY <3>1
  <2> QED
    BY <2>1, FieldsReadTyped
<1>2. Local(D, Place, FieldLists, m)
  <2> SUFFICES ASSUME NEW g \in [Place -> FieldLists], NEW h \in [Place -> FieldLists],
                      NEW p \in Place, \A r \in Place : m[r] < m[p] => g[r] = h[r]
               PROVE  D[g][p] = D[h][p]
    BY DEF Local
  <2>1. FieldsReadAt(data, p, g) = FieldsReadAt(data, p, h)
    <3>1. CASE ~ParseField(data, p).raised
      <4>1. g[ParseField(data, p).next] = h[ParseField(data, p).next]
        BY <3>1, FieldShrinks
      <4> QED
        BY <4>1 DEF FieldsReadAt
    <3>2. CASE ParseField(data, p).raised
      BY <3>2 DEF FieldsReadAt
    <3> QED
      BY <3>1, <3>2
  <2> QED
    BY <2>1
<1>3. WellDefined(D, Place, FieldLists, m)
  <2> HIDE DEF D
  <2>1. FieldLists # {}
    BY DEF FieldLists, Outcomes
  <2> QED
    BY <1>1, <1>2, <2>1, LeftShrinks DEF WellDefined
<1>4. PICK f \in [Place -> FieldLists] : f = D[f]
  <2> HIDE DEF D
  <2> QED
    BY <1>3, Recursion
<1> DEFINE Body(e) ==
    [pos \in Nat \ {0} |->
        IF pos > Len(data) THEN Parsed(<<>>, pos)
        ELSE LET first == ParseField(data, pos)
             IN  IF first.raised THEN Raised ELSE Prepend(first.result, e[first.next])]
<1>5. f = Body(f)
  BY <1>4, Zenon DEF FieldsReadAt, Place
<1> DEFINE parse == FieldsFrom(data)
<1>6. parse = Body(parse)
  BY <1>5, Zenon DEF FieldsFrom
<1>7. ParseFields(data) = parse[1]
  BY DEF ParseFields, FieldsFrom
<1>8. \A p \in Place : parse[p] = FieldsReadAt(data, p, parse)
  <2> HIDE DEF parse
  <2> QED
    BY <1>6, Zenon DEF FieldsReadAt, Place
<1> DEFINE Typed == {p \in Place : parse[p] \in FieldLists}
<1>9. ASSUME NEW p \in Place, \A r \in Place : m[r] < m[p] => r \in Typed
      PROVE  p \in Typed
  <2> HIDE DEF parse, m
  <2>1. ASSUME ~ParseField(data, p).raised
        PROVE  parse[ParseField(data, p).next] \in FieldLists
    BY <1>9, <2>1, FieldShrinks DEF m
  <2> QED
    BY <1>8, <2>1, FieldsReadTyped
<1>10. Place \subseteq Typed
  <2>1. m \in [Place -> Nat]
    BY LeftShrinks
  <2> HIDE DEF Typed, m
  <2> QED
    BY <1>9, <2>1, MeasureInduction
<1> HIDE DEF parse, m
<1>11. \A p \in Place : parse[p] \in FieldLists
  BY <1>10
<1> QED
  BY <1>7, <1>8, <1>11 DEF parse

\* A field has bytes.
LEMMA FieldTyped ==
    ASSUME NEW fld \in FieldSet
    PROVE  fld.field \in Nat /\ fld.wire \in {0, 2} /\ fld.number \in Nat /\ fld.bytes \in Bytes
<1>1. <<>> \in Bytes
  BY DEF Bytes
<1> QED
  BY <1>1 DEF FieldSet, Value, Blob

\* Whatever the data, all that is read of it is shorter, so that a walk through what
\* is nested in it comes to an end.
THEOREM FieldsAreShorter ==
    ASSUME NEW data \in Bytes, ~ParseFields(data).raised
    PROVE  LET read == ParseFields(data).result
           IN  /\ read \in Seq(FieldSet)
               /\ \A i \in DOMAIN read : read[i].bytes \in Bytes /\ Len(read[i].bytes) < Len(data)
<1> DEFINE m == Left(data)
           F == FieldsFrom(data)
           Short(s) == \A i \in 1 .. Len(s) : Len(s[i].bytes) < Len(data)
           Good == {p \in Place : ~F[p].raised => Short(F[p].result)}
<1>1. /\ ParseFields(data) = F[1]
      /\ \A p \in Place : F[p] \in FieldLists /\ F[p] = FieldsReadAt(data, p, F)
  BY FieldsFromDefined
<1>2. m \in [Place -> Nat]
  BY LeftShrinks
<1>3. ASSUME NEW p \in Place, \A r \in Place : m[r] < m[p] => r \in Good
      PROVE  p \in Good
  <2> HIDE DEF F
  <2> SUFFICES ASSUME ~F[p].raised
               PROVE  Short(F[p].result)
    OBVIOUS
  <2>1. F[p] = FieldsReadAt(data, p, F)
    BY <1>1
  <2>2. CASE p > Len(data)
    <3>1. F[p].result = <<>>
      BY <2>1, <2>2 DEF FieldsReadAt, Parsed
    <3> QED
      BY <3>1
  <2>3. CASE ~(p > Len(data))
    <3> DEFINE first == ParseField(data, p)
               rest == F[first.next]
    <3>1. Raised.raised = TRUE
      BY DEF Raised
    <3>2. ~first.raised /\ F[p] = Prepend(first.result, rest)
      BY <2>1, <2>3, <3>1 DEF FieldsReadAt
    <3>3. ~rest.raised /\ F[p].result = <<first.result>> \o rest.result
      BY <3>1, <3>2 DEF Prepend, Parsed
    <3>4. first.next \in Place /\ m[first.next] < m[p]
      BY <3>2, FieldShrinks
    <3>5. first.next \in Good
      BY <1>3, <3>4
    <3>6. Len(first.result.bytes) < Len(data)
      BY <3>2, FieldIsShorter
    <3>7. first.result \in FieldSet
      BY <3>2, ParseFieldAdvances, OutcomeIs
    <3>8. rest \in FieldLists
      BY <1>1, <3>4
    <3> HIDE DEF first, m
    <3>9. Short(rest.result)
      BY <3>3, <3>5
    <3> HIDE DEF rest, Good
    <3>10. rest.result \in Seq(FieldSet)
      BY <3>3, <3>8, OutcomeIs DEF FieldLists
    <3> DEFINE all == <<first.result>> \o rest.result
    <3>11. /\ Len(rest.result) \in Nat /\ Len(all) = Len(rest.result) + 1 /\ all[1] = first.result
           /\ \A i \in 2 .. Len(all) : i - 1 \in 1 .. Len(rest.result) /\ all[i] = rest.result[i - 1]
      BY <3>7, <3>10
    <3> HIDE DEF all
    <3>12. \A i \in 1 .. Len(all) : i = 1 \/ i \in 2 .. Len(all)
      BY <3>11
    <3>13. Short(all)
      BY <3>6, <3>9, <3>11, <3>12
    <3> QED
      BY <3>3, <3>13 DEF all
  <2> QED
    BY <2>2, <2>3
<1> HIDE DEF Good, m
<1>4. Place \subseteq Good
  BY <1>2, <1>3, MeasureInduction
<1>5. 1 \in Good /\ F[1] \in FieldLists
  BY <1>1, <1>4 DEF Place
<1> HIDE DEF F
<1>6. F[1].result \in Seq(FieldSet)
  BY <1>1, <1>5, OutcomeIs DEF FieldLists
<1> DEFINE read == F[1].result
<1>7. \A i \in 1 .. Len(read) : Len(read[i].bytes) < Len(data)
  BY <1>1, <1>5 DEF Good
<1> HIDE DEF read
<1>8. read \in Seq(FieldSet) /\ DOMAIN read = 1 .. Len(read)
  BY <1>6 DEF read
<1>9. \A i \in DOMAIN read : read[i] \in FieldSet
  BY <1>8
<1> QED
  BY <1>1, <1>7, <1>8, <1>9, FieldTyped DEF read

\* A varint has a byte at least.
LEMMA VarintNotEmpty ==
    ASSUME NEW n \in Nat
    PROVE  0 < Len(varint[n])
<1>1. CASE n < Group
  <2>1. varint[n] = <<n>>
    BY <1>1, VarintDefined
  <2> QED
    BY <2>1
<1>2. CASE ~(n < Group)
  <2> DEFINE low == (n % Group) + Group
             high == n \div Group
             first == <<low>>
             rest == varint[high]
  <2>1. high \in Nat /\ low \in 0 .. 2 * Group - 1
    BY Digits, CodecAssumption
  <2>2. varint[n] = first \o rest
    BY <1>2, VarintDefined
  <2>3. rest \in Bytes
    BY <2>1, VarintDefined
  <2> HIDE DEF low
  <2>4. first \in Bytes /\ Len(first) = 1
    BY <2>1 DEF Bytes
  <2> HIDE DEF first, rest
  <2>5. Len(first \o rest) = Len(first) + Len(rest) /\ Len(rest) \in Nat
    BY <2>3, <2>4, JoinIs
  <2> QED
    BY <2>2, <2>4, <2>5
<1> QED
  BY <1>1, <1>2

\* The bytes of a field.
Written(fld) ==
    IF fld.wire = 0 THEN field_varint(fld.field, fld.number)
                    ELSE field_string(fld.field, fld.bytes)

\* A field holds a number or bytes.
LEMMA FieldIs ==
    ASSUME NEW fld \in FieldSet
    PROVE  \/ /\ fld.field \in Nat /\ fld.number \in Nat
              /\ fld = Value(fld.field, fld.number)
              /\ Written(fld) = field_varint(fld.field, fld.number)
           \/ /\ fld.field \in Nat /\ fld.bytes \in Bytes
              /\ fld = Blob(fld.field, fld.bytes)
              /\ Written(fld) = field_string(fld.field, fld.bytes)
<1>1. CASE \E f, n \in Nat : fld = Value(f, n)
  BY <1>1 DEF Value, Written
<1>2. CASE \E f \in Nat, b \in Bytes : fld = Blob(f, b)
  BY <1>2 DEF Blob, Written
<1> QED
  BY <1>1, <1>2 DEF FieldSet

\* The beginning of a field that is read in its stead.
PartOf(read, meant) ==
    /\ [read EXCEPT !.bytes = <<>>] = [meant EXCEPT !.bytes = <<>>]
    /\ Len(read.bytes) <= Len(meant.bytes)
    /\ read.bytes = SubSeq(meant.bytes, 1, Len(read.bytes))

\* The first k bytes are a part.
LEMMA BlobPart ==
    ASSUME NEW f \in Nat, NEW b \in Bytes, NEW k \in 0 .. Len(b)
    PROVE  /\ Blob(f, SubSeq(b, 1, k)) \in FieldSet
           /\ PartOf(Blob(f, SubSeq(b, 1, k)), Blob(f, b))
<1>1. Len(b) \in Nat /\ k \in Nat
  BY ByteIs
<1> DEFINE s == SubSeq(b, 1, k)
<1>2. \A i \in 1 .. k : b[i] \in 0 .. 2 * Group - 1
  BY <1>1, ByteIs
<1>3. /\ s \in Seq(0 .. 2 * Group - 1)
      /\ Len(s) = (IF 1 <= k THEN k - 1 + 1 ELSE 0)
  BY <1>1, <1>2, SubSeqProperties
<1>4. s \in Bytes /\ Len(s) = k
  BY <1>1, <1>3 DEF Bytes
<1>5. s = SubSeq(b, 1, Len(s))
  BY <1>4
<1> HIDE DEF s
<1>6. Blob(f, s) \in FieldSet
  BY <1>4 DEF FieldSet
<1>7. PartOf(Blob(f, s), Blob(f, b))
  BY <1>1, <1>4, <1>5 DEF PartOf, Blob
<1> QED
  BY <1>6, <1>7 DEF s

\* The number of a field has no bytes to lose.
LEMMA WholeIsPart ==
    ASSUME NEW fld \in FieldSet
    PROVE  PartOf(fld, fld)
<1>1. fld.bytes \in Seq(0 .. 2 * Group - 1)
  <2>1. CASE fld = Value(fld.field, fld.number)
    <3>1. fld.bytes = <<>>
      BY <2>1 DEF Value
    <3>2. <<>> \in Seq(0 .. 2 * Group - 1)
      OBVIOUS
    <3> QED
      BY <3>1, <3>2
  <2>2. CASE fld.bytes \in Bytes
    BY <2>2 DEF Bytes
  <2> QED
    BY <2>1, <2>2, FieldIs
<1>2. fld.bytes = SubSeq(fld.bytes, 1, Len(fld.bytes))
  BY <1>1, SubSeqFull
<1> QED
  BY <1>1, <1>2 DEF PartOf

\* A field is read back, and of one that is cut short a part, or nothing.
LEMMA FieldReadBack ==
    ASSUME NEW data \in Bytes, NEW p \in Place, NEW fld \in FieldSet
    PROVE  /\ Written(fld) \in Bytes /\ 0 < Len(Written(fld))
           /\ Holds(data, p, Written(fld)) =>
                  ParseField(data, p) = Parsed(fld, p + Len(Written(fld)))
           /\ Ends(data, p, Written(fld)) =>
                  \/ ParseField(data, p) = Raised
                  \/ \E part \in FieldSet, next \in Place :
                         /\ PartOf(part, fld) /\ next > Len(data)
                         /\ ParseField(data, p) = Parsed(part, next)
<1> DEFINE f == fld.field
<1>1. CASE /\ f \in Nat /\ fld.number \in Nat /\ fld = Value(f, fld.number)
           /\ Written(fld) = field_varint(f, fld.number)
  <2> DEFINE tag == varint[f * Wires]
             number == varint[fld.number]
  <2>1. Written(fld) = tag \o number /\ tag \in Bytes /\ number \in Bytes
    BY <1>1, FieldBytes, CodecAssumption DEF field_varint, Bytes
  <2>2. f * Wires \in Nat
    BY <1>1, CodecAssumption
  <2>3. 0 < Len(tag)
    BY <2>2, VarintNotEmpty
  <2> HIDE DEF tag, number
  <2>4. Written(fld) \in Bytes /\ 0 < Len(Written(fld))
    <3>1. tag \o number \in Bytes /\ Len(tag) \in Nat /\ Len(number) \in Nat
          /\ Len(tag \o number) = Len(tag) + Len(number)
      BY <2>1, JoinIs
    <3> QED
      BY <2>1, <2>3, <3>1
  <2> QED
    BY <1>1, <2>4, ValueReadBack
<1>2. CASE /\ f \in Nat /\ fld.bytes \in Bytes /\ fld = Blob(f, fld.bytes)
           /\ Written(fld) = field_string(f, fld.bytes)
  <2> DEFINE tag == varint[f * Wires + 2]
             number == varint[Len(fld.bytes)]
             b == fld.bytes
  <2>1. Written(fld) = (tag \o number) \o b /\ tag \in Bytes /\ number \in Bytes /\ b \in Bytes
    BY <1>2, FieldBytes, CodecAssumption DEF field_string, Bytes
  <2>2. f * Wires + 2 \in Nat
    BY <1>2, CodecAssumption
  <2>3. 0 < Len(tag)
    BY <2>2, VarintNotEmpty
  <2> HIDE DEF tag, number, b
  <2>4. Written(fld) \in Bytes /\ 0 < Len(Written(fld))
    <3>1. tag \o number \in Bytes /\ Len(tag) \in Nat /\ Len(number) \in Nat
          /\ Len(tag \o number) = Len(tag) + Len(number)
      BY <2>1, JoinIs
    <3>2. (tag \o number) \o b \in Bytes /\ Len(b) \in Nat
          /\ Len((tag \o number) \o b) = Len(tag \o number) + Len(b)
      BY <2>1, <3>1, JoinIs
    <3> QED
      BY <2>1, <2>3, <3>1, <3>2
  <2>5. Holds(data, p, Written(fld)) => ParseField(data, p) = Parsed(fld, p + Len(Written(fld)))
    BY <1>2, BlobReadBack
  <2>6. ASSUME Ends(data, p, Written(fld))
        PROVE  \/ ParseField(data, p) = Raised
               \/ \E part \in FieldSet, next \in Place :
                      /\ PartOf(part, fld) /\ next > Len(data)
                      /\ ParseField(data, p) = Parsed(part, next)
    <3>1. ParseField(data, p) = Raised \/ Shortened(ParseField(data, p), f, fld.bytes, data)
      BY <1>2, <2>6, BlobReadBack
    <3>2. ASSUME Shortened(ParseField(data, p), f, fld.bytes, data)
          PROVE  \E part \in FieldSet, next \in Place :
                      /\ PartOf(part, fld) /\ next > Len(data)
                      /\ ParseField(data, p) = Parsed(part, next)
      <4>1. PICK k \in 0 .. Len(fld.bytes), next \in Place :
                next > Len(data) /\ ParseField(data, p) = Parsed(Blob(f, SubSeq(fld.bytes, 1, k)), next)
        BY <3>2 DEF Shortened
      <4> DEFINE part == Blob(f, SubSeq(fld.bytes, 1, k))
      <4>2. part \in FieldSet /\ PartOf(part, fld)
        BY <1>2, BlobPart
      <4> HIDE DEF part
      <4> QED
        BY <4>1, <4>2 DEF part
    <3> QED
      BY <3>1, <3>2
  <2> QED
    BY <2>4, <2>5, <2>6
<1> QED
  BY <1>1, <1>2, FieldIs

\* Where the fields of a message begin, and where the last one ends.
Delimited(bytes, fields, at) ==
    /\ bytes \in Bytes /\ fields \in Seq(FieldSet)
    /\ at \in [1 .. Len(fields) + 1 -> Place]
    /\ at[1] = 1 /\ at[Len(fields) + 1] = Len(bytes) + 1
    /\ \A i \in 1 .. Len(fields) :
           at[i + 1] = at[i] + Len(Written(fields[i])) /\ Holds(bytes, at[i], Written(fields[i]))

\* The bytes are those of the fields, one after the other.
Spells(bytes, fields) == \E at : Delimited(bytes, fields, at)

\* What is read of the fields from number i on is what has been written of them.
PartsFrom(read, fields, i) ==
    /\ Len(read) <= Len(fields) + 1 - i
    /\ \A j \in 1 .. Len(read) :
           /\ PartOf(read[j], fields[i + j - 1])
           /\ j < Len(read) => read[j] = fields[i + j - 1]

\* The rest of a message, of which the first c bytes are there.
RestRead(data, fields, at, i) ==
    at[i] <= Len(data) + 1 =>
        LET rest == FieldsFrom(data)[at[i]]
        IN  /\ ~rest.raised => PartsFrom(rest.result, fields, i)
            /\ at[Len(fields) + 1] = Len(data) + 1 =>
                   ~rest.raised /\ rest.result = SubSeq(fields, i, Len(fields))

Beginning(data, bytes) ==
    /\ data \in Bytes /\ bytes \in Bytes /\ Len(data) <= Len(bytes)
    /\ \A i \in 1 .. Len(data) : data[i] = bytes[i]

\* What is found in a message is found in its beginning, or cut short there.
LEMMA HoldsInBeginning ==
    ASSUME NEW data, NEW bytes, Beginning(data, bytes), NEW p \in Place, NEW s \in Bytes,
           Holds(bytes, p, s), p <= Len(data) + 1
    PROVE  Holds(data, p, s) \/ Ends(data, p, s)
<1>1. /\ Len(data) \in Nat /\ Len(bytes) \in Nat /\ Len(s) \in Nat /\ p \in Nat /\ 0 < p
      /\ data \in Bytes /\ Len(data) <= Len(bytes)
  BY ByteIs DEF Place, Beginning
<1>2. ASSUME NEW j \in 1 .. Len(s), p + j - 1 <= Len(data)
      PROVE  data[p + j - 1] = s[j]
  <2>1. p + j - 1 \in 1 .. Len(data)
    BY <1>1, <1>2
  <2>2. data[p + j - 1] = bytes[p + j - 1]
    BY <2>1 DEF Beginning
  <2> QED
    BY <2>2 DEF Holds
<1>3. CASE p + Len(s) <= Len(data) + 1
  <2>1. \A j \in 1 .. Len(s) : p + j - 1 <= Len(data)
    BY <1>1, <1>3
  <2>2. \A j \in 1 .. Len(s) : data[p + j - 1] = s[j]
    BY <1>2, <2>1
  <2> QED
    BY <1>3, <2>2 DEF Holds
<1>4. CASE ~(p + Len(s) <= Len(data) + 1)
  <2>1. Len(data) + 1 < p + Len(s)
    BY <1>1, <1>4
  <2> QED
    BY <1>2, <2>1 DEF Ends
<1> QED
  BY <1>3, <1>4

\* After the last byte there are no more fields, ...
LEMMA PastTheEnd ==
    ASSUME NEW data \in Bytes, NEW pos \in Place, pos > Len(data)
    PROVE  FieldsFrom(data)[pos] = Parsed(<<>>, pos)
  BY FieldsFromDefined DEF FieldsReadAt

\* ... and otherwise a field and those after it.
LEMMA FieldThenRest ==
    ASSUME NEW data \in Bytes, NEW pos \in Place, ~(pos > Len(data)),
           NEW fld \in FieldSet, NEW next \in Place, ParseField(data, pos) = Parsed(fld, next)
    PROVE  LET rest == FieldsFrom(data)[next]
           IN  FieldsFrom(data)[pos] = IF rest.raised THEN Raised
                                       ELSE Parsed(<<fld>> \o rest.result, rest.next)
<1> DEFINE first == ParseField(data, pos)
<1>1. first = Parsed(fld, next)
  OBVIOUS
<1>2. FieldsFrom(data)[pos] = IF first.raised THEN Raised
                              ELSE Prepend(first.result, FieldsFrom(data)[first.next])
  BY FieldsFromDefined DEF FieldsReadAt
<1> HIDE DEF first
<1>3. first.raised = FALSE /\ first.result = fld /\ first.next = next
  BY <1>1 DEF Parsed
<1>4. FieldsFrom(data)[pos] = Prepend(fld, FieldsFrom(data)[next])
  BY <1>2, <1>3
<1> QED
  BY <1>4 DEF Prepend

\* Nothing is the part of anything.
LEMMA NothingIsPart ==
    ASSUME NEW fields \in Seq(FieldSet), NEW i \in 1 .. Len(fields) + 1
    PROVE  PartsFrom(<<>>, fields, i)
  BY DEF PartsFrom

\* One more field in front.
LEMMA PartsPrepend ==
    ASSUME NEW fields \in Seq(FieldSet), NEW i \in 1 .. Len(fields),
           NEW read \in Seq(FieldSet), PartsFrom(read, fields, i + 1),
           NEW fld \in FieldSet, PartOf(fld, fields[i]), read = <<>> \/ fld = fields[i]
    PROVE  PartsFrom(<<fld>> \o read, fields, i)
<1> DEFINE all == <<fld>> \o read
<1>1. /\ Len(fields) \in Nat /\ Len(read) \in Nat /\ Len(all) = 1 + Len(read)
      /\ all[1] = fld /\ \A j \in 1 .. Len(read) : all[1 + j] = read[j]
  OBVIOUS
<1> HIDE DEF all
<1>2. Len(all) <= Len(fields) + 1 - i
  BY <1>1 DEF PartsFrom
<1>3. ASSUME NEW j \in 1 .. Len(all)
      PROVE  /\ PartOf(all[j], fields[i + j - 1])
             /\ j < Len(all) => all[j] = fields[i + j - 1]
  <2>1. CASE j = 1
    <3>1. all[j] = fld /\ i + j - 1 = i
      BY <1>1, <2>1
    <3>2. j < Len(all) => read # <<>>
      BY <1>1, <2>1
    <3> QED
      BY <3>1, <3>2
  <2>2. CASE j # 1
    <3> DEFINE k == j - 1
    <3>1. k \in 1 .. Len(read) /\ j = 1 + k /\ i + 1 + k - 1 = i + j - 1
      BY <1>1, <2>2
    <3>2. j < Len(all) => k < Len(read)
      BY <1>1, <2>2
    <3> HIDE DEF k
    <3>3. all[j] = read[k]
      BY <1>1, <3>1
    <3>4. /\ PartOf(read[k], fields[i + 1 + k - 1])
          /\ k < Len(read) => read[k] = fields[i + 1 + k - 1]
      BY <3>1 DEF PartsFrom
    <3> QED
      BY <3>1, <3>2, <3>3, <3>4
  <2> QED
    BY <2>1, <2>2
<1> QED
  BY <1>2, <1>3 DEF PartsFrom, all

\* After the last field nothing is left to read, ...
LEMMA RestReadLast ==
    ASSUME NEW data, NEW bytes, NEW fields, NEW at,
           Delimited(bytes, fields, at), Beginning(data, bytes)
    PROVE  RestRead(data, fields, at, Len(fields) + 1)
<1> DEFINE i == Len(fields) + 1
<1>1. /\ Len(fields) \in Nat /\ Len(data) \in Nat /\ Len(bytes) \in Nat /\ data \in Bytes
      /\ i \in 1 .. Len(fields) + 1 /\ at[i] = Len(bytes) + 1 /\ at[i] \in Place
      /\ fields \in Seq(FieldSet) /\ Len(data) <= Len(bytes)
  BY ByteIs DEF Delimited, Beginning
<1> HIDE DEF i
<1> SUFFICES ASSUME at[i] <= Len(data) + 1
             PROVE  LET rest == FieldsFrom(data)[at[i]]
                    IN  /\ ~rest.raised => PartsFrom(rest.result, fields, i)
                        /\ ~rest.raised /\ rest.result = SubSeq(fields, i, Len(fields))
  BY DEF RestRead, i
<1>2. at[i] > Len(data)
  BY <1>1
<1> DEFINE rest == FieldsFrom(data)[at[i]]
<1>3. rest = Parsed(<<>>, at[i])
  BY <1>1, <1>2, PastTheEnd
<1> HIDE DEF rest
<1>4. rest.raised = FALSE /\ rest.result = <<>>
  BY <1>3 DEF Parsed
<1>5. SubSeq(fields, i, Len(fields)) = <<>>
  BY <1>1, SubSeqEmpty DEF i
<1>6. PartsFrom(<<>>, fields, i)
  BY <1>1, NothingIsPart
<1> QED
  BY <1>4, <1>5, <1>6 DEF rest

\* ... and each field is read like those after it.
LEMMA RestReadStep ==
    ASSUME NEW data, NEW bytes, NEW fields, NEW at,
           Delimited(bytes, fields, at), Beginning(data, bytes),
           NEW i \in 1 .. Len(fields), RestRead(data, fields, at, i + 1)
    PROVE  RestRead(data, fields, at, i)
<1> DEFINE p == at[i]
           q == at[i + 1]
           fld == fields[i]
           all == FieldsFrom(data)[p]
           rest == FieldsFrom(data)[q]
<1>1. /\ Len(fields) \in Nat /\ Len(data) \in Nat /\ Len(bytes) \in Nat /\ data \in Bytes
      /\ i + 1 \in 1 .. Len(fields) + 1 /\ at[Len(fields) + 1] = Len(bytes) + 1
      /\ fields \in Seq(FieldSet) /\ Len(data) <= Len(bytes)
  BY ByteIs DEF Delimited, Beginning
<1>2. p \in Place /\ q \in Place /\ fld \in FieldSet
  <2>1. at \in [1 .. Len(fields) + 1 -> Place] /\ i \in 1 .. Len(fields) + 1
    BY <1>1 DEF Delimited
  <2>2. fields[i] \in FieldSet
    BY <1>1
  <2> QED
    BY <1>1, <2>1, <2>2
<1>3. q = p + Len(Written(fld)) /\ Holds(bytes, p, Written(fld))
  BY DEF Delimited
<1>4. Written(fld) \in Bytes /\ 0 < Len(Written(fld)) /\ Len(Written(fld)) \in Nat
  BY <1>1, <1>2, FieldReadBack, ByteIs
<1>5. all \in FieldLists /\ rest \in FieldLists
  BY <1>1, <1>2, FieldsFromDefined
<1>6. q <= Len(data) + 1 =>
          /\ ~rest.raised => PartsFrom(rest.result, fields, i + 1)
          /\ at[Len(fields) + 1] = Len(data) + 1 =>
                 ~rest.raised /\ rest.result = SubSeq(fields, i + 1, Len(fields))
  BY DEF RestRead
<1>7. \/ rest.raised = TRUE
      \/ rest.raised = FALSE /\ rest.result \in Seq(FieldSet)
  BY <1>5, OutcomeIs DEF FieldLists
<1> HIDE DEF p, q, fld, all, rest
<1> SUFFICES ASSUME p <= Len(data) + 1
             PROVE  /\ ~all.raised => PartsFrom(all.result, fields, i)
                    /\ at[Len(fields) + 1] = Len(data) + 1 =>
                           ~all.raised /\ all.result = SubSeq(fields, i, Len(fields))
  BY DEF RestRead, p, all
<1>8. CASE p > Len(data)
  <2>1. all = Parsed(<<>>, p)
    BY <1>1, <1>2, <1>8, PastTheEnd DEF all
  <2>2. all.result = <<>>
    BY <2>1 DEF Parsed
  <2>3. PartsFrom(<<>>, fields, i)
    BY <1>1, NothingIsPart
  <2>4. p + Len(Written(fld)) <= Len(bytes) + 1
    BY <1>3 DEF Holds
  <2>5. at[Len(fields) + 1] # Len(data) + 1
    BY <1>1, <1>2, <1>4, <1>8, <2>4 DEF Place
  <2> QED
    BY <2>2, <2>3, <2>5
<1>9. CASE ~(p > Len(data)) /\ Holds(data, p, Written(fld))
  <2>1. ParseField(data, p) = Parsed(fld, q)
    BY <1>1, <1>2, <1>3, <1>9, FieldReadBack
  <2>2. all = IF rest.raised THEN Raised ELSE Parsed(<<fld>> \o rest.result, rest.next)
    BY <1>1, <1>2, <1>9, <2>1, FieldThenRest DEF all, rest
  <2>3. q <= Len(data) + 1
    BY <1>3, <1>9 DEF Holds
  <2>4. CASE rest.raised
    <3>1. all = Raised
      BY <2>2, <2>4
    <3>2. all.raised = TRUE
      BY <3>1 DEF Raised
    <3> QED
      BY <1>6, <2>3, <2>4, <3>2
  <2>5. CASE ~rest.raised
    <3>1. all = Parsed(<<fld>> \o rest.result, rest.next)
      BY <2>2, <2>5
    <3>2. all.raised = FALSE /\ all.result = <<fld>> \o rest.result
      BY <3>1 DEF Parsed
    <3>3. PartsFrom(<<fld>> \o rest.result, fields, i)
      BY <1>1, <1>2, <1>6, <1>7, <2>3, <2>5, PartsPrepend, WholeIsPart DEF fld
    <3>4. SubSeq(fields, i, Len(fields)) = <<fld>> \o SubSeq(fields, i + 1, Len(fields))
      BY <1>1, SubSeqRecursiveFirst DEF fld
    <3> QED
      BY <1>6, <2>3, <2>5, <3>2, <3>3, <3>4
  <2> QED
    BY <2>4, <2>5
<1>10. CASE ~(p > Len(data)) /\ Ends(data, p, Written(fld))
  <2>1. at[Len(fields) + 1] # Len(data) + 1
    <3>1. Len(data) + 1 < p + Len(Written(fld)) /\ p + Len(Written(fld)) <= Len(bytes) + 1
      BY <1>3, <1>10 DEF Holds, Ends
    <3> QED
      BY <1>1, <1>2, <1>4, <3>1 DEF Place
  <2>2. CASE ParseField(data, p) = Raised
    <3>1. ParseField(data, p).raised = TRUE
      BY <2>2 DEF Raised
    <3>2. all = Raised
      BY <1>1, <1>2, <1>10, <3>1, FieldsFromDefined DEF FieldsReadAt, all
    <3>3. all.raised = TRUE
      BY <3>2 DEF Raised
    <3> QED
      BY <2>1, <3>3
  <2>3. ASSUME NEW part \in FieldSet, NEW next \in Place, PartOf(part, fld), next > Len(data),
               ParseField(data, p) = Parsed(part, next)
        PROVE  ~all.raised => PartsFrom(all.result, fields, i)
    <3> DEFINE end == FieldsFrom(data)[next]
    <3>1. end = Parsed(<<>>, next)
      BY <1>1, <2>3, PastTheEnd
    <3>2. all = IF end.raised THEN Raised ELSE Parsed(<<part>> \o end.result, end.next)
      BY <1>1, <1>2, <1>10, <2>3, FieldThenRest DEF all
    <3> HIDE DEF end
    <3>3. end.raised = FALSE /\ end.result = <<>>
      BY <3>1 DEF Parsed
    <3>4. all = Parsed(<<part>> \o <<>>, end.next)
      BY <3>2, <3>3
    <3>5. all.result = <<part>> \o <<>>
      BY <3>4 DEF Parsed
    <3>6. PartsFrom(<<>>, fields, i + 1) /\ <<>> \in Seq(FieldSet)
      BY <1>1, NothingIsPart
    <3>7. PartsFrom(<<part>> \o <<>>, fields, i)
      BY <1>1, <2>3, <3>6, PartsPrepend DEF fld
    <3> QED
      BY <3>5, <3>7
  <2> QED
    BY <1>1, <1>2, <1>10, <2>1, <2>2, <2>3, FieldReadBack
<1> QED
  BY <1>1, <1>2, <1>3, <1>4, <1>8, <1>9, <1>10, HoldsInBeginning

\* parse_fields gives back the fields that a message was made of, however many and
\* whatever is in them; and of a message that is cut short it gives, if it does not
\* raise, a beginning of those fields: none is made up and none is changed, but the
\* last one may have lost the end of its bytes.
THEOREM MessageReadBack ==
    ASSUME NEW bytes, NEW fields, Spells(bytes, fields), NEW data, Beginning(data, bytes)
    PROVE  /\ ~ParseFields(data).raised => PartsFrom(ParseFields(data).result, fields, 1)
           /\ Len(data) = Len(bytes) =>
                  ~ParseFields(data).raised /\ ParseFields(data).result = fields
<1>1. PICK at : Delimited(bytes, fields, at)
  BY DEF Spells
<1>2. /\ Len(fields) \in Nat /\ data \in Bytes /\ fields \in Seq(FieldSet)
      /\ at[1] = 1 /\ at[Len(fields) + 1] = Len(bytes) + 1 /\ Len(data) \in Nat
  BY <1>1, ByteIs DEF Delimited, Beginning
<1> DEFINE Read == {k \in Nat : k <= Len(fields) =>
                       RestRead(data, fields, at, Len(fields) + 1 - k)}
<1>3. 0 \in Read
  <2>1. RestRead(data, fields, at, Len(fields) + 1)
    BY <1>1, RestReadLast
  <2>2. Len(fields) + 1 - 0 = Len(fields) + 1
    BY <1>2
  <2> QED
    BY <2>1, <2>2
<1>4. ASSUME NEW k \in Nat, k \in Read
      PROVE  k + 1 \in Read
  <2> SUFFICES ASSUME k + 1 <= Len(fields)
               PROVE  RestRead(data, fields, at, Len(fields) + 1 - (k + 1))
    OBVIOUS
  <2> DEFINE i == Len(fields) + 1 - (k + 1)
  <2>1. i \in 1 .. Len(fields) /\ i + 1 = Len(fields) + 1 - k /\ k <= Len(fields)
    BY <1>2
  <2>2. RestRead(data, fields, at, i + 1)
    BY <1>4, <2>1
  <2> HIDE DEF i
  <2>3. RestRead(data, fields, at, i)
    BY <1>1, <2>1, <2>2, RestReadStep
  <2> QED
    BY <2>3 DEF i
<1> HIDE DEF Read
<1>5. Nat \subseteq Read
  BY <1>3, <1>4, Induction
<1>6. RestRead(data, fields, at, 1)
  <2>1. Len(fields) \in Read
    BY <1>2, <1>5
  <2>2. Len(fields) <= Len(fields) /\ Len(fields) + 1 - Len(fields) = 1
    BY <1>2
  <2>3. RestRead(data, fields, at, Len(fields) + 1 - Len(fields))
    BY <2>1, <2>2 DEF Read
  <2> QED
    BY <2>2, <2>3
<1> DEFINE rest == FieldsFrom(data)[1]
<1>7. ParseFields(data) = rest
  BY <1>2, FieldsFromDefined
<1>8. /\ ~rest.raised => PartsFrom(rest.result, fields, 1)
      /\ at[Len(fields) + 1] = Len(data) + 1 =>
             ~rest.raised /\ rest.result = SubSeq(fields, 1, Len(fields))
  BY <1>2, <1>6 DEF RestRead
<1> HIDE DEF rest
<1>9. SubSeq(fields, 1, Len(fields)) = fields
  BY <1>2, SubSeqFull
<1> QED
  BY <1>2, <1>7, <1>8, <1>9

\* The same, field by field: what is read as number j is the field that was written
\* as number j or, if it is the last, one with a beginning of its bytes.
LEMMA PartRead ==
    ASSUME NEW bytes, NEW fields, Spells(bytes, fields), NEW data, Beginning(data, bytes),
           ~ParseFields(data).raised
    PROVE  LET read == ParseFields(data).result
           IN  /\ read \in Seq(FieldSet) /\ Len(read) \in Nat /\ Len(read) <= Len(fields)
               /\ \A j \in 1 .. Len(read) :
                      /\ read[j].field = fields[j].field /\ read[j].wire = fields[j].wire
                      /\ read[j].number = fields[j].number
                      /\ Beginning(read[j].bytes, fields[j].bytes)
                      /\ j < Len(read) => read[j] = fields[j]
<1> DEFINE read == ParseFields(data).result
<1>1. fields \in Seq(FieldSet) /\ Len(fields) \in Nat
  BY DEF Spells, Delimited
<1>2. read \in Seq(FieldSet) /\ Len(read) \in Nat
  <2>1. data \in Bytes /\ 1 \in Place
    BY DEF Beginning, Place
  <2>2. ParseFields(data) \in FieldLists
    BY <2>1, FieldsFromDefined
  <2> DEFINE all == ParseFields(data)
  <2>3. all \in Outcomes(Seq(FieldSet)) /\ ~all.raised
    BY <2>2 DEF FieldLists
  <2> HIDE DEF all
  <2>4. all.result \in Seq(FieldSet)
    BY <2>3, OutcomeIs
  <2> QED
    BY <2>4 DEF all
<1>3. PartsFrom(read, fields, 1)
  BY MessageReadBack
<1> HIDE DEF read
<1>4. Len(read) <= Len(fields)
  BY <1>1, <1>2, <1>3 DEF PartsFrom
<1>5. ASSUME NEW j \in 1 .. Len(read)
      PROVE  /\ read[j].field = fields[j].field /\ read[j].wire = fields[j].wire
             /\ read[j].number = fields[j].number
             /\ Beginning(read[j].bytes, fields[j].bytes)
             /\ j < Len(read) => read[j] = fields[j]
  <2>1. 1 + j - 1 = j /\ j \in 1 .. Len(fields)
    BY <1>1, <1>2, <1>4
  <2>2. PartOf(read[j], fields[j]) /\ (j < Len(read) => read[j] = fields[j])
    BY <1>3, <2>1 DEF PartsFrom
  <2>3. read[j] \in FieldSet /\ fields[j] \in FieldSet
    BY <1>1, <1>2, <2>1
  <2>4. /\ [read[j] EXCEPT !.bytes = <<>>] = [fields[j] EXCEPT !.bytes = <<>>]
        /\ Len(read[j].bytes) <= Len(fields[j].bytes)
        /\ read[j].bytes = SubSeq(fields[j].bytes, 1, Len(read[j].bytes))
    BY <2>2 DEF PartOf
  <2>5. ASSUME NEW fld \in FieldSet
        PROVE  fld \in [field : Nat, wire : {0, 2}, number : Nat, bytes : Bytes]
    <3>1. <<>> \in Bytes
      BY DEF Bytes
    <3> QED
      BY <3>1, FieldIs DEF Value, Blob
  <2>6. /\ read[j].field = fields[j].field /\ read[j].wire = fields[j].wire
        /\ read[j].number = fields[j].number
    BY <2>3, <2>4, <2>5
  <2> DEFINE b == read[j].bytes
             c == fields[j].bytes
  <2>7. b \in Bytes /\ c \in Bytes
    BY <2>3, <2>5
  <2>8. Len(b) <= Len(c) /\ b = SubSeq(c, 1, Len(b))
    BY <2>4
  <2> HIDE DEF b, c
  <2>9. Len(b) \in Nat /\ Len(c) \in Nat /\ \A i \in 1 .. Len(b) : c[i] \in 0 .. 2 * Group - 1
    BY <2>7, <2>8, ByteIs
  <2>10. \A i \in 1 .. Len(b) - 1 + 1 : SubSeq(c, 1, Len(b))[i] = c[1 + i - 1]
    BY <2>9, SubSeqProperties
  <2>11. \A i \in 1 .. Len(b) : b[i] = c[i]
    BY <2>8, <2>9, <2>10
  <2>12. Beginning(b, c)
    BY <2>7, <2>8, <2>11 DEF Beginning
  <2> QED
    BY <2>2, <2>6, <2>12 DEF b, c
<1> QED
  BY <1>2, <1>4, <1>5 DEF read

-----------------------------------------------------------------------------
\* A message without fields, ...
LEMMA NothingSpelt == Spells(<<>>, <<>>)
<1> DEFINE at == [i \in 1 .. 1 |-> 1]
<1>1. <<>> \in Bytes /\ <<>> \in Seq(FieldSet) /\ Len(<<>>) = 0
  BY DEF Bytes
<1>2. Delimited(<<>>, <<>>, at)
  BY <1>1 DEF Delimited, Place
<1> QED
  BY <1>2 DEF Spells

\* ... with one, ...
LEMMA FieldSpelt ==
    ASSUME NEW fld \in FieldSet
    PROVE  Spells(Written(fld), <<fld>>)
<1> DEFINE bytes == Written(fld)
           fields == <<fld>>
           at == [i \in 1 .. 2 |-> IF i = 1 THEN 1 ELSE Len(bytes) + 1]
<1>1. bytes \in Bytes
  <2>1. <<>> \in Bytes /\ 1 \in Place
    BY DEF Bytes, Place
  <2> QED
    BY <2>1, FieldReadBack
<1>2. Len(bytes) \in Nat
  BY <1>1, ByteIs
<1>3. fields \in Seq(FieldSet) /\ Len(fields) = 1 /\ fields[1] = fld
  OBVIOUS
<1> HIDE DEF fields
<1>4. fields[1] = fld /\ Written(fields[1]) = bytes
  BY <1>3
<1> HIDE DEF bytes
<1>5. Holds(bytes, 1, bytes)
  BY <1>2 DEF Holds
<1>6. Delimited(bytes, fields, at)
  BY <1>1, <1>2, <1>3, <1>4, <1>5 DEF Delimited, Place
<1> QED
  BY <1>6 DEF Spells, bytes, fields

\* What is found in bytes that are found.
LEMMA HoldsInside ==
    ASSUME NEW data \in Bytes, NEW b \in Bytes, NEW s \in Bytes,
           NEW q \in Place, NEW p \in Place, Holds(data, q, b), Holds(b, p, s)
    PROVE  Holds(data, q + p - 1, s)
<1>1. /\ Len(data) \in Nat /\ Len(b) \in Nat /\ Len(s) \in Nat
      /\ q \in Nat \ {0} /\ p \in Nat \ {0}
  BY ByteIs DEF Place
<1>2. ASSUME NEW j \in 1 .. Len(s)
      PROVE  data[q + p - 1 + j - 1] = s[j]
  <2> DEFINE i == p + j - 1
  <2>1. i \in 1 .. Len(b) /\ q + p - 1 + j - 1 = q + i - 1
    BY <1>1 DEF Holds
  <2>2. b[i] = s[j]
    BY DEF Holds
  <2> HIDE DEF i
  <2>3. data[q + i - 1] = b[i]
    BY <2>1 DEF Holds
  <2> QED
    BY <2>1, <2>2, <2>3
<1> QED
  BY <1>1, <1>2 DEF Holds

\* Both parts are found in the whole.
LEMMA JoinHoldsBoth ==
    ASSUME NEW b \in Bytes, NEW c \in Bytes
    PROVE  Holds(b \o c, 1, b) /\ Holds(b \o c, Len(b) + 1, c)
<1> DEFINE d == b \o c
<1>1. /\ Len(b) \in Nat /\ Len(c) \in Nat /\ Len(d) = Len(b) + Len(c)
      /\ \A j \in 1 .. Len(b) : d[j] = b[j]
      /\ \A j \in 1 .. Len(c) : d[Len(b) + j] = c[j]
  BY JoinIs
<1> HIDE DEF d
<1>2. Holds(d, 1, b)
  BY <1>1 DEF Holds
<1>3. \A j \in 1 .. Len(c) : d[Len(b) + 1 + j - 1] = c[j]
  BY <1>1
<1>4. Holds(d, Len(b) + 1, c)
  BY <1>1, <1>3 DEF Holds
<1> QED
  BY <1>2, <1>4 DEF d

\* ... and two messages in one.
LEMMA JoinSpelt ==
    ASSUME NEW b, NEW f, Spells(b, f), NEW c, NEW g, Spells(c, g)
    PROVE  Spells(b \o c, f \o g)
<1>1. PICK s : Delimited(b, f, s)
  BY DEF Spells
<1>2. PICK t : Delimited(c, g, t)
  BY DEF Spells
<1> DEFINE k == Len(f)
           n == Len(g)
           d == b \o c
           h == f \o g
<1>3. /\ b \in Bytes /\ c \in Bytes /\ f \in Seq(FieldSet) /\ g \in Seq(FieldSet)
      /\ s \in [1 .. k + 1 -> Place] /\ t \in [1 .. n + 1 -> Place]
      /\ s[1] = 1 /\ s[k + 1] = Len(b) + 1 /\ t[1] = 1 /\ t[n + 1] = Len(c) + 1
  BY <1>1, <1>2 DEF Delimited
<1>4. d \in Bytes /\ Len(b) \in Nat /\ Len(c) \in Nat /\ Len(d) = Len(b) + Len(c)
  BY <1>3, JoinIs
<1>5. /\ k \in Nat /\ n \in Nat /\ h \in Seq(FieldSet) /\ Len(h) = k + n
      /\ \A i \in 1 .. k : h[i] = f[i] /\ f[i] \in FieldSet
      /\ \A i \in 1 .. n : h[k + i] = g[i] /\ g[i] \in FieldSet
  BY <1>3
<1>6. Holds(d, 1, b) /\ Holds(d, Len(b) + 1, c)
  BY <1>3, JoinHoldsBoth
<1>7. \A fld \in FieldSet : Written(fld) \in Bytes
  <2>1. <<>> \in Bytes /\ 1 \in Place
    BY DEF Bytes, Place
  <2> QED
    BY <2>1, FieldReadBack
<1>8. ASSUME NEW i \in 1 .. k
      PROVE  s[i + 1] = s[i] + Len(Written(f[i])) /\ Holds(d, s[i], Written(f[i]))
  <2>1. s[i + 1] = s[i] + Len(Written(f[i])) /\ Holds(b, s[i], Written(f[i]))
    BY <1>1 DEF Delimited
  <2>2. s[i] \in Place /\ s[i] \in Nat /\ Written(f[i]) \in Bytes /\ 1 \in Place
    BY <1>3, <1>5, <1>7 DEF Place
  <2>3. Holds(d, 1 + s[i] - 1, Written(f[i]))
    BY <1>3, <1>4, <1>6, <2>1, <2>2, HoldsInside
  <2>4. 1 + s[i] - 1 = s[i]
    BY <2>2
  <2> QED
    BY <2>1, <2>3, <2>4
<1>9. ASSUME NEW i \in 1 .. n
      PROVE  /\ t[i + 1] = t[i] + Len(Written(g[i]))
             /\ Holds(d, Len(b) + t[i], Written(g[i]))
  <2>1. t[i + 1] = t[i] + Len(Written(g[i])) /\ Holds(c, t[i], Written(g[i]))
    BY <1>2 DEF Delimited
  <2>2. t[i] \in Place /\ t[i] \in Nat /\ Written(g[i]) \in Bytes /\ Len(b) + 1 \in Place
    BY <1>3, <1>4, <1>5, <1>7 DEF Place
  <2>3. Holds(d, (Len(b) + 1) + t[i] - 1, Written(g[i]))
    BY <1>3, <1>4, <1>6, <2>1, <2>2, HoldsInside
  <2>4. (Len(b) + 1) + t[i] - 1 = Len(b) + t[i]
    BY <1>4, <2>2
  <2> QED
    BY <2>1, <2>3, <2>4
<1> HIDE DEF k, n, d, h
<1> DEFINE at == [i \in 1 .. k + n + 1 |-> IF i <= k THEN s[i] ELSE Len(b) + t[i - k]]
<1>10. \A i \in 1 .. n + 1 :
           t[i] \in Nat \ {0} /\ k + i \in 1 .. k + n + 1 /\ k + i - k = i
  BY <1>3, <1>5 DEF Place
<1>11. /\ \A i \in 1 .. k + 1 : at[i] = s[i] /\ s[i] \in Nat \ {0}
       /\ \A i \in 1 .. n + 1 : at[k + i] = Len(b) + t[i]
  <2>1. \A i \in 1 .. k : at[i] = s[i]
    BY <1>5
  <2>2. ASSUME NEW i \in 1 .. n + 1
        PROVE  at[k + i] = Len(b) + t[i]
    <3> DEFINE x == k + i
    <3>1. x \in 1 .. k + n + 1 /\ x - k = i /\ ~(x <= k)
      BY <1>5, <1>10
    <3> HIDE DEF x
    <3>2. at[x] = Len(b) + t[i]
      BY <3>1
    <3> QED
      BY <3>2 DEF x
  <2>3. at[k + 1] = s[k + 1]
    BY <1>3, <1>4, <1>5, <2>2
  <2>4. \A i \in 1 .. k + 1 : i \in 1 .. k \/ i = k + 1
    BY <1>5
  <2>5. \A i \in 1 .. k + 1 : s[i] \in Nat \ {0}
    BY <1>3 DEF Place
  <2> HIDE DEF at
  <2> QED
    BY <2>1, <2>2, <2>3, <2>4, <2>5
<1>12. at \in [1 .. k + n + 1 -> Place]
  <2>1. \A i \in 1 .. k + n + 1 : i \in 1 .. k + 1 \/ (i - k \in 1 .. n + 1 /\ i = k + (i - k))
    BY <1>5
  <2>2. \A i \in 1 .. k + n + 1 : at[i] \in Place
    <3> HIDE DEF at
    <3> QED
      BY <1>4, <1>10, <1>11, <2>1 DEF Place
  <2> QED
    BY <2>2
<1> HIDE DEF at
<1>13. at[1] = 1
  BY <1>3, <1>5, <1>11
<1>14. at[k + n + 1] = Len(d) + 1
  <2>1. k + n + 1 = k + (n + 1) /\ n + 1 \in 1 .. n + 1
    BY <1>5
  <2> QED
    BY <1>3, <1>4, <1>11, <2>1
<1>15. ASSUME NEW i \in 1 .. k + n
       PROVE  at[i + 1] = at[i] + Len(Written(h[i])) /\ Holds(d, at[i], Written(h[i]))
  <2>1. CASE i \in 1 .. k
    <3>1. at[i] = s[i] /\ at[i + 1] = s[i + 1] /\ h[i] = f[i]
      BY <1>5, <1>11, <2>1
    <3> QED
      BY <1>8, <2>1, <3>1
  <2>2. CASE i \notin 1 .. k
    <3> DEFINE j == i - k
    <3>1. /\ j \in 1 .. n /\ i = k + j /\ i + 1 = k + (j + 1)
          /\ j \in 1 .. n + 1 /\ j + 1 \in 1 .. n + 1
      BY <1>5, <2>2
    <3> HIDE DEF j
    <3>2. at[i] = Len(b) + t[j] /\ at[i + 1] = Len(b) + t[j + 1] /\ h[i] = g[j]
      BY <1>5, <1>11, <3>1
    <3>3. t[j + 1] = t[j] + Len(Written(g[j])) /\ Holds(d, Len(b) + t[j], Written(g[j]))
      BY <1>9, <3>1
    <3>4. t[j] \in Nat /\ Len(Written(g[j])) \in Nat
      BY <1>5, <1>7, <1>10, <3>1, ByteIs
    <3>5. at[i + 1] = at[i] + Len(Written(h[i]))
      BY <1>4, <3>2, <3>3, <3>4
    <3> QED
      BY <3>2, <3>3, <3>5
  <2> QED
    BY <2>1, <2>2
<1>16. Delimited(d, h, at)
  BY <1>4, <1>5, <1>12, <1>13, <1>14, <1>15 DEF Delimited
<1> QED
  BY <1>16 DEF Spells, d, h
=============================================================================
