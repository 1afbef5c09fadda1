--------------------------- MODULE MeasureRecursion ---------------------------
(***************************************************************************)
(* Recursion along a measure, for the proofs about the codec.  A recursive *)
(* function is a CHOOSE: before anything can be said of its values one has *)
(* to know that some function fits its definition.                         *)
(*                                                                         *)
(* Whatever is proved by induction is the membership in a set, so that no  *)
(* lemma has an operator for a parameter.                                  *)
(***************************************************************************)
EXTENDS Naturals, WellFoundedInduction, TLAPS

\* Every set of numbers that is not empty has a least one.
LEMMA LeastNumber ==
    ASSUME NEW T \in SUBSET Nat, T # {}
    PROVE  \E n \in T : \A m \in T : n <= m
<1> DEFINE R == {ss \in Nat \X Nat : ss[1] < ss[2]}
<1>1. IsWellFoundedOn(R, Nat)
  BY NatLessThanWellFounded DEF OpToRel
<1>2. \A m, n \in Nat : m < n => <<m, n>> \in R
  OBVIOUS
<1> HIDE DEF R
<1>3. PICK n \in T : \A m \in T : ~(<<m, n>> \in R)
  BY <1>1, WFMin, Zenon
<1>4. ASSUME NEW m \in T
      PROVE  n <= m
  <2>1. m \in Nat /\ n \in Nat /\ ~(<<m, n>> \in R)
    BY <1>3
  <2> QED
    BY <1>2, <2>1
<1> QED
  BY <1>4

\* Induction, with a set for the property.
LEMMA Induction ==
    ASSUME NEW T, 0 \in T, \A n \in Nat : n \in T => n + 1 \in T
    PROVE  Nat \subseteq T
<1> SUFFICES ASSUME ~(Nat \subseteq T)
             PROVE  FALSE
  OBVIOUS
<1>1. PICK n \in Nat \ T : \A m \in Nat \ T : n <= m
  <2>1. Nat \ T # {}
    OBVIOUS
  <2> QED
    BY <2>1, LeastNumber
<1>2. n # 0 /\ n - 1 \in Nat /\ n - 1 \in T
  BY <1>1
<1> QED
  BY <1>1, <1>2

\* Course-of-values induction along a measure.
LEMMA MeasureInduction ==
    ASSUME NEW S, NEW m \in [S -> Nat], NEW T,
           \A s \in S : (\A r \in S : m[r] < m[s] => r \in T) => s \in T
    PROVE  S \subseteq T
<1> SUFFICES ASSUME NEW s \in S, s \notin T
             PROVE  FALSE
  OBVIOUS
<1> DEFINE Bad == {m[r] : r \in S \ T}
<1>1. Bad \in SUBSET Nat /\ Bad # {}
  OBVIOUS
<1>2. PICK n \in Bad : \A k \in Bad : n <= k
  BY <1>1, LeastNumber
<1>3. PICK r \in S \ T : n = m[r]
  OBVIOUS
<1>4. \A q \in S : m[q] < m[r] => q \in T
  BY <1>1, <1>2, <1>3
<1> QED
  BY <1>3, <1>4

\* D takes a function to the one whose values it determines, and only looks at
\* what its argument is at smaller places.
Local(D, S, T, m) ==
    \A g, h \in [S -> T] : \A s \in S :
        (\A r \in S : m[r] < m[s] => g[r] = h[r]) => D[g][s] = D[h][s]

FixedBelow(D, S, T, m, n, f) ==
    f \in [S -> T] /\ \A s \in S : m[s] < n => f[s] = D[f][s]

AgreeBelow(S, m, n, f, g) == \A s \in S : m[s] < n => f[s] = g[s]

\* There is a function that is right below every bound ...
LEMMA DefinedBelow ==
    ASSUME NEW S, NEW T, T # {}, NEW m \in [S -> Nat], NEW D \in [[S -> T] -> [S -> T]],
           Local(D, S, T, m)
    PROVE  \A n \in Nat : \E f : FixedBelow(D, S, T, m, n, f)
<1> DEFINE Good == {n \in Nat : \E f : FixedBelow(D, S, T, m, n, f)}
<1>1. 0 \in Good
  <2>1. PICK t : t \in T
    OBVIOUS
  <2>2. [s \in S |-> t] \in [S -> T]
    BY <2>1
  <2>3. \A s \in S : ~(m[s] < 0)
    OBVIOUS
  <2>4. FixedBelow(D, S, T, m, 0, [s \in S |-> t])
    BY <2>2, <2>3 DEF FixedBelow
  <2> QED
    BY <2>4
<1>2. ASSUME NEW n \in Nat, n \in Good
      PROVE  n + 1 \in Good
  <2>1. PICK f : FixedBelow(D, S, T, m, n, f)
    BY <1>2
  <2>2. f \in [S -> T] /\ D[f] \in [S -> T]
    BY <2>1 DEF FixedBelow
  <2>3. ASSUME NEW s \in S, m[s] < n + 1
        PROVE  D[f][s] = D[D[f]][s]
    <3>1. \A r \in S : m[r] < m[s] => f[r] = D[f][r]
      BY <2>1, <2>3 DEF FixedBelow
    <3> QED
      BY <2>2, <3>1 DEF Local
  <2>4. FixedBelow(D, S, T, m, n + 1, D[f])
    BY <2>2, <2>3 DEF FixedBelow
  <2> QED
    BY <2>4
<1> HIDE DEF Good
<1>3. Nat \subseteq Good
  BY <1>1, <1>2, Induction
<1> QED
  BY <1>3 DEF Good

\* ... and only one.
LEMMA DefinedOnce ==
    ASSUME NEW S, NEW T, NEW m \in [S -> Nat], NEW D \in [[S -> T] -> [S -> T]],
           Local(D, S, T, m)
    PROVE  \A n \in Nat : \A f, g :
               FixedBelow(D, S, T, m, n, f) /\ FixedBelow(D, S, T, m, n, g)
                   => AgreeBelow(S, m, n, f, g)
<1> SUFFICES ASSUME NEW n \in Nat,
                    NEW f, FixedBelow(D, S, T, m, n, f),
                    NEW g, FixedBelow(D, S, T, m, n, g)
             PROVE  AgreeBelow(S, m, n, f, g)
  OBVIOUS
<1> DEFINE Same == {s \in S : m[s] < n => f[s] = g[s]}
<1>1. ASSUME NEW s \in S, \A r \in S : m[r] < m[s] => r \in Same
      PROVE  s \in Same
  <2> SUFFICES ASSUME m[s] < n
               PROVE  f[s] = g[s]
    OBVIOUS
  <2>1. \A r \in S : m[r] < m[s] => f[r] = g[r]
    BY <1>1
  <2>2. f \in [S -> T] /\ g \in [S -> T] /\ f[s] = D[f][s] /\ g[s] = D[g][s]
    BY DEF FixedBelow
  <2>3. D[f][s] = D[g][s]
    BY <2>1, <2>2 DEF Local
  <2> QED
    BY <2>2, <2>3
<1> HIDE DEF Same
<1>2. S \subseteq Same
  BY <1>1, MeasureInduction
<1> QED
  BY <1>2 DEF Same, AgreeBelow

WellDefined(D, S, T, m) ==
    /\ T # {} /\ m \in [S -> Nat] /\ D \in [[S -> T] -> [S -> T]]
    /\ Local(D, S, T, m)

\* A recursive definition along a measure defines a function.
LEMMA Recursion ==
    ASSUME NEW D, NEW S, NEW T, NEW m, WellDefined(D, S, T, m)
    PROVE  \E f \in [S -> T] : f = D[f]
<1>0. /\ T # {} /\ m \in [S -> Nat] /\ D \in [[S -> T] -> [S -> T]]
      /\ Local(D, S, T, m)
  BY DEF WellDefined
<1>1. \A n \in Nat : \A f, g :
           FixedBelow(D, S, T, m, n, f) /\ FixedBelow(D, S, T, m, n, g)
               => AgreeBelow(S, m, n, f, g)
  BY <1>0, DefinedOnce
<1> DEFINE upto(n) == CHOOSE f : FixedBelow(D, S, T, m, n, f)
           F == [s \in S |-> upto(m[s] + 1)[s]]
<1>2. ASSUME NEW n \in Nat
      PROVE  FixedBelow(D, S, T, m, n, upto(n))
  BY <1>0, DefinedBelow
<1> HIDE DEF upto
<1> USE <1>0
<1>3. F \in [S -> T]
  BY <1>2 DEF FixedBelow
<1>4. ASSUME NEW s \in S
      PROVE  F[s] = D[F][s]
  <2>1. FixedBelow(D, S, T, m, m[s] + 1, upto(m[s] + 1))
    BY <1>2
  <2>2. ASSUME NEW r \in S, m[r] < m[s]
        PROVE  F[r] = upto(m[s] + 1)[r]
    <3> DEFINE k == m[r] + 1
               low == upto(k)
               high == upto(m[s] + 1)
    <3>1. k \in Nat /\ m[r] < k
      OBVIOUS
    <3>2. FixedBelow(D, S, T, m, k, low)
      BY <1>2, <3>1
    <3>3. FixedBelow(D, S, T, m, k, high)
      BY <2>1, <2>2 DEF FixedBelow
    <3>4. F[r] = low[r]
      OBVIOUS
    <3> HIDE DEF k, low, high, F
    <3>5. AgreeBelow(S, m, k, low, high)
      BY <3>1, <3>2, <3>3, <1>1
    <3> QED
      BY <3>1, <3>4, <3>5 DEF high, AgreeBelow
  <2>3. upto(m[s] + 1) \in [S -> T] /\ upto(m[s] + 1)[s] = D[upto(m[s] + 1)][s]
    BY <2>1 DEF FixedBelow
  <2>4. D[F][s] = D[upto(m[s] + 1)][s]
    BY <1>3, <2>2, <2>3 DEF Local
  <2> QED
    BY <2>3, <2>4
<1>5. D[F] \in [S -> T]
  BY <1>3
<1> HIDE DEF F
<1>6. F = [s \in S |-> F[s]] /\ D[F] = [s \in S |-> D[F][s]]
  BY <1>3, <1>5
<1>7. \A s \in S : F[s] = D[F][s]
  BY <1>4
<1> QED
  BY <1>3, <1>6, <1>7
=============================================================================
