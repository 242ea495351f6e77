------------------------------ MODULE DataLemmas ------------------------------
(***************************************************************************)
(* Lemmas about numbers and sequences that the proofs about several        *)
(* modules rest on.                                                        *)
(***************************************************************************)
EXTENDS FiniteSetsExt, SequenceTheorems, WellFoundedInduction, TLAPS

\* Of numbers there is a least one.  A statement about all numbers follows by
\* induction when there is no least number it does not hold for.
LEMMA LeastNumber ==
    ASSUME NEW T, T \subseteq Nat, T # {}
    PROVE  \E x \in T : \A y \in T : x <= y
<1> DEFINE R == OpToRel(<, Nat)
<1>1. IsWellFoundedOn(R, Nat)
  BY NatLessThanWellFounded
<1>2. \A x, y \in Nat : x < y => <<x, y>> \in R
  BY DEF OpToRel
<1> HIDE DEF R
<1>3. PICK x \in T : \A y \in T : ~(<<y, x>> \in R)
  BY <1>1, WFMin
<1>4. ASSUME NEW y \in T PROVE x <= y
  <2>1. x \in Nat /\ y \in Nat
    OBVIOUS
  <2>2. ~(y < x)
    BY <1>2, <1>3, <2>1
  <2> QED
    BY <2>1, <2>2
<1> QED
  BY <1>4

\* The least number is the one that Min chooses.
LEMMA MinFacts ==
    ASSUME NEW P, P \subseteq Nat, P # {}
    PROVE  Min(P) \in P /\ \A p \in P : Min(P) <= p
<1>1. \E x \in P : \A y \in P : x <= y
  BY LeastNumber
<1> QED
  BY <1>1 DEF Min

\* A recursion on an interval: for some places, base, the value is given, and for
\* the others it is made from the value at a later place.
Recursion(lo, hi, V, base, given, next, step) ==
    /\ lo \in Nat /\ hi \in Nat /\ given \in [lo..hi -> V]
    /\ next \in [lo..hi -> lo..hi] /\ step \in [lo..hi -> [V -> V]]
    /\ \A p \in lo..hi : p \in base \/ next[p] > p

\* A function that is defined by such a recursion exists.
LEMMA RecursiveFunction ==
    ASSUME NEW lo, NEW hi, NEW V, NEW base, NEW given, NEW next, NEW step,
           Recursion(lo, hi, V, base, given, next, step)
    PROVE  \E f \in [lo..hi -> V] :
              \A p \in lo..hi : f[p] = IF p \in base THEN given[p] ELSE step[p][f[next[p]]]
<1> DEFINE Value(f, p) == IF p \in base THEN given[p] ELSE step[p][f[next[p]]]
           Upto(m) == \E f \in [lo..hi -> V] : \A p \in lo..hi : p + m > hi => f[p] = Value(f, p)
<1>0. /\ lo \in Nat /\ hi \in Nat /\ given \in [lo..hi -> V]
      /\ next \in [lo..hi -> lo..hi] /\ step \in [lo..hi -> [V -> V]]
      /\ \A p \in lo..hi : p \in base \/ next[p] > p
  BY DEF Recursion
<1>1. SUFFICES Upto(hi + 1)
  <2>1. \A p \in lo..hi : p + (hi + 1) > hi
    BY <1>0
  <2> QED
    BY <2>1
<1>2. SUFFICES ASSUME ~Upto(hi + 1) PROVE FALSE
  OBVIOUS
<1> DEFINE T == {m \in Nat : ~Upto(m)}
<1>3. T \subseteq Nat /\ T # {}
  <2>1. hi + 1 \in Nat
    BY <1>0
  <2> QED
    BY <1>2, <2>1
<1> HIDE DEF T
<1>4. PICK m \in T : \A k \in T : m <= k
  BY <1>3, LeastNumber
<1>5. m \in Nat /\ ~Upto(m)
  BY <1>4 DEF T
<1>6. m # 0
  <2>1. \A p \in lo..hi : ~(p + 0 > hi)
    BY <1>0
  <2>2. Upto(0)
    BY <1>0, <2>1
  <2> QED
    BY <1>5, <2>2
<1>7. PICK k \in Nat : m = k + 1
  <2>1. m - 1 \in Nat /\ m = (m - 1) + 1
    BY <1>5, <1>6
  <2> QED
    BY <2>1
<1>8. Upto(k)
  <2>1. k \notin T
    BY <1>4, <1>5, <1>7
  <2> QED
    BY <2>1 DEF T
<1>9. PICK f \in [lo..hi -> V] : \A p \in lo..hi : p + k > hi => f[p] = Value(f, p)
  BY <1>8
<1>10. ASSUME NEW p \in lo..hi, NEW g \in [lo..hi -> V] PROVE Value(g, p) \in V
  <2>1. given[p] \in V /\ g[next[p]] \in V /\ step[p] \in [V -> V]
    BY <1>0
  <2> QED
    BY <2>1
<1> DEFINE g == [p \in lo..hi |-> IF p + k = hi THEN Value(f, p) ELSE f[p]]
<1>11. g \in [lo..hi -> V]
  BY <1>10
<1>12. ASSUME NEW p \in lo..hi, p + m > hi PROVE g[p] = Value(g, p)
  <2>1. p \in base \/ g[next[p]] = f[next[p]]
    <3>1. SUFFICES ASSUME next[p] > p PROVE g[next[p]] = f[next[p]]
      BY <1>0
    <3>2. next[p] + k # hi /\ next[p] \in lo..hi
      <4>1. PICK q \in lo..hi : q = next[p]
        BY <1>0
      <4>2. q + k # hi
        BY <1>0, <1>7, <1>12, <3>1, <4>1
      <4> QED
        BY <4>1, <4>2
    <3> QED
      BY <3>2
  <2>2. Value(g, p) = Value(f, p)
    <3>1. CASE p \in base
      BY <3>1
    <3>2. CASE p \notin base
      <4>1. g[next[p]] = f[next[p]]
        BY <2>1, <3>2
      <4> HIDE DEF g
      <4> QED
        BY <3>2, <4>1
    <3> QED
      BY <3>1, <3>2
  <2>3. p + k = hi \/ p + k > hi
    BY <1>0, <1>7, <1>12
  <2>4. g[p] = Value(f, p)
    BY <1>9, <2>3
  <2> QED
    BY <2>2, <2>4
<1> HIDE DEF g, Value
<1>13. Upto(m)
  BY <1>11, <1>12
<1> QED
  BY <1>5, <1>13

\* A function has values of a kind if each does where all at later places do.
LEMMA FromTheEnd ==
    ASSUME NEW lo \in Nat, NEW hi \in Nat, NEW V, NEW f,
           \A p \in lo..hi : (\A q \in lo..hi : q > p => f[q] \in V) => f[p] \in V
    PROVE  \A p \in lo..hi : f[p] \in V
<1> DEFINE T == {k \in Nat : \E p \in lo..hi : k = hi - p /\ f[p] \notin V}
<1>1. SUFFICES ASSUME NEW p \in lo..hi, f[p] \notin V PROVE FALSE
  OBVIOUS
<1>2. hi - p \in T
  BY <1>1
<1>3. T \subseteq Nat /\ T # {}
  BY <1>2
<1>4. PICK k \in T : \A j \in T : k <= j
  BY <1>3, LeastNumber
<1>5. PICK r \in lo..hi : k = hi - r /\ f[r] \notin V
  OBVIOUS
<1>6. ASSUME NEW s \in lo..hi, s > r PROVE f[s] \in V
  <2>1. SUFFICES ASSUME f[s] \notin V PROVE FALSE
    OBVIOUS
  <2>2. hi - s \in T
    BY <2>1
  <2>3. k <= hi - s
    BY <1>4, <2>2
  <2> QED
    BY <1>5, <1>6, <2>3
<1> QED
  BY <1>5, <1>6

\* A sequence all of whose elements are of a kind.
LEMMA AllOfAKind ==
    ASSUME NEW S, NEW T, NEW s \in Seq(T), \A i \in 1..Len(s) : s[i] \in S
    PROVE  s \in Seq(S)
<1>1. SubSeq(s, 1, Len(s)) = s
  BY SubSeqFull
<1>2. Len(s) \in Int /\ 1 \in Int
  OBVIOUS
<1>3. SubSeq(s, 1, Len(s)) \in Seq(S)
  BY <1>2, SubSeqProperties
<1> QED
  BY <1>1, <1>3

\* The parts of such a sequence are of that kind too.
LEMMA PartsOfAKind ==
    ASSUME NEW S, NEW T, NEW s \in Seq(T), NEW t \in Seq(T), s \o t \in Seq(S)
    PROVE  s \in Seq(S) /\ t \in Seq(S)
<1>1. /\ \A i \in 1..Len(s) : (s \o t)[i] = s[i] /\ i \in 1..Len(s \o t)
      /\ \A i \in 1..Len(t) : (s \o t)[Len(s) + i] = t[i] /\ Len(s) + i \in 1..Len(s \o t)
  OBVIOUS
<1>2. /\ \A i \in 1..Len(s) : s[i] \in S
      /\ \A i \in 1..Len(t) : t[i] \in S
  BY <1>1, ElementOfSeq
<1> QED
  BY <1>2, AllOfAKind

\* A sequence with an element in front of it.
LEMMA FrontFacts ==
    ASSUME NEW S, NEW d \in Seq(S), NEW x \in S
    PROVE  /\ <<x>> \o d # <<>> /\ <<x>> \o d \in Seq(S)
           /\ Head(<<x>> \o d) = x /\ Tail(<<x>> \o d) = d
<1>1. <<x>> \o d \in Seq(S) /\ Len(<<x>> \o d) = 1 + Len(d) /\ Len(d) \in Nat
  OBVIOUS
<1>2. Head(<<x>> \o d) = x
  OBVIOUS
<1>3. Tail(<<x>> \o d) = d
  <2>1. Tail(<<x>> \o d) \in Seq(S) /\ Len(Tail(<<x>> \o d)) = Len(d)
    BY <1>1
  <2>2. \A i \in 1..Len(d) : Tail(<<x>> \o d)[i] = d[i]
    BY <1>1
  <2> QED
    BY <2>1, <2>2, SeqEqual
<1> QED
  BY <1>1, <1>2, <1>3
=============================================================================
