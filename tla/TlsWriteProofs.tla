---------------------------- MODULE TlsWriteProofs ----------------------------
(***************************************************************************)
(* Theorems about TlsWrite for messages, records and buffers of any        *)
(* length, and any cut of a record into what send takes.  OpenInv says     *)
(* that until a call fails the wire carries whole records with all bytes   *)
(* of what is sent, in order, and behind them the first part of the        *)
(* record at hand.                                                         *)
(***************************************************************************)
EXTENDS TlsWrite, FiniteSetTheorems, FunctionTheorems, DataLemmas

Symbol == [at : Nat, of : Nat, byte : Nat]

\* How many symbols of records before the one at hand are on the wire.
done == IF pc = "send" THEN Len(wire) - sent ELSE Len(wire)

\* The numbers of the plaintext bytes on them end here.
before == said - size

\* The first w symbols of the wire carry the bytes up to n, in order.
Carries(w, n) ==
    /\ \A p \in 1..w : wire[p].byte <= n
    /\ \A b \in 1..n : \E p \in 1..w : wire[p].byte = b
    /\ \A p, q \in 1..w : p < q /\ wire[q].byte # 0 => wire[p].byte < wire[q].byte

\* They are whole records.
Boundary(w) == w = 0 \/ wire[w].at = wire[w].of

\* The record at hand has the bytes that come next, and its first part is sent.
AtHand ==
    /\ Len(record) \in 1..size
    /\ \A i \in 1..Len(record) : record[i] = before + i
    /\ sent <= Len(wire)
    /\ \A i \in 1..sent : wire[done + i] = Ciphertext[i]

OpenInv ==
    /\ pc = "idle" => size = 0
    /\ pc = "send" => AtHand
    /\ Boundary(done)
    /\ Carries(done, before)

CountInv == said <= calls * MaxSize /\ size <= said

IInv ==
    /\ TypeOK
    /\ CountInv
    /\ WireFramed
    /\ status = "failed" => pc = "idle"
    /\ status = "open" => OpenInv

\* How much of what was said the server can decrypt until a call fails.
Numbers(n) == [i \in 1..n |-> i]
Readable == IF pc = "send" /\ sent = total THEN before + Len(record) ELSE before
DecryptedInv == status = "open" => Decrypted = Numbers(Readable)

-------------------------------------------------------------------------------
(* Counting *)

UpTo(P, p) == {q \in P : q <= p}

\* pos lists the n numbers of P in ascending order.
Lists(P, n, pos) ==
    /\ P \subseteq Nat /\ n \in Nat /\ pos \in [1..n -> P]
    /\ \A p \in P : \E i \in 1..n : pos[i] = p
    /\ \A i, j \in 1..n : i < j => pos[i] < pos[j]

\* A set of numbers that is listed in ascending order.
LEMMA Enumeration ==
    ASSUME NEW P, NEW n, NEW pos, Lists(P, n, pos)
    PROVE  /\ Cardinality(P) = n
           /\ \A i \in 1..n : Cardinality(UpTo(P, pos[i])) = i
<1>0. /\ P \subseteq Nat /\ n \in Nat /\ pos \in [1..n -> P]
      /\ \A p \in P : \E i \in 1..n : pos[i] = p
      /\ \A i, j \in 1..n : i < j => pos[i] < pos[j]
  BY DEF Lists
<1> HIDE DEF Lists
<1>1. ASSUME NEW m \in 0..n, NEW S, S = {pos[i] : i \in 1..m} PROVE Cardinality(S) = m
  <2> DEFINE f == [i \in 1..m |-> pos[i]]
  <2>1. f \in [1..m -> S] /\ \A i \in 1..m : f[i] = pos[i] /\ i \in 1..n /\ pos[i] \in Nat
    <3>1. \A i \in 1..m : i \in 1..n
      BY <1>0
    <3>2. \A i \in 1..m : pos[i] \in S /\ pos[i] \in P
      BY <1>0, <1>1, <3>1
    <3> QED
      BY <1>0, <3>1, <3>2
  <2>2. \A i, j \in 1..m : f[i] = f[j] => i = j
    <3>1. SUFFICES ASSUME NEW i \in 1..m, NEW j \in 1..m, f[i] = f[j], i # j PROVE FALSE
      OBVIOUS
    <3>2. pos[i] = pos[j] /\ i \in 1..n /\ j \in 1..n /\ pos[i] \in Nat /\ pos[j] \in Nat
      BY <2>1, <3>1
    <3>3. i < j \/ j < i
      BY <3>1
    <3>4. pos[i] < pos[j] \/ pos[j] < pos[i]
      BY <1>0, <3>2, <3>3
    <3> QED
      BY <3>2, <3>4
  <2>3. \A s \in S : \E i \in 1..m : f[i] = s
    BY <1>1
  <2> HIDE DEF f
  <2>4. f \in Bijection(1..m, S)
    BY <2>1, <2>2, <2>3, Fun_IsBij
  <2>5. IsFiniteSet(1..m) /\ Cardinality(1..m) = m
    BY FS_Interval
  <2>6. ExistsBijection(1..m, S)
    BY <2>4 DEF ExistsBijection
  <2> QED
    BY <2>5, <2>6, FS_Bijection
<1>2. P = {pos[i] : i \in 1..n}
  BY <1>0
<1>3. ASSUME NEW i \in 1..n PROVE UpTo(P, pos[i]) = {pos[j] : j \in 1..i}
  <2>1. ASSUME NEW q \in P, q <= pos[i] PROVE q \in {pos[j] : j \in 1..i}
    <3>1. PICK j \in 1..n : pos[j] = q
      BY <1>0
    <3>2. pos[i] \in Nat /\ pos[j] \in Nat
      BY <1>0
    <3>3. j <= i
      BY <1>0, <2>1, <3>1, <3>2
    <3> QED
      BY <3>1, <3>3
  <2>2. ASSUME NEW j \in 1..i PROVE pos[j] \in P /\ pos[j] <= pos[i]
    <3>0. n \in Nat /\ i \in Nat /\ j \in Nat /\ 1 <= j /\ j <= i /\ i <= n
      BY <1>0
    <3>1. j \in 1..n
      BY <3>0
    <3>3. pos[j] \in P /\ pos[i] \in Nat /\ pos[j] \in Nat
      BY <1>0, <3>1
    <3>2. j = i \/ j < i
      OBVIOUS
    <3> QED
      BY <1>0, <3>1, <3>2, <3>3
  <2> QED
    BY <1>0, <2>1, <2>2 DEF UpTo
<1>4. ASSUME NEW i \in 1..n PROVE Cardinality(UpTo(P, pos[i])) = i
  <2>1. i \in 0..n
    BY <1>0
  <2> QED
    BY <1>1, <1>3, <2>1
<1>5. n \in 0..n
  BY <1>0
<1>6. Cardinality(P) = n
  BY <1>1, <1>2, <1>5
<1> QED
  BY <1>4, <1>6

\* Of whole records that carry the bytes up to n in order, and perhaps a part
\* of one behind them, the server decrypts the bytes up to n.
LEMMA DecryptedFacts ==
    ASSUME wire \in Seq(Symbol), NEW w \in 0..Len(wire), NEW n \in Nat,
           Boundary(w), Carries(w, n),
           \A p \in (w + 1)..Len(wire) : wire[p].at # wire[p].of
    PROVE  Decrypted = Numbers(n)
<1>1. \A p \in 1..Len(wire) : wire[p].byte \in Nat
  <2>1. \A p \in 1..Len(wire) : wire[p] \in Symbol
    BY ElementOfSeq
  <2> QED
    BY <2>1 DEF Symbol
<1>2. Len(wire) \in Nat
  OBVIOUS
<1>3. Plain = {p \in 1..w : wire[p].byte # 0}
  <2>1. ASSUME NEW p \in 1..w PROVE \E q \in p..Len(wire) : wire[q].at = wire[q].of
    <3>1. w \in p..Len(wire) /\ w # 0
      BY <1>2
    <3> QED
      BY <3>1 DEF Boundary
  <2>2. ASSUME NEW p \in 1..Len(wire), NEW q \in p..Len(wire), wire[q].at = wire[q].of
        PROVE  p \in 1..w
    <3>1. ~(q \in (w + 1)..Len(wire))
      BY <2>2
    <3> QED
      BY <1>2, <3>1
  <2>3. 1..w \subseteq 1..Len(wire)
    BY <1>2
  <2> QED
    BY <2>1, <2>2, <2>3 DEF Plain
<1> DEFINE pos == [b \in 1..n |-> CHOOSE p \in 1..w : wire[p].byte = b]
<1>4. ASSUME NEW b \in 1..n PROVE pos[b] \in 1..w /\ wire[pos[b]].byte = b
  <2>1. \E p \in 1..w : wire[p].byte = b
    BY DEF Carries
  <2> QED
    BY <2>1
<1>5. pos \in [1..n -> Plain]
  <2>1. \A b \in 1..n : pos[b] \in Plain
    BY <1>3, <1>4, SMTT(30)
  <2> QED
    BY <2>1
<1>6. Plain \subseteq Nat
  BY <1>3
<1>7. \A p, q \in Plain : wire[p].byte = wire[q].byte => p = q
  <2>1. SUFFICES ASSUME NEW p \in 1..w, NEW q \in 1..w, wire[p].byte # 0, wire[q].byte # 0,
                        wire[p].byte = wire[q].byte, p < q
                 PROVE  FALSE
    BY <1>3
  <2>2. wire[p].byte < wire[q].byte
    BY <2>1 DEF Carries
  <2>3. p \in 1..Len(wire) /\ q \in 1..Len(wire)
    BY <1>2
  <2> QED
    BY <1>1, <2>1, <2>2, <2>3
<1>8. ASSUME NEW p \in Plain PROVE wire[p].byte \in 1..n /\ pos[wire[p].byte] = p
  <2>1. p \in 1..w /\ p \in 1..Len(wire) /\ wire[p].byte # 0
    BY <1>2, <1>3
  <2>2. wire[p].byte \in 1..n
    BY <1>1, <2>1 DEF Carries
  <2>3. pos[wire[p].byte] \in Plain /\ wire[pos[wire[p].byte]].byte = wire[p].byte
    BY <1>4, <1>5, <2>2
  <2> QED
    BY <1>7, <2>2, <2>3
<1>9. ASSUME NEW i \in 1..n, NEW j \in 1..n, i < j PROVE pos[i] < pos[j]
  <2>1. SUFFICES ASSUME ~(pos[i] < pos[j]) PROVE FALSE
    OBVIOUS
  <2>2. PICK p \in 1..w, q \in 1..w : p = pos[i] /\ q = pos[j] /\ wire[p].byte = i /\ wire[q].byte = j
    BY <1>4, SMTT(30)
  <2>3. q < p \/ q = p
    BY <2>1, <2>2
  <2>4. CASE q < p
    <3>1. wire[p].byte # 0
      BY <2>2
    <3>2. wire[q].byte < wire[p].byte
      BY <2>4, <3>1 DEF Carries
    <3>3. j < i
      BY <2>2, <3>2
    <3> QED
      BY <1>9, <3>3
  <2> QED
    BY <1>9, <2>2, <2>3, <2>4
<1> HIDE DEF pos
<1>10. \A p \in Plain : \E i \in 1..n : pos[i] = p
  BY <1>8
<1>11. /\ Cardinality(Plain) = n
       /\ \A i \in 1..n : Cardinality(UpTo(Plain, pos[i])) = i
  <2>1. \A i, j \in 1..n : i < j => pos[i] < pos[j]
    BY <1>9
  <2>2. Lists(Plain, n, pos)
    BY <1>5, <1>6, <1>10, <2>1 DEF Lists
  <2> QED
    BY <2>2, Enumeration
<1>12. ASSUME NEW i \in 1..n
       PROVE  (CHOOSE p \in Plain : Cardinality(UpTo(Plain, p)) = i) = pos[i]
  <2>1. pos[i] \in Plain
    BY <1>5
  <2>2. ASSUME NEW p \in Plain, Cardinality(UpTo(Plain, p)) = i PROVE p = pos[i]
    <3>1. PICK j \in 1..n : pos[j] = p
      BY <1>10
    <3>2. j = i
      BY <1>11, <2>2, <3>1
    <3> QED
      BY <3>1, <3>2
  <2> QED
    BY <1>11, <2>1, <2>2
<1>13. \A i \in 1..n :
          wire[CHOOSE p \in Plain : Cardinality(UpTo(Plain, p)) = i].byte = i
  BY <1>4, <1>12
<1> QED
  BY <1>11, <1>13 DEF Decrypted, Numbers, UpTo

-------------------------------------------------------------------------------
(* The record at hand *)

\* Products that bound what is said in a number of calls.
LEMMA Products ==
    ASSUME NEW a \in Nat, NEW b \in Nat, NEW m \in Nat, a <= b
    PROVE  a * m \in Nat /\ b * m \in Nat /\ a * m <= b * m /\ (a + 1) * m = a * m + m
<1>1. PICK d \in Nat : b = a + d
  <2>1. b - a \in Nat /\ b = a + (b - a)
    OBVIOUS
  <2> QED
    BY <2>1
<1>2. a * m \in Nat /\ d * m \in Nat
  OBVIOUS
<1>3. b * m = a * m + d * m
  BY <1>1
<1>4. (a + 1) * m = a * m + m
  OBVIOUS
<1> QED
  BY <1>2, <1>3, <1>4

\* The symbols of the record at hand.
LEMMA CiphertextFacts ==
    ASSUME TypeOK
    PROVE  /\ Len(record) \in Nat /\ total \in Nat /\ total >= 1
           /\ Ciphertext \in Seq(Symbol) /\ Len(Ciphertext) = total
           /\ \A i \in 1..total :
                /\ Ciphertext[i].at = i /\ Ciphertext[i].of = total
                /\ i \in (Header + 1)..(Header + Len(record)) =>
                        Ciphertext[i].byte = record[i - Header]
                /\ i \notin (Header + 1)..(Header + Len(record)) => Ciphertext[i].byte = 0
<1>1. Header \in Nat /\ Trailer \in Nat /\ Header + Trailer > 0
  BY WriteAssumption
<1>2. record \in Seq(Nat) /\ Len(record) \in Nat
  BY DEF TypeOK
<1>3. total \in Nat /\ total >= 1
  BY <1>1, <1>2 DEF total
<1>4. \A i \in (Header + 1)..(Header + Len(record)) : record[i - Header] \in Nat
  <2>1. ASSUME NEW i \in (Header + 1)..(Header + Len(record)) PROVE i - Header \in 1..Len(record)
    BY <1>1, <1>2
  <2> QED
    BY <1>2, <2>1, ElementOfSeq
<1>5. \A i \in 1..total : Ciphertext[i] \in Symbol
  BY <1>3, <1>4 DEF Ciphertext, Symbol
<1>6. \A i \in 1..total :
        /\ Ciphertext[i].at = i /\ Ciphertext[i].of = total
        /\ i \in (Header + 1)..(Header + Len(record)) => Ciphertext[i].byte = record[i - Header]
        /\ i \notin (Header + 1)..(Header + Len(record)) => Ciphertext[i].byte = 0
  BY DEF Ciphertext
<1>7. Ciphertext \in [1..total -> Symbol]
  BY <1>5 DEF Ciphertext
<1>8. Ciphertext \in Seq(Symbol) /\ Len(Ciphertext) = total
  BY <1>3, <1>7
<1> QED
  BY <1>2, <1>3, <1>6, <1>8

\* What one send adds to the wire.
LEMMA SendFacts ==
    ASSUME TypeOK, OpenInv, Send
    PROVE  /\ sent' \in (sent + 1)..total /\ total' = total /\ Ciphertext' = Ciphertext
           /\ wire' \in Seq(Symbol) /\ Len(wire') = Len(wire) + (sent' - sent)
           /\ done' = done /\ done \in 0..Len(wire)
           /\ \A p \in 1..Len(wire) : wire'[p] = wire[p]
           /\ \A i \in 1..sent' : wire'[done + i] = Ciphertext[i]
<1>1. /\ pc = "send" /\ pc' = "send" /\ record' = record
      /\ sent' \in (sent + 1)..total /\ wire' = wire \o SubSeq(Ciphertext, sent + 1, sent')
  BY DEF Send
<1>2. total' = total /\ Ciphertext' = Ciphertext
  BY <1>1 DEF total, Ciphertext
<1>3. total \in Nat /\ Ciphertext \in Seq(Symbol) /\ Len(Ciphertext) = total
  BY CiphertextFacts
<1>4. sent \in Nat /\ wire \in Seq(Symbol) /\ Len(wire) \in Nat
  BY <1>3 DEF TypeOK, Symbol
<1>5. PICK m \in Nat, k \in Nat, l \in Nat, t \in Nat :
        m = sent /\ k = sent' /\ l = Len(wire) /\ t = total
  <2>1. sent' \in (sent + 1)..total /\ sent \in Nat /\ total \in Nat
    BY <1>1, <1>3, <1>4
  <2>2. sent' \in Nat
    BY <2>1
  <2> QED
    BY <1>3, <1>4, <2>2
<1>6. m + 1 <= k /\ k <= t
  BY <1>1, <1>5
<1>7. m <= l /\ done = l - m
  BY <1>1, <1>5 DEF OpenInv, AtHand, done
<1> DEFINE sub == SubSeq(Ciphertext, sent + 1, sent')
<1>8. sub \in Seq(Symbol) /\ Len(sub) = k - m /\ \A i \in 1..(k - m) : sub[i] = Ciphertext[m + i]
  <2>1. m + 1 \in 1..(Len(Ciphertext) + 1) /\ k \in m..Len(Ciphertext)
    BY <1>3, <1>5, <1>6
  <2>2. SubSeq(Ciphertext, m + 1, k) \in Seq(Symbol)
    BY <1>3, <2>1, SubSeqProperties
  <2>3. Len(SubSeq(Ciphertext, m + 1, k)) = k - m
    BY <1>3, <1>6, <2>1, SubSeqProperties
  <2>4. ASSUME NEW i \in 1..(k - m) PROVE SubSeq(Ciphertext, m + 1, k)[i] = Ciphertext[m + i]
    <3>1. SubSeq(Ciphertext, m + 1, k)[i] = Ciphertext[(m + 1) + i - 1]
      BY <1>3, <1>6, <2>1, SubSeqProperties
    <3>2. (m + 1) + i - 1 = m + i
      OBVIOUS
    <3> QED
      BY <3>1, <3>2
  <2> QED
    BY <1>5, <2>2, <2>3, <2>4
<1> HIDE DEF sub
<1>9. /\ wire' \in Seq(Symbol) /\ Len(wire') = l + (k - m)
      /\ \A p \in 1..l : wire'[p] = wire[p]
      /\ \A i \in 1..(k - m) : wire'[l + i] = sub[i]
  <2>1. wire' = wire \o sub
    BY <1>1 DEF sub
  <2>2. Len(wire) + Len(sub) = l + (k - m)
    BY <1>5, <1>8
  <2>3. wire \o sub \in Seq(Symbol) /\ Len(wire \o sub) = Len(wire) + Len(sub)
    BY <1>4, <1>8
  <2>4. \A p \in 1..Len(wire) : (wire \o sub)[p] = wire[p]
    BY <1>4, <1>8
  <2>5. \A i \in 1..Len(sub) : (wire \o sub)[Len(wire) + i] = sub[i]
    BY <1>4, <1>8
  <2> QED
    BY <1>5, <1>8, <2>1, <2>2, <2>3, <2>4, <2>5
<1>10. done' = done
  <2>1. done' = (l + (k - m)) - k
    BY <1>1, <1>5, <1>9 DEF done
  <2>2. (l + (k - m)) - k = l - m
    OBVIOUS
  <2> QED
    BY <1>7, <2>1, <2>2
<1>11. ASSUME NEW i \in 1..k PROVE wire'[(l - m) + i] = Ciphertext[i]
  <2>1. CASE i <= m
    <3>1. i \in 1..m /\ (l - m) + i \in 1..l
      BY <1>7, <2>1
    <3>2. wire[(l - m) + i] = Ciphertext[i]
      BY <1>1, <1>5, <1>7, <3>1 DEF OpenInv, AtHand
    <3> QED
      BY <1>9, <3>1, <3>2
  <2>2. CASE ~(i <= m)
    <3>1. i - m \in 1..(k - m) /\ (l - m) + i = l + (i - m) /\ m + (i - m) = i
      BY <1>7, <2>2
    <3>2. wire'[l + (i - m)] = sub[i - m] /\ sub[i - m] = Ciphertext[m + (i - m)]
      BY <1>8, <1>9, <3>1
    <3> QED
      BY <3>1, <3>2
  <2> QED
    BY <2>1, <2>2
<1>12. l - m \in 0..l
  BY <1>7
<1> QED
  BY <1>1, <1>2, <1>5, <1>7, <1>9, <1>10, <1>11, <1>12

\* When all of the record is sent the wire carries its bytes too.
LEMMA RecordComplete ==
    ASSUME TypeOK, CountInv, OpenInv, pc = "send", sent = total
    PROVE  Boundary(Len(wire)) /\ Carries(Len(wire), before + Len(record))
<1>1. /\ Len(record) \in Nat /\ total \in Nat /\ total >= 1
      /\ \A i \in 1..total :
            /\ Ciphertext[i].at = i /\ Ciphertext[i].of = total
            /\ i \in (Header + 1)..(Header + Len(record)) => Ciphertext[i].byte = record[i - Header]
            /\ i \notin (Header + 1)..(Header + Len(record)) => Ciphertext[i].byte = 0
  BY CiphertextFacts
<1>2. AtHand /\ done = Len(wire) - sent /\ Carries(done, before)
  BY DEF OpenInv, done
<1>3. said \in Nat /\ size \in Nat /\ size <= said /\ Len(wire) \in Nat
  <2>1. said \in 0..(MaxCalls * MaxSize) /\ size \in 0..MaxSize /\ wire \in Seq(Symbol) /\ size <= said
    BY DEF TypeOK, CountInv, Symbol
  <2> QED
    BY <2>1
<1>4. PICK d \in Nat, n \in Nat, l \in Nat, t \in Nat, h \in Nat :
        d = done /\ n = before /\ l = Len(record) /\ t = total /\ h = Header
  <2>1. Len(wire) - sent \in Nat
    BY <1>1, <1>3, <1>2 DEF AtHand
  <2>2. before \in Nat
    BY <1>3 DEF before
  <2> QED
    BY <1>1, <1>2, <2>1, <2>2, WriteAssumption
<1>5. Len(wire) = d + t
  BY <1>1, <1>2, <1>3, <1>4
<1>6. h + l <= t /\ t >= 1
  <2>1. t = h + l + Trailer /\ Trailer \in Nat
    BY <1>4, WriteAssumption DEF total
  <2> QED
    BY <1>1, <1>4, <2>1
<1>7. \A i \in 1..t : wire[d + i] = Ciphertext[i]
  BY <1>2, <1>4 DEF AtHand
<1>8. /\ \A i \in 1..t : wire[d + i].at = i /\ wire[d + i].of = t
      /\ \A i \in 1..t : i \in (h + 1)..(h + l) => wire[d + i].byte = n + (i - h)
      /\ \A i \in 1..t : i \notin (h + 1)..(h + l) => wire[d + i].byte = 0
  <2>1. ASSUME NEW i \in 1..t, i \in (h + 1)..(h + l) PROVE wire[d + i].byte = n + (i - h)
    <3>1. wire[d + i].byte = record[i - h]
      BY <1>1, <1>4, <1>7, <2>1
    <3>2. i - h \in 1..l
      BY <2>1
    <3>3. record[i - h] = before + (i - h)
      BY <1>2, <1>4, <3>2 DEF AtHand
    <3> QED
      BY <1>4, <3>1, <3>3
  <2>2. ASSUME NEW i \in 1..t
        PROVE  /\ wire[d + i].at = i /\ wire[d + i].of = t
               /\ i \notin (h + 1)..(h + l) => wire[d + i].byte = 0
    <3>1. /\ Ciphertext[i].at = i /\ Ciphertext[i].of = t
          /\ i \notin (h + 1)..(h + l) => Ciphertext[i].byte = 0
      BY <1>1, <1>4
    <3>2. wire[d + i] = Ciphertext[i]
      BY <1>7
    <3> QED
      BY <3>1, <3>2
  <2> QED
    BY <2>1, <2>2
<1>9. /\ \A p \in 1..d : wire[p].byte <= n /\ wire[p].byte \in Nat
      /\ \A b \in 1..n : \E p \in 1..d : wire[p].byte = b
      /\ \A p, q \in 1..d : p < q /\ wire[q].byte # 0 => wire[p].byte < wire[q].byte
  <2>1. \A p \in 1..Len(wire) : wire[p] \in Symbol
    BY ElementOfSeq DEF TypeOK, Symbol
  <2>2. ASSUME NEW p \in 1..d PROVE p \in 1..Len(wire)
    BY <1>5
  <2>3. \A p \in 1..d : wire[p].byte \in Nat
    BY <2>1, <2>2 DEF Symbol
  <2> QED
    BY <1>2, <1>4, <2>3 DEF Carries
<1>10. Boundary(d + t)
  <2>1. t \in 1..t
    BY <1>6
  <2> QED
    BY <1>8, <2>1 DEF Boundary
<1>11. ASSUME NEW p \in 1..(d + t), p \notin 1..d PROVE p - d \in 1..t /\ d + (p - d) = p
  BY <1>11
<1>12. ASSUME NEW p \in 1..(d + t) PROVE wire[p].byte <= n + l
  <2>1. CASE p \in 1..d
    <3>1. wire[p].byte <= n /\ wire[p].byte \in Nat
      BY <1>9, <2>1
    <3> QED
      BY <3>1
  <2>2. CASE p \notin 1..d
    <3>1. PICK i \in 1..t : d + i = p
      BY <1>11, <2>2
    <3>2. CASE i \in (h + 1)..(h + l)
      <4>1. wire[p].byte = n + (i - h)
        BY <1>8, <3>1, <3>2
      <4> QED
        BY <3>2, <4>1
    <3>3. CASE i \notin (h + 1)..(h + l)
      <4>1. wire[p].byte = 0
        BY <1>8, <3>1, <3>3
      <4> QED
        BY <4>1
    <3> QED
      BY <3>2, <3>3
  <2> QED
    BY <2>1, <2>2
<1>13. ASSUME NEW b \in 1..(n + l) PROVE \E p \in 1..(d + t) : wire[p].byte = b
  <2>1. CASE b <= n
    <3>1. b \in 1..n
      BY <2>1
    <3>2. PICK p \in 1..d : wire[p].byte = b
      BY <1>9, <3>1
    <3>3. p \in 1..(d + t)
      OBVIOUS
    <3> QED
      BY <3>2, <3>3
  <2>2. CASE ~(b <= n)
    <3>1. PICK k \in 1..l : b = n + k
      <4>1. b - n \in 1..l /\ b = n + (b - n)
        BY <2>2
      <4> QED
        BY <4>1
    <3>2. h + k \in (h + 1)..(h + l) /\ h + k \in 1..t /\ (h + k) - h = k
      BY <1>6
    <3>3. wire[d + (h + k)].byte = n + ((h + k) - h)
      BY <1>8, <3>2
    <3>4. d + (h + k) \in 1..(d + t)
      BY <3>2
    <3> QED
      BY <3>1, <3>2, <3>3, <3>4
  <2> QED
    BY <2>1, <2>2
<1>14. ASSUME NEW p \in 1..(d + t), NEW q \in 1..(d + t), p < q, wire[q].byte # 0
       PROVE  wire[p].byte < wire[q].byte
  <2>1. CASE q \in 1..d
    <3>1. p \in 1..d
      BY <1>14, <2>1
    <3> QED
      BY <1>9, <1>14, <2>1, <3>1
  <2>2. CASE q \notin 1..d
    <3>1. PICK j \in 1..t : d + j = q
      BY <1>11, <2>2
    <3>2. j \in (h + 1)..(h + l) /\ wire[q].byte = n + (j - h)
      BY <1>8, <1>14, <3>1
    <3>3. CASE p \in 1..d
      <4>1. wire[p].byte <= n /\ wire[p].byte \in Nat
        BY <1>9, <3>3
      <4>2. n < n + (j - h)
        BY <3>2
      <4> QED
        BY <3>2, <4>1, <4>2
    <3>4. CASE p \notin 1..d
      <4>1. PICK i \in 1..t : d + i = p
        BY <1>11, <3>4
      <4>2. i < j
        BY <1>14, <3>1, <4>1
      <4>3. wire[p].byte = 0 \/ wire[p].byte = n + (i - h)
        BY <1>8, <4>1
      <4>4. 0 < n + (j - h) /\ n + (i - h) < n + (j - h)
        BY <3>2, <4>2
      <4> QED
        BY <3>2, <4>3, <4>4
    <3> QED
      BY <3>3, <3>4
  <2> QED
    BY <2>1, <2>2
<1>15. Carries(d + t, n + l)
  BY <1>12, <1>13, <1>14 DEF Carries
<1> QED
  BY <1>4, <1>5, <1>10, <1>15

-------------------------------------------------------------------------------
(* Type correctness *)

\* Every step keeps the types.
LEMMA TypeStep ==
    ASSUME IInv, [Next]_vars
    PROVE  TypeOK' /\ CountInv'
<1>1. /\ calls \in 0..MaxCalls /\ size \in 0..MaxSize /\ said \in 0..(MaxCalls * MaxSize)
      /\ MaxCalls \in Nat /\ MaxSize \in Nat
      /\ said <= calls * MaxSize /\ size <= said
  BY WriteAssumption DEF IInv, TypeOK, CountInv
<1>2. /\ Len(record) \in Nat /\ total \in Nat
      /\ sent \in 0..total /\ record \in Seq(Nat)
  BY CiphertextFacts DEF IInv, TypeOK
<1>3. CASE Call
  <2>1. /\ pc' = "loop" /\ calls < MaxCalls /\ calls' = calls + 1
        /\ size' \in 0..MaxSize /\ said' = said + size'
        /\ record' = record /\ sent' = sent /\ wire' = wire /\ status' = status
    BY <1>3 DEF Call
  <2>2. calls + 1 <= MaxCalls /\ calls + 1 \in 0..MaxCalls /\ calls <= calls + 1
    BY <1>1, <2>1
  <2>3. /\ (calls + 1) * MaxSize = calls * MaxSize + MaxSize
        /\ (calls + 1) * MaxSize <= MaxCalls * MaxSize
        /\ calls * MaxSize \in Nat /\ MaxCalls * MaxSize \in Nat
    BY <1>1, <2>2, Products
  <2>4. PICK a \in Nat, b \in Nat, c \in Nat, d \in Nat, m \in Nat :
          /\ a = calls * MaxSize /\ b = MaxCalls * MaxSize
          /\ c = said /\ d = size' /\ m = MaxSize
    BY <1>1, <2>1, <2>3
  <2>5. c <= a /\ a + m <= b /\ d <= m
    BY <1>1, <2>1, <2>3, <2>4
  <2>6. c + d <= a + m /\ c + d \in 0..b /\ d <= c + d
    BY <2>5
  <2>7. said' \in 0..(MaxCalls * MaxSize) /\ said' <= calls' * MaxSize /\ size' <= said'
    BY <2>1, <2>3, <2>4, <2>6
  <2> QED
    BY <1>2, <2>1, <2>2, <2>7 DEF IInv, TypeOK, CountInv, total
<1>4. CASE Return
  BY <1>4 DEF Return, IInv, TypeOK, CountInv, total
<1>5. CASE Encrypt
  <2> DEFINE use == IF size <= MaximumMessage THEN size ELSE MaximumMessage
  <2>1. /\ pc' = "send" /\ sent' = 0 /\ size # 0
        /\ record' = [i \in 1..use |-> said - size + i]
        /\ calls' = calls /\ said' = said /\ size' = size /\ wire' = wire /\ status' = status
    BY <1>5 DEF Encrypt
  <2>2. use \in Nat /\ use <= MaximumMessage
    BY <1>1, WriteAssumption
  <2> HIDE DEF use
  <2>3. \A i \in 1..use : said - size + i \in Nat
    BY <1>1, <2>2
  <2>4. record' \in [1..use -> Nat]
    BY <2>1, <2>3
  <2>5. record' \in Seq(Nat) /\ Len(record') = use
    BY <2>2, <2>4
  <2>6. 0 \in 0..total'
    BY <2>2, <2>5, WriteAssumption DEF total
  <2> QED
    BY <2>1, <2>2, <2>5, <2>6 DEF IInv, TypeOK, CountInv
<1>6. CASE EncryptFails
  BY <1>6 DEF EncryptFails, IInv, TypeOK, CountInv, total
<1>7. CASE Send
  <2>1. /\ pc' = pc /\ calls' = calls /\ said' = said /\ size' = size
        /\ record' = record /\ status' = status /\ pc = "send"
    BY <1>7 DEF Send, IInv
  <2>2. status = "open" => OpenInv
    BY DEF IInv
  <2>3. status = "open"
    BY <2>1 DEF IInv, TypeOK
  <2>4. sent' \in (sent + 1)..total /\ total' = total /\ wire' \in Seq(Symbol)
    BY <1>7, <2>2, <2>3, SendFacts DEF IInv
  <2>5. sent' \in 0..total
    BY <1>2, <2>4
  <2> QED
    BY <2>1, <2>4, <2>5 DEF IInv, TypeOK, CountInv, Symbol
<1>8. CASE SendFails
  BY <1>8 DEF SendFails, IInv, TypeOK, CountInv, total
<1>9. CASE RecordSent
  <2>1. /\ pc = "send" /\ pc' = "loop" /\ size' = size - Len(record)
        /\ calls' = calls /\ said' = said /\ record' = record /\ sent' = sent
        /\ wire' = wire /\ status' = status
    BY <1>9 DEF RecordSent
  <2>2. Len(record) \in 1..size
    BY <2>1 DEF IInv, TypeOK, OpenInv, AtHand
  <2>3. size - Len(record) \in 0..MaxSize /\ size - Len(record) <= said
    BY <1>1, <2>2
  <2> QED
    BY <1>2, <2>1, <2>3 DEF IInv, TypeOK, CountInv, total
<1>10. CASE UNCHANGED vars
  BY <1>10 DEF vars, IInv, TypeOK, CountInv, total
<1> QED
  BY <1>3, <1>4, <1>5, <1>6, <1>7, <1>8, <1>9, <1>10 DEF Next, Finished

-------------------------------------------------------------------------------
(* The framing of the records, and what they carry *)

\* Every step keeps what was sent of the current record.
LEMMA FramedStep ==
    ASSUME IInv, [Next]_vars
    PROVE  WireFramed'
<1>1. CASE wire' = wire
  BY <1>1 DEF IInv, WireFramed
<1>2. CASE Send
  <2>1. TypeOK /\ OpenInv /\ WireFramed
    BY <1>2 DEF Send, IInv, TypeOK
  <2>2. /\ sent' \in (sent + 1)..total /\ Len(wire') = Len(wire) + (sent' - sent)
        /\ done \in 0..Len(wire)
        /\ \A p \in 1..Len(wire) : wire'[p] = wire[p]
        /\ \A i \in 1..sent' : wire'[done + i] = Ciphertext[i]
    BY <1>2, <2>1, SendFacts
  <2>3. /\ total \in Nat
        /\ \A i \in 1..total : Ciphertext[i].at = i /\ Ciphertext[i].of = total
    BY <2>1, CiphertextFacts
  <2>4. sent \in Nat /\ Len(wire) \in Nat /\ done = Len(wire) - sent
    BY <1>2, <2>1, <2>3 DEF TypeOK, Send, done
  <2>5. PICK d \in Nat, m \in Nat, k \in Nat, l \in Nat, t \in Nat :
          d = done /\ m = sent /\ k = sent' /\ l = Len(wire) /\ t = total
    <3>1. sent' \in Nat /\ done \in Nat
      BY <2>2, <2>3, <2>4
    <3> QED
      BY <2>3, <2>4, <3>1
  <2>6. d = l - m /\ d <= l /\ m + 1 <= k /\ k <= t /\ Len(wire') = l + (k - m)
    BY <2>2, <2>4, <2>5
  <2>7. \A i \in 1..k : wire'[d + i].at = i /\ wire'[d + i].of = t
    <3>1. SUFFICES ASSUME NEW i \in 1..k PROVE wire'[d + i].at = i /\ wire'[d + i].of = t
      OBVIOUS
    <3>2. i \in 1..t
      BY <2>6
    <3>3. wire'[d + i] = Ciphertext[i]
      BY <2>2, <2>5
    <3>4. Ciphertext[i].at = i /\ Ciphertext[i].of = t
      BY <2>3, <2>5, <3>2
    <3> QED
      BY <3>3, <3>4
  <2>8. d = 0 \/ wire'[d].at = wire'[d].of
    <3>1. d = 0 \/ d \in 1..l
      BY <2>6
    <3>2. d = 0 \/ wire[d].at = wire[d].of
      BY <2>1, <2>5 DEF OpenInv, Boundary
    <3> QED
      BY <2>2, <2>5, <3>1, <3>2
  <2>9. ASSUME NEW p \in 1..(l + (k - m))
        PROVE  IF p = 1 \/ wire'[p - 1].at = wire'[p - 1].of
               THEN wire'[p].at = 1
               ELSE wire'[p].at = wire'[p - 1].at + 1 /\ wire'[p].of = wire'[p - 1].of
    <3>1. CASE p <= l
      <4>1. p \in 1..l /\ (p = 1 \/ p - 1 \in 1..l)
        BY <3>1
      <4>2. wire'[p] = wire[p] /\ (p = 1 \/ wire'[p - 1] = wire[p - 1])
        BY <2>2, <2>5, <4>1
      <4>3. IF p = 1 \/ wire[p - 1].at = wire[p - 1].of
            THEN wire[p].at = 1
            ELSE wire[p].at = wire[p - 1].at + 1 /\ wire[p].of = wire[p - 1].of
        BY <2>1, <2>5, <4>1 DEF WireFramed
      <4> QED
        BY <4>2, <4>3
    <3>2. CASE ~(p <= l)
      <4>1. PICK i \in 1..k : p = d + i
        <5>1. p - d \in 1..k /\ p = d + (p - d)
          BY <2>6, <3>2
        <5> QED
          BY <5>1
      <4>2. wire'[p].at = i /\ wire'[p].of = t
        BY <2>7, <4>1
      <4>3. CASE i = 1
        <5>1. p = 1 \/ (p # 1 /\ p - 1 = d /\ d # 0)
          BY <4>1, <4>3
        <5> QED
          BY <2>8, <4>2, <4>3, <5>1
      <4>4. CASE i # 1
        <5>1. i - 1 \in 1..k /\ p - 1 = d + (i - 1) /\ i - 1 # t /\ p # 1 /\ i = (i - 1) + 1
          BY <2>6, <4>1, <4>4
        <5>2. wire'[p - 1].at = i - 1 /\ wire'[p - 1].of = t
          BY <2>7, <5>1
        <5> QED
          BY <4>2, <5>1, <5>2
      <4> QED
        BY <4>3, <4>4
    <3> QED
      BY <3>1, <3>2
  <2> QED
    BY <2>6, <2>9 DEF WireFramed
<1> QED
  BY <1>1, <1>2 DEF Next, Call, Return, Encrypt, EncryptFails, SendFails, RecordSent, Finished, vars

\* Every step keeps the wire one of whole records while the connection is open.
LEMMA OpenStep ==
    ASSUME IInv, [Next]_vars, status' = "open"
    PROVE  OpenInv'
<1>1. TypeOK /\ CountInv /\ OpenInv /\ status = "open"
  <2>1. status = "open"
    BY DEF IInv, TypeOK, Next, Call, Return, Encrypt, EncryptFails, Send, SendFails, RecordSent,
           Finished, vars
  <2> QED
    BY <2>1 DEF IInv
<1>2. /\ Len(wire) \in Nat /\ Len(record) \in Nat /\ size \in Nat /\ said \in Nat /\ size <= said
      /\ total \in Nat /\ sent \in 0..total
  <2>1. Len(record) \in Nat /\ total \in Nat
    BY <1>1, CiphertextFacts
  <2> QED
    BY <1>1, <2>1 DEF TypeOK, CountInv
<1>3. CASE Call
  <2>1. /\ pc = "idle" /\ pc' = "loop" /\ size' \in 0..MaxSize /\ said' = said + size'
        /\ wire' = wire
    BY <1>3 DEF Call
  <2>2. done' = done
    BY <2>1 DEF done
  <2>3. size' \in Nat /\ before = said - size /\ size = 0
    BY <1>1, <2>1 DEF OpenInv, before
  <2>4. before' = before
    <3>1. PICK a \in Nat, b \in Nat : a = said /\ b = size'
      BY <1>2, <2>3
    <3>2. before' = (a + b) - b
      BY <2>1, <3>1 DEF before
    <3>3. before = a - 0
      BY <2>3, <3>1
    <3>4. (a + b) - b = a - 0
      OBVIOUS
    <3> QED
      BY <3>2, <3>3, <3>4
  <2> QED
    BY <1>1, <2>1, <2>2, <2>4 DEF OpenInv, Boundary, Carries
<1>4. CASE Return
  BY <1>1, <1>4 DEF Return, OpenInv, Boundary, Carries, done, before
<1>5. CASE Encrypt
  <2> DEFINE use == IF size <= MaximumMessage THEN size ELSE MaximumMessage
  <2>1. /\ pc = "loop" /\ pc' = "send" /\ sent' = 0 /\ size # 0
        /\ record' = [i \in 1..use |-> said - size + i]
        /\ said' = said /\ size' = size /\ wire' = wire
    BY <1>5 DEF Encrypt
  <2>2. use \in 1..size
    BY <1>2, <2>1, WriteAssumption
  <2> HIDE DEF use
  <2>3. record' \in [1..use -> Int] /\ \A i \in 1..use : record'[i] = before + i
    <3>1. \A i \in 1..use : said - size + i \in Int
      BY <1>2, <2>2
    <3> QED
      BY <2>1, <3>1 DEF before
  <2>4. use \in Nat
    BY <1>2, <2>2
  <2>5. Len(record') = use
    BY <2>3, <2>4
  <2>6. done' = done
    BY <1>2, <2>1 DEF done
  <2>7. before' = before
    BY <2>1 DEF before
  <2>8. 0 <= Len(wire) /\ \A i \in 1..0 : FALSE
    BY <1>2
  <2>9. AtHand'
    BY <2>1, <2>2, <2>3, <2>5, <2>7, <2>8 DEF AtHand
  <2> QED
    BY <1>1, <2>1, <2>6, <2>7, <2>9 DEF OpenInv, Boundary, Carries
<1>6. CASE EncryptFails \/ SendFails
  BY <1>6 DEF EncryptFails, SendFails
<1>7. CASE Send
  <2>1. /\ pc = "send" /\ pc' = "send" /\ said' = said /\ size' = size /\ record' = record
    BY <1>7 DEF Send
  <2>2. /\ sent' \in (sent + 1)..total /\ Ciphertext' = Ciphertext
        /\ Len(wire') = Len(wire) + (sent' - sent)
        /\ done' = done /\ done \in 0..Len(wire)
        /\ \A p \in 1..Len(wire) : wire'[p] = wire[p]
        /\ \A i \in 1..sent' : wire'[done + i] = Ciphertext[i]
    BY <1>1, <1>7, SendFacts
  <2>3. PICK d \in Nat : d = done
    BY <1>2, <2>2
  <2>4. \A p \in 1..d : p \in 1..Len(wire)
    BY <1>2, <2>2, <2>3
  <2>5. \A p \in 1..d : wire'[p] = wire[p]
    BY <2>2, <2>4
  <2>6. before' = before
    BY <2>1 DEF before
  <2>7. Boundary(d) /\ Carries(d, before)
    BY <1>1, <2>3 DEF OpenInv
  <2>8. Boundary(d)'
    <3>1. d = 0 \/ d \in 1..d
      OBVIOUS
    <3> QED
      BY <2>5, <2>7, <3>1 DEF Boundary
  <2>9. (\A p \in 1..d : wire'[p].byte <= before)
        /\ (\A b \in 1..before : \E p \in 1..d : wire'[p].byte = b)
        /\ \A p, q \in 1..d : p < q /\ wire'[q].byte # 0 => wire'[p].byte < wire'[q].byte
    BY <2>5, <2>7 DEF Carries
  <2>10. Carries(d, before)'
    BY <2>6, <2>9 DEF Carries
  <2>11. sent' <= Len(wire')
    <3>1. sent <= Len(wire)
      BY <1>1, <2>1 DEF OpenInv, AtHand
    <3>2. PICK m \in Nat, k \in Nat, l \in Nat : m = sent /\ k = sent' /\ l = Len(wire)
      <4>1. sent' \in (sent + 1)..total /\ sent \in Nat /\ total \in Nat
        BY <1>2, <2>2
      <4>2. sent' \in Nat
        BY <4>1
      <4> QED
        BY <1>2, <4>1, <4>2
    <3>3. m <= l /\ Len(wire') = l + (k - m)
      BY <2>2, <3>1, <3>2
    <3>4. k <= l + (k - m)
      BY <3>3
    <3> QED
      BY <3>2, <3>3, <3>4
  <2>12. AtHand'
    BY <1>1, <2>1, <2>2, <2>6, <2>11 DEF AtHand, OpenInv
  <2> QED
    BY <2>1, <2>2, <2>3, <2>8, <2>10, <2>12 DEF OpenInv
<1>8. CASE RecordSent
  <2>1. /\ pc = "send" /\ pc' = "loop" /\ sent = total /\ size' = size - Len(record)
        /\ said' = said /\ wire' = wire
    BY <1>8 DEF RecordSent
  <2>2. Boundary(Len(wire)) /\ Carries(Len(wire), before + Len(record))
    BY <1>1, <2>1, RecordComplete
  <2>3. done' = Len(wire)
    BY <2>1 DEF done
  <2>4. before' = before + Len(record)
    BY <1>2, <2>1 DEF before
  <2> QED
    BY <2>1, <2>2, <2>3, <2>4 DEF OpenInv, Boundary, Carries
<1>9. CASE UNCHANGED vars
  BY <1>1, <1>9 DEF vars, OpenInv, AtHand, Boundary, Carries, done, before, Ciphertext, total
<1> QED
  BY <1>3, <1>4, <1>5, <1>6, <1>7, <1>8, <1>9 DEF Next, Finished

\* Nothing is on the wire at the start.
LEMMA InitInvariant == Init => IInv
<1> SUFFICES ASSUME Init PROVE IInv
  OBVIOUS
<1>1. wire \in Seq(Symbol) /\ Len(wire) = 0 /\ record \in Seq(Nat) /\ Len(record) = 0
  BY DEF Init, Symbol
<1>2. MaxCalls * MaxSize \in Nat /\ 0 * MaxSize = 0
  BY WriteAssumption
<1>3. total \in Nat
  BY <1>1, WriteAssumption DEF total
<1>4. TypeOK
  BY <1>1, <1>2, <1>3, WriteAssumption DEF Init, TypeOK, Symbol
<1>5. CountInv
  BY <1>2 DEF Init, CountInv
<1>6. done = 0 /\ before = 0
  BY <1>1 DEF Init, done, before
<1>7. OpenInv
  BY <1>6 DEF Init, OpenInv, Boundary, Carries
<1>8. WireFramed
  BY <1>1 DEF WireFramed
<1> QED
  BY <1>4, <1>5, <1>7, <1>8 DEF IInv, Init

\* The strengthened invariant holds throughout.
LEMMA Invariance == Spec => []IInv
<1>1. Init => IInv
  BY InitInvariant
<1>2. IInv /\ [Next]_vars => IInv'
  <2> SUFFICES ASSUME IInv, [Next]_vars PROVE IInv'
    OBVIOUS
  <2>1. TypeOK' /\ CountInv'
    BY TypeStep
  <2>2. WireFramed'
    BY FramedStep
  <2>3. status' = "failed" => pc' = "idle"
    BY DEF IInv, TypeOK, Next, Call, Return, Encrypt, EncryptFails, Send, SendFails, RecordSent,
           Finished, vars
  <2>4. status' = "open" => OpenInv'
    BY OpenStep
  <2> QED
    BY <2>1, <2>2, <2>3, <2>4 DEF IInv
<1> QED
  BY <1>1, <1>2, PTL DEF Spec

-------------------------------------------------------------------------------
(* What the server decrypts *)

\* What the server can decrypt is what tls_write has sent.
LEMMA DecryptedInvariant == IInv => DecryptedInv
<1> SUFFICES ASSUME IInv, status = "open" PROVE Decrypted = Numbers(Readable)
  BY DEF DecryptedInv
<1>1. TypeOK /\ CountInv /\ OpenInv
  BY DEF IInv
<1>2. /\ wire \in Seq(Symbol) /\ Len(wire) \in Nat
      /\ said \in Nat /\ size \in Nat /\ size <= said /\ before \in Nat
      /\ Len(record) \in Nat /\ total \in Nat /\ sent \in 0..total
  <2>1. wire \in Seq(Symbol) /\ said \in Nat /\ size \in Nat /\ size <= said /\ sent \in 0..total
    BY <1>1 DEF TypeOK, CountInv, Symbol
  <2>2. Len(record) \in Nat /\ total \in Nat
    BY <1>1, CiphertextFacts
  <2>3. before \in Nat
    BY <2>1 DEF before
  <2> QED
    BY <2>1, <2>2, <2>3
<1>3. CASE pc = "send" /\ sent = total
  <2>1. Boundary(Len(wire)) /\ Carries(Len(wire), before + Len(record))
    BY <1>1, <1>3, RecordComplete
  <2>2. PICK w \in 0..Len(wire), n \in Nat : w = Len(wire) /\ n = before + Len(record)
    BY <1>2
  <2>3. \A p \in (w + 1)..Len(wire) : wire[p].at # wire[p].of
    BY <2>2
  <2>4. Decrypted = Numbers(n)
    BY <1>2, <2>1, <2>2, <2>3, DecryptedFacts
  <2> QED
    BY <1>3, <2>2, <2>4 DEF Readable
<1>4. CASE ~(pc = "send" /\ sent = total)
  <2>1. Boundary(done) /\ Carries(done, before)
    BY <1>1 DEF OpenInv
  <2>2. /\ done \in 0..Len(wire)
        /\ \A p \in (done + 1)..Len(wire) : wire[p].at # wire[p].of
    <3>1. CASE pc # "send"
      <4>1. done = Len(wire) /\ ~\E p \in (Len(wire) + 1)..Len(wire) : TRUE
        BY <1>2, <3>1 DEF done
      <4> QED
        BY <1>2, <4>1
    <3>2. CASE pc = "send"
      <4>1. AtHand /\ done = Len(wire) - sent /\ sent # total
        BY <1>1, <1>4, <3>2 DEF OpenInv, done
      <4>2. PICK m \in Nat, l \in Nat, t \in Nat : m = sent /\ l = Len(wire) /\ t = total
        BY <1>2
      <4>3. m < t /\ m <= l
        BY <1>2, <4>1, <4>2 DEF AtHand
      <4>4. ASSUME NEW p \in ((l - m) + 1)..l PROVE wire[p].at # wire[p].of
        <5>1. PICK i \in 1..m : p = (l - m) + i
          <6>1. p - (l - m) \in 1..m /\ p = (l - m) + (p - (l - m))
            BY <4>3
          <6> QED
            BY <6>1
        <5>2. i \in 1..t /\ i # t
          BY <4>3
        <5>3. wire[p] = Ciphertext[i]
          BY <4>1, <4>2, <5>1 DEF AtHand
        <5>4. Ciphertext[i].at = i /\ Ciphertext[i].of = t
          BY <1>1, <4>2, <5>2, CiphertextFacts
        <5> QED
          BY <5>2, <5>3, <5>4
      <4>5. l - m \in 0..l
        BY <4>3
      <4> QED
        BY <4>1, <4>2, <4>4, <4>5
    <3> QED
      BY <3>1, <3>2
  <2>3. PICK w \in 0..Len(wire), n \in Nat : w = done /\ n = before
    BY <1>2, <2>2
  <2>4. Decrypted = Numbers(n)
    BY <1>2, <2>1, <2>2, <2>3, DecryptedFacts
  <2> QED
    BY <1>4, <2>3, <2>4 DEF Readable
<1> QED
  BY <1>3, <1>4

\* The plaintext of the wire is what a step leaves alone when it sends nothing.
LEMMA SameDecrypted ==
    ASSUME wire' = wire
    PROVE  Decrypted' = Decrypted
BY DEF Decrypted, Plain

\* Until a call fails, a step hands over no bytes or the record that it completes.
LEMMA OpenSends ==
    ASSUME IInv, IInv', Send, Decrypted' # Decrypted
    PROVE  /\ Len(Decrypted) \in Nat
           /\ \E n \in (Len(Decrypted) + 1)..(MaxCalls * MaxSize) : Decrypted' = Numbers(n)
<1>1. TypeOK /\ CountInv /\ OpenInv /\ status = "open" /\ status' = "open"
  BY DEF IInv, TypeOK, Send
<1>2. /\ pc = "send" /\ pc' = "send" /\ sent # total
      /\ said' = said /\ size' = size /\ record' = record
  BY DEF Send
<1>3. total' = total
  BY <1>1, SendFacts
<1>4. before' = before
  BY <1>2 DEF before
<1>5. said \in 0..(MaxCalls * MaxSize) /\ size \in Nat /\ size <= said /\ Len(record) \in 1..size
  BY <1>1, <1>2 DEF TypeOK, CountInv, OpenInv, AtHand
<1>6. PICK a \in Nat, b \in Nat, l \in Nat : a = said /\ b = size /\ l = Len(record)
  BY <1>5, SMTT(30)
<1>7. PICK c \in Nat : c = MaxCalls * MaxSize
  BY WriteAssumption
<1>8. a <= c /\ b <= a /\ 1 <= l /\ l <= b
  BY <1>5, <1>6, <1>7
<1>9. before = a - b
  BY <1>6 DEF before
<1>10. Decrypted = Numbers(a - b)
  <2>1. Decrypted = Numbers(Readable)
    BY <1>1, DecryptedInvariant DEF DecryptedInv
  <2> QED
    BY <1>2, <1>9, <2>1 DEF Readable
<1>11. Decrypted' = Numbers(Readable')
  <2>1. DecryptedInv'
    BY DecryptedInvariant, PTL
  <2> QED
    BY <1>1, <2>1 DEF DecryptedInv, Numbers
<1>12. Readable' = a - b \/ Readable' = (a - b) + l
  BY <1>2, <1>4, <1>6, <1>9 DEF Readable
<1>13. Decrypted' = Numbers((a - b) + l)
  BY <1>10, <1>11, <1>12
<1>14. a - b \in Nat /\ (a - b) + l \in ((a - b) + 1)..c
  BY <1>8
<1>15. Len(Decrypted) = a - b
  BY <1>10, <1>14 DEF Numbers
<1> QED
  BY <1>7, <1>13, <1>14, <1>15

\* The first bytes of those the callers pass.
LEMMA NumbersPrefix ==
    ASSUME NEW m \in Nat, NEW n \in 0..m
    PROVE  /\ Numbers(m) \in Seq(Nat) /\ Len(Numbers(m)) = m
           /\ SubSeq(Numbers(m), 1, n) = Numbers(n)
<1>1. Numbers(m) \in [1..m -> Nat]
  BY DEF Numbers
<1>2. Numbers(m) \in Seq(Nat) /\ Len(Numbers(m)) = m
  BY <1>1
<1>3. 1 \in 1..(Len(Numbers(m)) + 1) /\ n \in (1 - 1)..Len(Numbers(m))
  BY <1>2
<1>4. Len(SubSeq(Numbers(m), 1, n)) = n
  BY <1>2, <1>3, SubSeqProperties
<1>5. ASSUME NEW i \in 1..n PROVE SubSeq(Numbers(m), 1, n)[i] = i
  <2>1. SubSeq(Numbers(m), 1, n)[i] = Numbers(m)[1 + i - 1]
    BY <1>2, <1>3, <1>4, SubSeqProperties
  <2>2. 1 + i - 1 = i /\ i \in 1..m
    OBVIOUS
  <2> QED
    BY <2>1, <2>2 DEF Numbers
<1>6. SubSeq(Numbers(m), 1, n) = [i \in 1..n |-> SubSeq(Numbers(m), 1, n)[i]]
  <2>1. SubSeq(Numbers(m), 1, n) \in Seq(Nat)
    BY <1>2, <1>3, SubSeqProperties
  <2> QED
    BY <1>4, <2>1
<1> QED
  BY <1>2, <1>5, <1>6 DEF Numbers

-------------------------------------------------------------------------------
(* The theorems *)

\* The variables have their types: no call goes beyond a record of
\* MaximumMessage bytes or beyond the record's end.
THEOREM TypeCorrect == Spec => []TypeOK
<1>1. IInv => TypeOK
  BY DEF IInv
<1> QED
  BY <1>1, Invariance, PTL

\* However send cuts the records (tls.c:284-293), what reaches the server is
\* records behind each other, also when a call fails in the middle of one.
THEOREM RecordsStayFramed == Spec => []WireFramed
<1>1. IInv => WireFramed
  BY DEF IInv
<1> QED
  BY <1>1, Invariance, PTL

\* When tls_write returned 0 to all callers so far, the server can decrypt all
\* that they passed (tls.c:251).
THEOREM SuccessMeansAllSent == Spec => []ZeroMeansAllSent
<1>1. IInv => ZeroMeansAllSent
  <2> SUFFICES ASSUME IInv, pc = "idle", status = "open" PROVE Len(Decrypted) = said
    BY DEF ZeroMeansAllSent
  <2>1. size = 0 /\ said \in Nat
    BY DEF IInv, TypeOK, OpenInv
  <2>2. Readable = said
    BY <2>1 DEF Readable, before
  <2>3. Decrypted = Numbers(said)
    BY <2>2, DecryptedInvariant DEF DecryptedInv
  <2> QED
    BY <2>1, <2>3, NumbersPrefix
<1> QED
  BY <1>1, Invariance, PTL

\* What the server decrypts is a ByteStream of what the callers pass: all bytes
\* once and in order until a call fails, and none after that.
THEOREM WritesByteStream == Spec => ImplementsByteStream
<1>1. Init => B!Init
  <2> SUFFICES ASSUME Init PROVE B!Init
    OBVIOUS
  <2>1. MaxCalls * MaxSize \in Nat
    BY WriteAssumption
  <2>2. Numbers(MaxCalls * MaxSize) \in Seq(Nat)
    BY <2>1, NumbersPrefix
  <2>3. Decrypted = Numbers(Readable)
    BY InitInvariant, DecryptedInvariant DEF DecryptedInv, Init
  <2>4. Readable = 0
    BY DEF Init, Readable, before
  <2>5. Decrypted = <<>>
    BY <2>3, <2>4 DEF Numbers
  <2> QED
    BY <2>2, <2>5 DEF B!Init, Numbers, Init
<1>2. IInv /\ IInv' /\ [Next]_vars => [B!Next]_B!streamVars
  <2> SUFFICES ASSUME IInv, IInv', [Next]_vars PROVE [B!Next]_B!streamVars
    OBVIOUS
  <2>1. CASE EncryptFails \/ SendFails
    <3>1. wire' = wire /\ status' = "failed"
      BY <2>1 DEF EncryptFails, SendFails
    <3>2. B!Fail
      BY <3>1, SameDecrypted DEF B!Fail
    <3> QED
      BY <3>2 DEF B!Next
  <2>2. CASE Send
    <3>1. status' = status /\ status = "open"
      BY <2>2 DEF Send, IInv, TypeOK
    <3>2. CASE Decrypted' = Decrypted
      BY <3>1, <3>2 DEF B!streamVars
    <3>3. CASE Decrypted' # Decrypted
      <4>1. PICK n \in (Len(Decrypted) + 1)..(MaxCalls * MaxSize) : Decrypted' = Numbers(n)
        BY <2>2, <3>3, OpenSends
      <4>2. PICK m \in Nat : m = MaxCalls * MaxSize
        BY WriteAssumption
      <4>3. Len(Decrypted) \in Nat
        BY <2>2, <3>3, OpenSends
      <4>4. n \in 0..m
        BY <4>2, <4>3
      <4>5. Len(Numbers(m)) = m /\ SubSeq(Numbers(m), 1, n) = Numbers(n)
        BY <4>4, NumbersPrefix
      <4>6. B!Deliver
        BY <3>1, <4>1, <4>2, <4>5 DEF B!Deliver, Numbers
      <4> QED
        BY <4>6 DEF B!Next
    <3> QED
      BY <3>2, <3>3
  <2>3. CASE Call \/ Return \/ Encrypt \/ RecordSent \/ Finished \/ UNCHANGED vars
    <3>1. wire' = wire /\ status' = status
      BY <2>3 DEF Call, Return, Encrypt, RecordSent, Finished, vars
    <3> QED
      BY <3>1, SameDecrypted DEF B!streamVars
  <2> QED
    BY <2>1, <2>2, <2>3 DEF Next
<1> QED
  BY <1>1, <1>2, Invariance, PTL DEF Spec, ImplementsByteStream, B!Spec
=============================================================================
