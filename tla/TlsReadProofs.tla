----------------------------- MODULE TlsReadProofs -----------------------------
(***************************************************************************)
(* Theorems about TlsRead for any stream of records, any sizes of the      *)
(* buffers and any cut of the stream into what recv returns.  Window says  *)
(* which part of the stream is in the buffer, PointerInv where in it the   *)
(* decrypted bytes are, ToldInv why a call has told of an end, and         *)
(* DeliveredInv how many bytes of plaintext the calls have returned.       *)
(***************************************************************************)
EXTENDS TlsRead, DataLemmas

\* The bytes of the stream that have left the buffer.
front == arrived - received

\* The buffer holds the part of the stream behind them, and they are whole
\* records.
Window ==
    /\ received <= arrived
    /\ \A i \in 1..received : incoming[i] = stream[front + i]
    /\ front < Len(stream) => stream[front + 1].at = 1

\* Decrypted bytes are those of a data record at the front of the buffer.
PointerInv ==
    /\ decrypted = 0 => used = 0 /\ available = 0
    /\ decrypted # 0 => received > 0 /\ incoming[1].kind = "data"
    /\ PointersInRecord

\* Nothing can be done without more from the server, or nothing at all.
Waiting == copied = <<>> /\ decrypted = 0 /\ (received = 0 \/ Incomplete)
Spoilt ==
    /\ copied = <<>> /\ decrypted = 0
    /\ Unreadable \/ (Complete /\ incoming[1].kind = "handshake")

ToldInv ==
    /\ pc = "recv" => Waiting /\ received < BufferSize
    /\ status = "ended" => Waiting /\ EndIsReal
    /\ status = "failed" =>
          /\ FailureIsReal
          /\ Spoilt \/ (Waiting /\ (socket = "error" \/ received = BufferSize))

\* The plaintext of the first q bytes of a stream, q the end of a record.
Before(s, q) == IF q = 0 THEN 0 ELSE s[q].before + Payload(s[q])

\* Until an end is told the calls have returned all plaintext up to here.
Taken == Before(stream, front) + (IF decrypted = 0 THEN 0 ELSE decrypted - Header - 1)
Numbers(n) == [i \in 1..n |-> i]
DeliveredInv == status = "open" => delivered \o copied = Numbers(Taken)

-------------------------------------------------------------------------------
(* Streams *)

\* The symbols of a stream of records.
LEMMA SymbolFacts ==
    ASSUME NEW s, Framed(s), NEW p \in 1..Len(s)
    PROVE  /\ s \in Seq(Symbol)
           /\ s[p] \in Symbol
           /\ s[p].at \in 1..s[p].of
           /\ s[p].of \in Nat
           /\ Payload(s[p]) \in Nat
           /\ Plaintext(s[p]) \in Nat
<1>1. s \in Seq(Symbol) /\ s[p] \in Symbol
  BY ElementOfSeq DEF Framed
<1>2. s[p].at \in 1..s[p].of /\ (s[p].kind = "data" => s[p].of >= Header + Trailer)
  BY DEF Framed
<1>3. s[p].of \in Nat /\ s[p].at \in Nat /\ s[p].before \in Nat
  BY <1>1 DEF Symbol
<1>4. Payload(s[p]) \in Nat
  BY <1>2, <1>3, SizesAssumption DEF Payload
<1>5. Plaintext(s[p]) \in Nat
  BY <1>3, <1>4, SizesAssumption DEF Plaintext
<1> QED
  BY <1>1, <1>2, <1>3, <1>4, <1>5

\* A record that starts behind byte q ends in the stream, all its bytes agree
\* on what it is, and behind it the stream ends or another record starts.
LEMMA RecordFacts ==
    ASSUME NEW s, Framed(s), NEW q \in Nat, q < Len(s), s[q + 1].at = 1,
           NEW of, of = s[q + 1].of
    PROVE  /\ of \in Nat /\ of >= 1 /\ q + of <= Len(s)
           /\ \A i \in 1..of : s[q + i] = [s[q + 1] EXCEPT !.at = i]
           /\ q + of < Len(s) => s[q + of + 1].at = 1
           /\ s[q + 1].before = Before(s, q)
           /\ Before(s, q + of) = Before(s, q) + Payload(s[q + 1])
<1> DEFINE p == q + 1
<1>1. p \in 1..Len(s) /\ s \in Seq(Symbol) /\ p - s[p].at = q /\ Len(s) \in Nat
  BY DEF Framed
<1>2. s[p] \in Symbol /\ of \in Nat /\ of >= 1
  BY <1>1, SymbolFacts
<1>3. /\ q + of <= Len(s)
      /\ \A i \in 1..of : s[q + i] = [s[p] EXCEPT !.at = i]
      /\ s[p].before = Before(s, q)
  BY <1>1 DEF Framed, Before
<1>4. ASSUME q + of < Len(s) PROVE s[q + of + 1].at = 1
  <2> DEFINE r == q + of + 1
  <2>0. r \in 1..Len(s)
    BY <1>1, <1>2, <1>4
  <2> HIDE DEF r
  <2>1. s[r].at \in 1..s[r].of /\ s[r].of \in Nat
    BY <2>0, SymbolFacts
  <2>2. SUFFICES ASSUME s[r].at # 1 PROVE FALSE
    BY DEF r
  <2>3. PICK at : at = s[r].at /\ at \in Nat /\ at >= 2 /\ at <= s[r].of
    BY <2>1, <2>2
  <2>4. s[(r - at) + (at - 1)] = [s[r] EXCEPT !.at = at - 1]
    <3>1. \A i \in 1..s[r].of : s[(r - s[r].at) + i] = [s[r] EXCEPT !.at = i]
      BY <2>0 DEF Framed
    <3>2. at - 1 \in 1..s[r].of
      BY <2>1, <2>3
    <3> QED
      BY <2>3, <3>1, <3>2
  <2>5. (r - at) + (at - 1) = q + of
    BY <1>2, <2>3 DEF r
  <2>6. s[q + of] = [s[p] EXCEPT !.at = of]
    BY <1>2, <1>3
  <2>7. s[q + of].at = of /\ s[q + of].of = of
    BY <1>2, <2>6 DEF Symbol
  <2>8. s[q + of].at = at - 1 /\ s[q + of].of = s[r].of
    <3>1. s[r] \in Symbol
      BY <2>0, SymbolFacts
    <3> QED
      BY <2>4, <2>5, <3>1 DEF Symbol
  <2>9. at - 1 = of /\ at <= of
    BY <2>3, <2>7, <2>8
  <2> QED
    BY <2>3, <2>9
<1>5. Before(s, q + of) = Before(s, q) + Payload(s[p])
  <2>1. s[q + of] = [s[p] EXCEPT !.at = of] /\ q + of # 0
    BY <1>2, <1>3
  <2>2. s[q + of].before = s[p].before /\ Payload(s[q + of]) = Payload(s[p])
    BY <1>2, <2>1 DEF Symbol, Payload
  <2> QED
    BY <1>3, <2>1, <2>2 DEF Before
<1> QED
  BY <1>2, <1>3, <1>4, <1>5

\* No record's plaintext goes beyond that of the whole stream: none is the
\* last one that does.
LEMMA PlaintextBound ==
    ASSUME NEW s, Framed(s), NEW q \in 0..Len(s), q < Len(s) => s[q + 1].at = 1
    PROVE  /\ Before(s, q) \in Nat
           /\ Before(s, q) <= PlaintextLength(s)
           /\ PlaintextLength(s) \in Nat
           /\ q < Len(s) => Before(s, q) + Payload(s[q + 1]) <= PlaintextLength(s)
<1>1. s \in Seq(Symbol) /\ Len(s) \in Nat
  BY DEF Framed
<1>2. \A p \in 0..Len(s) : Before(s, p) \in Nat
  <2>1. ASSUME NEW p \in 1..Len(s) PROVE Before(s, p) \in Nat
    <3>1. s[p].before \in Nat /\ Payload(s[p]) \in Nat
      BY SymbolFacts DEF Symbol
    <3> QED
      BY <3>1 DEF Before
  <2>2. Before(s, 0) \in Nat
    BY DEF Before
  <2> QED
    BY <1>1, <2>1, <2>2
<1>3. PlaintextLength(s) = Before(s, Len(s))
  BY <1>1 DEF PlaintextLength, Before
<1> DEFINE T == {d \in 0..Len(s) : /\ d > 0 => s[Len(s) - d + 1].at = 1
                                   /\ ~(Before(s, Len(s) - d) <= PlaintextLength(s))}
<1>4. T = {}
  <2>1. SUFFICES ASSUME T # {} PROVE FALSE
    OBVIOUS
  <2>2. T \subseteq Nat
    BY <1>1
  <2>3. PICK d \in T : \A e \in T : d <= e
    BY <2>1, <2>2, LeastNumber
  <2>4. d # 0
    BY <1>1, <1>2, <1>3
  <2>5. PICK r \in Nat : r = Len(s) - d /\ r < Len(s)
    BY <1>1, <2>4
  <2>6. s[r + 1].at = 1
    BY <1>1, <2>4, <2>5
  <2>7. PICK of : of = s[r + 1].of
    OBVIOUS
  <2>8. /\ of \in Nat /\ of >= 1 /\ r + of <= Len(s)
        /\ r + of < Len(s) => s[r + of + 1].at = 1
        /\ Before(s, r + of) = Before(s, r) + Payload(s[r + 1])
    BY <2>5, <2>6, <2>7, RecordFacts
  <2>9. Payload(s[r + 1]) \in Nat /\ Before(s, r) \in Nat
    <3>1. r + 1 \in 1..Len(s) /\ r \in 0..Len(s)
      BY <1>1, <2>5
    <3> QED
      BY <1>2, <3>1, SymbolFacts
  <2>10. ~(Before(s, r) <= PlaintextLength(s))
    BY <2>5
  <2>11. PICK e \in Nat : e = Len(s) - (r + of) /\ e < d /\ e <= Len(s)
    BY <1>1, <2>5, <2>8
  <2>12. Len(s) - e = r + of
    BY <1>1, <2>5, <2>8, <2>11
  <2>13. ~(Before(s, r + of) <= PlaintextLength(s))
    <3>1. PICK b \in Nat, n \in Nat : b = Before(s, r) /\ n = Payload(s[r + 1])
      BY <2>9
    <3>2. PlaintextLength(s) \in Nat
      BY <1>1, <1>2, <1>3
    <3>3. Before(s, r + of) = b + n
      BY <2>8, <3>1
    <3> QED
      BY <2>10, <3>1, <3>2, <3>3
  <2>14. e \in T
    BY <1>1, <2>8, <2>11, <2>12, <2>13
  <2> QED
    BY <1>1, <2>3, <2>11, <2>14
<1>5. ASSUME NEW p \in 0..Len(s), p < Len(s) => s[p + 1].at = 1
      PROVE  Before(s, p) <= PlaintextLength(s)
  <2>1. PICK d \in 0..Len(s) : d = Len(s) - p /\ Len(s) - d = p /\ (d > 0 => p < Len(s))
    BY <1>1
  <2> QED
    BY <1>4, <1>5, <2>1
<1>6. ASSUME q < Len(s) PROVE Before(s, q) + Payload(s[q + 1]) <= PlaintextLength(s)
  <2>1. PICK of : of = s[q + 1].of
    OBVIOUS
  <2>2. /\ of \in Nat /\ q + of <= Len(s)
        /\ q + of < Len(s) => s[q + of + 1].at = 1
        /\ Before(s, q + of) = Before(s, q) + Payload(s[q + 1])
    BY <1>6, <2>1, RecordFacts
  <2>3. q + of \in 0..Len(s)
    BY <1>1, <2>2
  <2> QED
    BY <1>5, <2>2, <2>3
<1> QED
  BY <1>1, <1>2, <1>3, <1>5, <1>6

\* A record that ends at or before another one starts has its plaintext before
\* that one's: there is no first byte of the stream for which it is not so.
LEMMA PlaintextGrows ==
    ASSUME NEW s, Framed(s), NEW q \in 1..Len(s), NEW p \in 1..q
    PROVE  \/ s[p].before + Payload(s[p]) <= s[q].before
           \/ s[p].before = s[q].before /\ Payload(s[p]) = Payload(s[q])
<1>1. s \in Seq(Symbol) /\ Len(s) \in Nat
  BY DEF Framed
<1>2. \A b \in 1..Len(s) : s[b].before \in Nat /\ Payload(s[b]) \in Nat
  BY SymbolFacts DEF Symbol
<1> DEFINE Grows(a, b) == \/ s[a].before + Payload(s[a]) <= s[b].before
                          \/ s[a].before = s[b].before /\ Payload(s[a]) = Payload(s[b])
           T == {b \in 1..Len(s) : ~(\A a \in 1..b : Grows(a, b))}
<1>3. T = {}
  <2>1. SUFFICES ASSUME T # {} PROVE FALSE
    OBVIOUS
  <2>2. T \subseteq Nat
    BY <1>1
  <2>3. PICK b \in T : \A c \in T : b <= c
    BY <2>1, <2>2, LeastNumber
  <2>4. PICK a \in 1..b : ~Grows(a, b)
    OBVIOUS
  <2>5. b \in 1..Len(s) /\ b \in Nat
    OBVIOUS
  <2>6. s[b] \in Symbol /\ s[b].at \in 1..s[b].of /\ s[b].of \in Nat
    BY <2>5, SymbolFacts
  <2>7. PICK start \in Nat : start = b - s[b].at /\ start < b /\ b = start + s[b].at
    <3>1. b - s[b].at >= 0
      BY <2>5 DEF Framed
    <3> QED
      BY <2>5, <2>6, <3>1
  <2>8. /\ \A i \in 1..s[b].of : s[start + i] = [s[b] EXCEPT !.at = i]
        /\ s[b].before = IF start = 0 THEN 0 ELSE s[start].before + Payload(s[start])
    BY <2>5, <2>7 DEF Framed
  <2>9. CASE a > start
    <3>1. PICK i \in 1..s[b].of : a = start + i
      <4>1. PICK n \in Nat, of \in Nat : n = s[b].at /\ of = s[b].of /\ n <= of
        BY <2>6
      <4>2. a \in Nat /\ a <= start + n
        BY <2>5, <2>7, <4>1
      <4>3. a - start \in 1..of /\ a = start + (a - start)
        <5>1. n <= of
          BY <4>1
        <5> QED
          BY <2>9, <4>2, <5>1
      <4> QED
        BY <4>1, <4>3
    <3>2. s[a] = [s[b] EXCEPT !.at = i]
      BY <2>8, <3>1
    <3>3. s[a].before = s[b].before /\ Payload(s[a]) = Payload(s[b])
      BY <2>6, <3>2 DEF Symbol, Payload
    <3> QED
      BY <2>4, <3>3
  <2>10. CASE a <= start
    <3>1. start \in 1..Len(s) /\ a \in 1..start /\ start \notin T
      <4>1. start \in 1..Len(s) /\ a \in 1..start
        BY <1>1, <2>5, <2>7, <2>10
      <4>2. ~(b <= start)
        BY <2>5, <2>7
      <4> QED
        BY <2>3, <4>1, <4>2
    <3>2. Grows(a, start)
      BY <3>1
    <3>3. s[b].before = s[start].before + Payload(s[start])
      BY <2>8, <3>1
    <3>4. a \in 1..Len(s)
      BY <1>1, <3>1
    <3>5. PICK ba \in Nat, na \in Nat, bs \in Nat, ns \in Nat :
             ba = s[a].before /\ na = Payload(s[a]) /\ bs = s[start].before /\ ns = Payload(s[start])
      BY <1>2, <3>1, <3>4
    <3>6. ba + na <= bs + ns
      <4>1. ba + na <= bs \/ (ba = bs /\ na = ns)
        BY <3>2, <3>5
      <4> QED
        BY <4>1
    <3> QED
      BY <2>4, <3>3, <3>5, <3>6
  <2> QED
    BY <2>5, <2>7, <2>9, <2>10
<1> QED
  BY <1>3

-------------------------------------------------------------------------------
(* The buffer *)

\* What is in the buffer is in the stream.
LEMMA BufferFacts ==
    ASSUME TypeOK, Window, NEW i \in 1..received
    PROVE  /\ front + i \in 1..Len(stream)
           /\ incoming[i] = stream[front + i]
           /\ incoming[i] \in Symbol
           /\ incoming[i].of \in Nat
           /\ Payload(incoming[i]) \in Nat
           /\ Plaintext(incoming[i]) \in Nat
<1>1. received \in Nat /\ arrived \in Nat /\ arrived <= Len(stream) /\ Len(stream) \in Nat
  BY DEF TypeOK, Framed, received
<1>2. received <= arrived /\ incoming[i] = stream[front + i]
  BY DEF Window
<1>3. PICK p \in 1..Len(stream) : p = front + i
  BY <1>1, <1>2 DEF front
<1>4. Framed(stream)
  BY DEF TypeOK
<1> QED
  BY <1>2, <1>3, <1>4, SymbolFacts

\* What is at the front of the buffer is a record of the stream, of which more
\* may be under way.
LEMMA FirstRecord ==
    ASSUME TypeOK, Window, received > 0, NEW of, of = incoming[1].of
    PROVE  /\ front \in Nat /\ front < Len(stream)
           /\ incoming[1] = stream[front + 1]
           /\ incoming[1].at = 1
           /\ of \in Nat /\ of >= 1 /\ front + of <= Len(stream)
           /\ \A i \in 1..of : stream[front + i] = [incoming[1] EXCEPT !.at = i]
           /\ front + of < Len(stream) => stream[front + of + 1].at = 1
           /\ Before(stream, front + of) = Before(stream, front) + Payload(incoming[1])
           /\ incoming[1].before = Before(stream, front)
           /\ incoming[1].kind # "junk" => of <= BufferSize
           /\ incoming[1].kind = "data" => of >= Header + Trailer
           /\ incoming[1].kind = "close" => front + of = Len(stream)
<1>1. received \in Nat /\ arrived \in Nat /\ arrived <= Len(stream) /\ Len(stream) \in Nat
  BY DEF TypeOK, Framed, received
<1>2. Framed(stream)
  BY DEF TypeOK
<1>3. 1 \in 1..received
  BY <1>1
<1>4. front \in Nat /\ front < Len(stream) /\ front + 1 \in 1..Len(stream)
  BY <1>1 DEF Window, front
<1>5. incoming[1] = stream[front + 1] /\ stream[front + 1].at = 1
  BY <1>3, <1>4 DEF Window
<1>6. /\ of \in Nat /\ of >= 1 /\ front + of <= Len(stream)
      /\ \A i \in 1..of : stream[front + i] = [stream[front + 1] EXCEPT !.at = i]
      /\ front + of < Len(stream) => stream[front + of + 1].at = 1
      /\ stream[front + 1].before = Before(stream, front)
      /\ Before(stream, front + of) = Before(stream, front) + Payload(stream[front + 1])
  <2>1. PICK q \in Nat : q = front
    BY <1>4
  <2> QED
    BY <1>2, <1>4, <1>5, <2>1, RecordFacts
<1>7. /\ incoming[1].kind # "junk" => of <= BufferSize
      /\ incoming[1].kind = "data" => of >= Header + Trailer
      /\ incoming[1].kind = "close" => front + of = Len(stream)
  <2>1. PICK p \in 1..Len(stream) : p = front + 1 /\ p - 1 = front
    BY <1>4
  <2> QED
    BY <1>2, <1>5, <2>1 DEF Framed
<1> QED
  BY <1>4, <1>5, <1>6, <1>7

\* The bytes that are copied are those that come next in the plaintext.
LEMMA CopiedFacts ==
    ASSUME TypeOK, Window, PointerInv, decrypted # 0, NEW i \in 1..available
    PROVE  /\ decrypted + i - 1 \in 1..received
           /\ Plaintext(incoming[decrypted + i - 1]) = Taken + i
<1>1. /\ received > 0 /\ incoming[1].kind = "data" /\ incoming[1].of = used
      /\ used <= received /\ decrypted > Header /\ decrypted + available + Trailer = used + 1
  BY DEF PointerInv, PointersInRecord
<1>2. /\ received \in Nat /\ used \in Nat /\ available \in Nat /\ decrypted \in Nat
      /\ Header \in Nat /\ Trailer \in Nat
  BY SizesAssumption DEF TypeOK, received
<1>3. PICK at \in Nat : at = decrypted + i - 1 /\ at > Header /\ at <= used - Trailer /\ at >= 1
  BY <1>1, <1>2
<1>4. at \in 1..received /\ at \in 1..used
  BY <1>1, <1>2, <1>3
<1>5. incoming[at] = stream[front + at] /\ incoming[at] \in Symbol
  BY <1>4, BufferFacts
<1>6. stream[front + at] = [incoming[1] EXCEPT !.at = at] /\ incoming[1].before = Before(stream, front)
  BY <1>1, <1>4, FirstRecord
<1>7. incoming[1] \in Symbol
  BY <1>1, <1>2, BufferFacts
<1>8. /\ incoming[at].at = at /\ incoming[at].kind = "data" /\ incoming[at].of = used
      /\ incoming[at].before = Before(stream, front) /\ Before(stream, front) \in Nat
  BY <1>1, <1>5, <1>6, <1>7 DEF Symbol
<1>9. Payload(incoming[at]) = used - Header - Trailer
  BY <1>8 DEF Payload
<1>10. Plaintext(incoming[at]) = Before(stream, front) + at - Header
  BY <1>2, <1>3, <1>8, <1>9 DEF Plaintext
<1>11. Taken + i = Before(stream, front) + at - Header
  BY <1>2, <1>3, <1>8 DEF Taken
<1> QED
  BY <1>3, <1>4, <1>10, <1>11

-------------------------------------------------------------------------------
(* The steps *)

\* Removing a record keeps the rest of the buffer.
LEMMA RemoveFacts ==
    ASSUME TypeOK, Window, PointerInv, TakeAll
    PROVE  /\ incoming' \in Seq(Symbol)
           /\ received' = received - used /\ used <= received /\ used \in Nat
           /\ \A i \in 1..received' : incoming'[i] = incoming[used + i]
<1>1. incoming \in Seq(Symbol) /\ used \in Nat /\ used <= received /\ received \in Nat
  BY DEF TypeOK, received, PointerInv, PointersInRecord, TakeAll, Copy
<1>2. incoming' = SubSeq(incoming, used + 1, received)
  BY DEF TakeAll
<1> QED
  BY <1>1, <1>2 DEF received

\* What recv returns is put behind what is in the buffer.
LEMMA ReceiveFacts ==
    ASSUME TypeOK, Receive
    PROVE  /\ incoming' \in Seq(Symbol)
           /\ received' = received + (arrived' - arrived) /\ received \in Nat
           /\ received' <= BufferSize /\ received' \in Nat
           /\ arrived \in Nat /\ arrived' \in Nat /\ arrived < arrived' /\ arrived' <= Len(stream)
           /\ \A i \in 1..received : incoming'[i] = incoming[i]
           /\ \A i \in (received + 1)..received' : incoming'[i] = stream[arrived + i - received]
<1>1. incoming \in Seq(Symbol) /\ stream \in Seq(Symbol) /\ arrived \in 0..Len(stream)
      /\ received <= BufferSize /\ BufferSize \in Nat
  BY SizesAssumption DEF TypeOK, Framed
<1>2. /\ arrived' \in (arrived + 1)..Smaller(Len(stream), arrived + BufferSize - received)
      /\ incoming' = incoming \o SubSeq(stream, arrived + 1, arrived')
  BY DEF Receive
<1>3. /\ arrived' \in Nat /\ arrived < arrived' /\ arrived' <= Len(stream)
      /\ arrived' <= arrived + BufferSize - received
  BY <1>1, <1>2 DEF Smaller, received
<1>4. PICK new : new = SubSeq(stream, arrived + 1, arrived')
  OBVIOUS
<1>5. /\ new \in Seq(Symbol) /\ Len(new) = arrived' - arrived
      /\ \A i \in 1..(arrived' - arrived) : new[i] = stream[arrived + i]
  <2>1. PICK m, n \in Nat : m = arrived + 1 /\ n = arrived' /\ m <= n /\ n <= Len(stream)
    BY <1>1, <1>3
  <2>2. /\ new \in Seq(Symbol) /\ Len(new) = n - m + 1
        /\ \A i \in 1..(n - m + 1) : new[i] = stream[m + i - 1]
    <3>1. new = SubSeq(stream, m, n) /\ m \in 1..(Len(stream) + 1) /\ n \in (m - 1)..Len(stream)
      BY <1>1, <1>4, <2>1
    <3>2. stream \in Seq(Symbol)
      BY <1>1
    <3>3. /\ SubSeq(stream, m, n) \in Seq(Symbol) /\ Len(SubSeq(stream, m, n)) = n - m + 1
          /\ \A i \in 1..(n - m + 1) : SubSeq(stream, m, n)[i] = stream[m + i - 1]
      BY <3>1, <3>2, SubSeqProperties
    <3> QED
      BY <3>1, <3>3
  <2>3. n - m + 1 = arrived' - arrived /\ \A i \in Int : m + i - 1 = arrived + i
    BY <1>1, <1>3, <2>1
  <2>4. ASSUME NEW i \in 1..(arrived' - arrived) PROVE new[i] = stream[arrived + i]
    <3>1. arrived \in Nat /\ arrived' \in Nat
      BY <1>1, <1>3
    <3>2. i \in Int
      BY <3>1
    <3>3. i \in 1..(n - m + 1)
      BY <2>3
    <3>4. m + i - 1 = arrived + i
      BY <2>3, <3>2
    <3> QED
      BY <2>2, <3>3, <3>4
  <2> QED
    BY <2>2, <2>3, <2>4
<1> QED
  BY <1>1, <1>2, <1>3, <1>4, <1>5, SMTT(30) DEF received

\* The type invariant is kept.
LEMMA TypeStep ==
    ASSUME TypeOK, Window, PointerInv, Next
    PROVE  TypeOK'
<1> USE DEF socketVars, tlsVars, callVars
<1>1. stream' = stream
  BY DEF Next, TlsRead, Call, Filled, TakeAll, TakeSome, Copy, Decrypt, ContextExpired,
         DecryptFails, ReturnBeforeRecv, BufferFull, Block, Receive, Disconnected, ReceiveFails,
         PeerCloses, ConnectionBreaks
<1>2. Framed(stream')
  BY <1>1 DEF TypeOK
<1>3. arrived' \in 0..Len(stream')
  <2>1. CASE Receive
    BY <1>1, <2>1, ReceiveFacts
  <2>2. CASE UNCHANGED arrived
    BY <1>1, <2>2 DEF TypeOK
  <2> QED
    BY <2>1, <2>2 DEF Next, TlsRead, Call, Filled, TakeAll, TakeSome, Copy, Decrypt,
         ContextExpired, DecryptFails, ReturnBeforeRecv, BufferFull, Block, Disconnected,
         ReceiveFails, PeerCloses, ConnectionBreaks
<1>4. socket' \in {"open", "closed", "error"}
  BY DEF TypeOK, Next, TlsRead, Call, Filled, TakeAll, TakeSome, Copy, Decrypt, ContextExpired,
         DecryptFails, ReturnBeforeRecv, BufferFull, Block, Receive, Disconnected, ReceiveFails,
         PeerCloses, ConnectionBreaks
<1>5. incoming' \in Seq(Symbol) /\ received' <= BufferSize
  <2>1. CASE Receive
    BY <2>1, ReceiveFacts
  <2>2. CASE TakeAll
    <3>1. received \in Nat /\ received <= BufferSize /\ BufferSize \in Nat
      BY SizesAssumption DEF TypeOK, received
    <3> QED
      BY <2>2, <3>1, RemoveFacts
  <2>3. CASE incoming' = <<>>
    BY <2>3, SizesAssumption DEF received
  <2>4. CASE UNCHANGED incoming
    BY <2>4 DEF TypeOK, received
  <2> QED
    BY <2>1, <2>2, <2>3, <2>4 DEF Next, TlsRead, Call, Filled, TakeSome, Copy, Decrypt,
         ContextExpired, DecryptFails, ReturnBeforeRecv, BufferFull, Block, Disconnected,
         ReceiveFails, PeerCloses, ConnectionBreaks
<1>6. used' \in Nat /\ available' \in Nat /\ decrypted' \in Nat
  <2>1. CASE Decrypt
    <3>1. 1 \in 1..received
      BY <2>1 DEF Decrypt, Complete, StartsRecord, TypeOK, received
    <3>2. incoming[1].of \in Nat /\ Payload(incoming[1]) \in Nat
      BY <3>1, BufferFacts
    <3> QED
      BY <2>1, <3>2, SizesAssumption DEF Decrypt
  <2>2. CASE TakeAll
    BY <2>2 DEF TakeAll
  <2>3. CASE TakeSome
    BY <2>3 DEF TakeSome, TypeOK
  <2>4. CASE UNCHANGED <<used, available, decrypted>>
    BY <2>4 DEF TypeOK
  <2> QED
    BY <2>1, <2>2, <2>3, <2>4 DEF Next, TlsRead, Call, Filled, ContextExpired, DecryptFails,
         ReturnBeforeRecv, BufferFull, Block, Receive, Disconnected, ReceiveFails, PeerCloses,
         ConnectionBreaks
<1>7. pc' \in {"idle", "loop", "recv"}
  BY DEF TypeOK, Next, TlsRead, Call, Filled, TakeAll, TakeSome, Copy, Decrypt, ContextExpired,
         DecryptFails, ReturnBeforeRecv, BufferFull, Block, Receive, Disconnected, ReceiveFails,
         PeerCloses, ConnectionBreaks, ReturnBytes, ReturnNone
<1>8. size' \in Nat /\ copied' \in Seq(Nat)
  <2>1. ASSUME NEW n \in 0..available, n <= size, Copy(n) PROVE size' \in Nat /\ copied' \in Seq(Nat)
    <3>1. PICK more : more = [i \in 1..n |-> Plaintext(incoming[decrypted + i - 1])]
      OBVIOUS
    <3>2. \A i \in 1..n : Plaintext(incoming[decrypted + i - 1]) \in Nat
      <4>1. SUFFICES ASSUME NEW i \in 1..n
                     PROVE  Plaintext(incoming[decrypted + i - 1]) \in Nat
        OBVIOUS
      <4>2. i \in 1..available /\ decrypted # 0
        BY <2>1 DEF TypeOK, Copy
      <4>3. PICK at \in 1..received : at = decrypted + i - 1
        BY <4>2, CopiedFacts
      <4> QED
        BY <4>3, BufferFacts
    <3>3. n \in Nat
      BY DEF TypeOK
    <3>4. more \in Seq(Nat)
      BY <3>1, <3>2, <3>3
    <3> QED
      BY <2>1, <3>1, <3>3, <3>4 DEF Copy, TypeOK
  <2>2. CASE TakeAll
    BY <2>1, <2>2 DEF TakeAll, TypeOK
  <2>3. CASE TakeSome
    BY <2>1, <2>3 DEF TakeSome, TypeOK
  <2>4. CASE Call
    BY <2>4, SizesAssumption DEF Call, TypeOK
  <2>5. CASE size' = 0 /\ copied' = <<>>
    BY <2>5
  <2>6. CASE UNCHANGED <<size, copied>>
    BY <2>6 DEF TypeOK
  <2> QED
    BY <2>2, <2>3, <2>4, <2>5, <2>6 DEF Next, TlsRead, Filled, Decrypt, ContextExpired,
         DecryptFails, ReturnBeforeRecv, BufferFull, Block, Receive, Disconnected, ReceiveFails,
         PeerCloses, ConnectionBreaks, ReturnBytes, ReturnNone
<1>9. delivered' \in Seq(Nat)
  <2>1. CASE delivered' = delivered \o copied
    BY <2>1 DEF TypeOK
  <2>2. CASE UNCHANGED delivered
    BY <2>2 DEF TypeOK
  <2> QED
    BY <2>1, <2>2 DEF Next, TlsRead, Call, Filled, TakeAll, TakeSome, Copy, Decrypt,
         ContextExpired, DecryptFails, ReturnBeforeRecv, BufferFull, Block, Receive, Disconnected,
         ReceiveFails, PeerCloses, ConnectionBreaks, ReturnBytes, ReturnNone
<1>10. status' \in {"open", "ended", "failed"}
  BY DEF TypeOK, Next, TlsRead, Call, Filled, TakeAll, TakeSome, Copy, Decrypt, ContextExpired,
         DecryptFails, ReturnBeforeRecv, BufferFull, Block, Receive, Disconnected, ReceiveFails,
         PeerCloses, ConnectionBreaks, ReturnBytes, ReturnNone
<1> QED
  BY <1>2, <1>3, <1>4, <1>5, <1>6, <1>7, <1>8, <1>9, <1>10 DEF TypeOK, received

\* The buffer stays the part of the stream behind the records that have left it.
LEMMA WindowStep ==
    ASSUME TypeOK, Window, PointerInv, Next
    PROVE  Window'
<1> USE DEF socketVars, tlsVars, callVars
<1>1. CASE UNCHANGED <<stream, arrived, incoming>>
  BY <1>1 DEF Window, front, received
<1>2. CASE TakeAll
  <2>1. /\ stream' = stream /\ arrived' = arrived /\ arrived \in Nat /\ received \in Nat
        /\ decrypted # 0
    BY <1>2 DEF TakeAll, Copy, TypeOK, received
  <2>2. /\ received' = received - used /\ used <= received /\ used \in Nat
        /\ \A i \in 1..received' : incoming'[i] = incoming[used + i]
    BY <1>2, RemoveFacts
  <2>3. front' = front + used /\ received' <= arrived'
    BY <2>1, <2>2 DEF front, received, Window
  <2>4. ASSUME NEW i \in 1..received' PROVE incoming'[i] = stream[front' + i]
    <3>1. PICK j \in 1..received : j = used + i
      BY <2>1, <2>2
    <3>2. front + j = front' + i
      BY <2>1, <2>2, <2>3, <3>1 DEF front
    <3> QED
      BY <2>2, <3>1, <3>2 DEF Window
  <2>5. front' < Len(stream) => stream[front' + 1].at = 1
    <3>1. received > 0 /\ incoming[1].of = used
      BY <2>1 DEF PointerInv, PointersInRecord
    <3> QED
      BY <2>3, <3>1, FirstRecord
  <2> QED
    BY <2>1, <2>3, <2>4, <2>5 DEF Window
<1>3. CASE ContextExpired
  <2>1. /\ stream' = stream /\ arrived' = arrived /\ incoming' = <<>>
        /\ received > 0 /\ incoming[1].kind = "close" /\ incoming[1].of <= received
    BY <1>3 DEF ContextExpired, Complete, StartsRecord
  <2>2. front + incoming[1].of = Len(stream) /\ incoming[1].of \in Nat
    BY <2>1, FirstRecord
  <2>3. arrived \in 0..Len(stream) /\ received \in Nat /\ Len(stream) \in Nat
    BY DEF TypeOK, received, Framed
  <2>4. arrived = Len(stream)
    BY <2>1, <2>2, <2>3 DEF front
  <2> QED
    BY <2>1, <2>3, <2>4 DEF Window, front, received
<1>4. CASE Receive
  <2>1. stream' = stream
    BY <1>4 DEF Receive
  <2>2. /\ received' = received + (arrived' - arrived) /\ received \in Nat /\ received' \in Nat
        /\ arrived \in Nat /\ arrived' \in Nat
        /\ \A i \in 1..received : incoming'[i] = incoming[i]
        /\ \A i \in (received + 1)..received' : incoming'[i] = stream[arrived + i - received]
    BY <1>4, ReceiveFacts
  <2>3. front' = front /\ received' <= arrived'
    BY <2>2 DEF front, received, Window
  <2>4. ASSUME NEW i \in 1..received' PROVE incoming'[i] = stream[front + i]
    <3>1. CASE i \in 1..received
      BY <2>2, <3>1 DEF Window
    <3>2. CASE i \in (received + 1)..received'
      <4>1. arrived + i - received = front + i
        BY <2>2, <3>2 DEF front
      <4> QED
        BY <2>2, <3>2, <4>1
    <3>3. received \in Nat /\ received' \in Nat
      BY <2>2
    <3>4. i \in 1..received \/ i \in (received + 1)..received'
      BY <3>3
    <3> QED
      BY <3>1, <3>2, <3>4
  <2> QED
    BY <2>1, <2>3, <2>4 DEF Window
<1> QED
  BY <1>1, <1>2, <1>3, <1>4 DEF Next, TlsRead, Call, Filled, TakeSome, Copy, Decrypt,
       DecryptFails, ReturnBeforeRecv, BufferFull, Block, Disconnected, ReceiveFails,
       PeerCloses, ConnectionBreaks

\* Decrypted bytes stay inside the record at the front.
LEMMA PointerStep ==
    ASSUME TypeOK, Window, PointerInv, ToldInv, Next
    PROVE  PointerInv'
<1> USE DEF socketVars, tlsVars, callVars
<1>1. CASE UNCHANGED tlsVars
  BY <1>1 DEF PointerInv, PointersInRecord, received
<1>2. CASE TakeAll
  BY <1>2 DEF TakeAll, PointerInv, PointersInRecord
<1>3. CASE TakeSome
  <2>1. /\ decrypted # 0 /\ available > size /\ available' = available - size
        /\ decrypted' = decrypted + size /\ incoming' = incoming /\ used' = used
    BY <1>3 DEF TakeSome, Copy
  <2>2. /\ decrypted \in Nat /\ available \in Nat /\ size \in Nat /\ used \in Nat
        /\ Header \in Nat /\ Trailer \in Nat
    BY SizesAssumption DEF TypeOK
  <2>3. /\ decrypted > Header /\ decrypted + available + Trailer = used + 1
        /\ received > 0 /\ incoming[1].kind = "data"
        /\ used <= received /\ incoming[1].at = 1 /\ incoming[1].of = used
    BY <2>1 DEF PointerInv, PointersInRecord
  <2>4. decrypted' > Header /\ decrypted' # 0 /\ decrypted' + available' + Trailer = used + 1
    BY <2>1, <2>2, <2>3
  <2> QED
    BY <2>1, <2>3, <2>4 DEF PointerInv, PointersInRecord, received
<1>4. CASE Decrypt
  <2>1. /\ received > 0 /\ incoming[1].kind = "data" /\ incoming[1].at = 1
        /\ incoming[1].of <= received
        /\ incoming' = incoming /\ decrypted' = Header + 1
        /\ available' = Payload(incoming[1]) /\ used' = incoming[1].of
    BY <1>4 DEF Decrypt, Complete, StartsRecord
  <2>2. /\ 1 \in 1..received
    BY <2>1 DEF TypeOK, received
  <2>3. incoming[1].of \in Nat
    BY <2>2, BufferFacts
  <2>4. Payload(incoming[1]) = incoming[1].of - Header - Trailer
    BY <2>1 DEF Payload
  <2> QED
    BY <2>1, <2>3, <2>4, SizesAssumption DEF PointerInv, PointersInRecord, received
<1>5. CASE ContextExpired
  BY <1>5 DEF ContextExpired, AtCiphertext, PointerInv, PointersInRecord
<1>6. CASE Receive
  BY <1>6 DEF Receive, ToldInv, Waiting, PointerInv, PointersInRecord
<1> QED
  BY <1>1, <1>2, <1>3, <1>4, <1>5, <1>6 DEF Next, TlsRead, Call, Filled, DecryptFails,
       ReturnBeforeRecv, BufferFull, Block, Disconnected, ReceiveFails, PeerCloses,
       ConnectionBreaks

\* What DecryptMessage may say of the buffer excludes one another.
LEMMA Exclusive ==
    ASSUME TypeOK, Window
    PROVE  /\ Complete => received # 0 /\ ~Incomplete /\ ~Unreadable
           /\ Incomplete => ~Unreadable /\ received # 0
           /\ Unreadable => received # 0
<1>1. received \in Nat
  BY DEF TypeOK, received
<1>2. received > 0 => incoming[1].of \in Nat
  BY <1>1, BufferFacts
<1> QED
  BY <1>1, <1>2 DEF Complete, Incomplete, Unreadable, StartsRecord

\* A record that is not all there although the buffer is full, or that cannot
\* be read, is none a server should send.
LEMMA Illegible ==
    ASSUME TypeOK, Window,
           \/ Unreadable
           \/ Complete /\ incoming[1].kind = "handshake"
           \/ Incomplete /\ received = BufferSize
    PROVE  \E p \in 1..Len(stream) : stream[p].kind \in {"handshake", "junk"}
<1>1. received > 0
  BY DEF Unreadable, Complete, Incomplete, StartsRecord
<1>2. PICK p \in 1..Len(stream) : p = front + 1 /\ incoming[1] = stream[p] /\ incoming[1] \in Symbol
  <2>1. 1 \in 1..received
    BY <1>1 DEF TypeOK, received
  <2> QED
    BY <2>1, BufferFacts
<1>3. /\ incoming[1].at = 1 /\ incoming[1].of \in Nat
      /\ incoming[1].kind # "junk" => incoming[1].of <= BufferSize
  BY <1>1, FirstRecord
<1>4. incoming[1].kind \in {"handshake", "junk"}
  BY <1>1, <1>3, SizesAssumption DEF Unreadable, Complete, Incomplete, StartsRecord
<1> QED
  BY <1>2, <1>4

\* What calls have told was true, and is.
LEMMA ToldStep ==
    ASSUME TypeOK, Window, PointerInv, ToldInv, Next
    PROVE  ToldInv'
<1> USE DEF socketVars, tlsVars, callVars
<1>0. received \in Nat /\ BufferSize \in Nat /\ received <= BufferSize
  BY SizesAssumption DEF TypeOK, received
<1>1. /\ Complete => received # 0 /\ ~Incomplete /\ ~Unreadable
      /\ Incomplete => ~Unreadable /\ received # 0
      /\ Unreadable => received # 0
  BY Exclusive
<1>2. CASE Call \/ Filled \/ ReturnBeforeRecv
  BY <1>2 DEF Call, Filled, ReturnBeforeRecv, ReturnBytes, ToldInv, Waiting, Spoilt, EndIsReal,
              FailureIsReal, Incomplete, Unreadable, Complete, StartsRecord, received
<1>3. CASE TakeAll \/ TakeSome
  BY <1>3 DEF TakeAll, TakeSome, Copy, ToldInv, Waiting, Spoilt
<1>4. CASE Decrypt
  <2>1. Complete /\ incoming[1].kind = "data" /\ pc' = "loop" /\ status' = status
    BY <1>4 DEF Decrypt, AtCiphertext
  <2>2. status \in {"open", "ended", "failed"}
    BY DEF TypeOK
  <2>3. ~Waiting /\ ~Spoilt
    BY <1>1, <2>1 DEF Waiting, Spoilt
  <2> QED
    BY <2>1, <2>2, <2>3 DEF ToldInv
<1>5. CASE ContextExpired
  <2>1. /\ Complete /\ incoming[1].kind = "close" /\ decrypted = 0 /\ pc' = "idle"
        /\ incoming' = <<>> /\ decrypted' = 0 /\ copied' = <<>>
        /\ stream' = stream /\ arrived' = arrived
        /\ status' = "ended" \/ (copied # <<>> /\ status' = status)
    BY <1>5 DEF ContextExpired, AtCiphertext, ReturnBytes, ReturnNone
  <2>2. Waiting'
    BY <2>1 DEF Waiting, received
  <2>3. arrived = Len(stream) /\ stream[arrived].kind = "close"
    <3>1. received > 0 /\ incoming[1].of <= received
      BY <2>1 DEF Complete, StartsRecord
    <3>2. PICK of \in Nat : /\ of = incoming[1].of /\ of >= 1 /\ front + of = Len(stream)
                            /\ stream[front + of] = [incoming[1] EXCEPT !.at = of]
      BY <2>1, <3>1, FirstRecord
    <3>3. arrived \in 0..Len(stream) /\ Len(stream) \in Nat
      BY DEF TypeOK, Framed
    <3>4. arrived = front + of /\ arrived = Len(stream)
      BY <1>0, <3>1, <3>2, <3>3 DEF front
    <3>5. incoming[1] \in Symbol
      BY <1>0, <3>1, BufferFacts
    <3> QED
      BY <2>1, <3>2, <3>4, <3>5 DEF Symbol
  <2>4. EndIsReal'
    BY <2>1, <2>3 DEF EndIsReal
  <2>5. status' # "failed"
    BY <2>1, <1>1 DEF ToldInv, Spoilt, Waiting, Complete
  <2> QED
    BY <2>1, <2>2, <2>4, <2>5 DEF ToldInv
<1>6. CASE DecryptFails
  <2>1. /\ Unreadable \/ (Complete /\ incoming[1].kind = "handshake")
        /\ decrypted = 0 /\ pc' = "idle" /\ copied' = <<>> /\ status' = "failed"
        /\ UNCHANGED <<socketVars, tlsVars>>
    BY <1>6 DEF DecryptFails, AtCiphertext, ReturnNone
  <2>2. FailureIsReal'
    BY <2>1, Illegible DEF FailureIsReal
  <2>3. Spoilt'
    BY <2>1 DEF Spoilt, Unreadable, Complete, StartsRecord, received
  <2> QED
    BY <2>1, <2>2, <2>3 DEF ToldInv
<1>7. CASE BufferFull
  <2>1. /\ Incomplete /\ received = BufferSize
        /\ decrypted = 0 /\ pc' = "idle" /\ copied' = <<>> /\ status' = "failed"
        /\ UNCHANGED <<socketVars, tlsVars>>
    BY <1>7, SizesAssumption DEF BufferFull, AtRecv, AtCiphertext, ReturnNone
  <2>2. FailureIsReal'
    BY <2>1, Illegible DEF FailureIsReal
  <2>3. Waiting' /\ received' = BufferSize
    BY <2>1 DEF Waiting, Incomplete, Unreadable, StartsRecord, received
  <2> QED
    BY <2>1, <2>2, <2>3 DEF ToldInv
<1>8. CASE Block
  BY <1>0, <1>8 DEF Block, AtRecv, AtCiphertext, ToldInv, Waiting, Spoilt, EndIsReal,
              FailureIsReal, Incomplete, Unreadable, Complete, StartsRecord, received
<1>9. CASE Receive
  <2>1. /\ pc' = "loop" /\ status' = status /\ socket = "open" /\ Waiting
        /\ received < BufferSize
    BY <1>9 DEF Receive, ToldInv
  <2>2. status # "failed"
    <3>1. received # BufferSize
      BY <1>0, <2>1
    <3>2. ~Spoilt
      BY <1>1, <2>1 DEF Spoilt, Waiting
    <3> QED
      BY <2>1, <3>1, <3>2 DEF ToldInv
  <2>3. arrived # Len(stream)
    BY <1>9, ReceiveFacts
  <2>4. status # "ended"
    BY <2>1, <2>3 DEF ToldInv, EndIsReal
  <2> QED
    BY <2>1, <2>2, <2>4 DEF ToldInv
<1>10. CASE Disconnected
  <2>1. /\ pc' = "idle" /\ status' = "ended" /\ socket' = "closed" /\ Waiting /\ copied' = <<>>
        /\ UNCHANGED <<socketVars, tlsVars>>
    BY <1>10 DEF Disconnected, ReturnNone, ToldInv
  <2> QED
    BY <2>1 DEF ToldInv, EndIsReal, Waiting, Incomplete, Unreadable, StartsRecord, received
<1>11. CASE ReceiveFails
  <2>1. /\ pc' = "idle" /\ status' = "failed" /\ socket' = "error" /\ Waiting /\ copied' = <<>>
        /\ UNCHANGED <<socketVars, tlsVars>>
    BY <1>11 DEF ReceiveFails, ReturnNone, ToldInv
  <2> QED
    BY <2>1 DEF ToldInv, FailureIsReal, Waiting, Incomplete, Unreadable, StartsRecord, received
<1>12. CASE PeerCloses \/ ConnectionBreaks
  BY <1>12 DEF PeerCloses, ConnectionBreaks, ToldInv, Waiting, Spoilt, EndIsReal,
              FailureIsReal, Incomplete, Unreadable, Complete, StartsRecord, received
<1> QED
  BY <1>2, <1>3, <1>4, <1>5, <1>6, <1>7, <1>8, <1>9, <1>10, <1>11, <1>12 DEF Next, TlsRead

\* The numbers up to n as a sequence.
LEMMA NumbersFacts ==
    ASSUME NEW m \in Nat, NEW n \in Nat
    PROVE  /\ Numbers(m) \in Seq(Nat)
           /\ Len(Numbers(m)) = m
           /\ Numbers(m) \o [i \in 1..n |-> m + i] = Numbers(m + n)
           /\ n <= m => SubSeq(Numbers(m), 1, n) = Numbers(n)
<1>1. Numbers(m) \in Seq(Nat) /\ Len(Numbers(m)) = m
  BY DEF Numbers
<1>2. Numbers(m) \o [i \in 1..n |-> m + i] = Numbers(m + n)
  <2>1. PICK more : more = [i \in 1..n |-> m + i]
    OBVIOUS
  <2>2. more \in Seq(Nat) /\ Len(more) = n
    <3>1. \A i \in 1..n : m + i \in Nat
      OBVIOUS
    <3> QED
      BY <2>1, <3>1
  <2>3. PICK first \in Seq(Nat) : first = Numbers(m) /\ Len(first) = m
    BY <1>1
  <2>4. PICK k \in Nat : k = m + n
    OBVIOUS
  <2>5. PICK all \in Seq(Nat) : all = Numbers(k) /\ Len(all) = k
    <3>1. Numbers(k) \in Seq(Nat) /\ Len(Numbers(k)) = k
      BY DEF Numbers
    <3> QED
      BY <3>1
  <2>6. first \o more \in Seq(Nat) /\ Len(first \o more) = k
    BY <2>2, <2>3, <2>4, ConcatProperties
  <2>7. ASSUME NEW i \in 1..k PROVE (first \o more)[i] = all[i]
    <3>1. (first \o more)[i] = IF i <= m THEN first[i] ELSE more[i - m]
      <4>1. Len(first) + Len(more) = k
        BY <2>2, <2>3, <2>4
      <4>2. i \in 1..Len(first) + Len(more)
        BY <4>1
      <4> QED
        BY <2>2, <2>3, <4>2, ConcatProperties, ZenonT(40)
    <3>2. all[i] = i /\ (i <= m => first[i] = i)
      BY <2>3, <2>5 DEF Numbers
    <3>3. i > m => i - m \in 1..n /\ m + (i - m) = i
      BY <2>4
    <3>4. i > m => more[i - m] = i
      BY <2>1, <3>3
    <3> QED
      BY <3>1, <3>2, <3>4
  <2>8. first \o more = all
    BY <2>5, <2>6, <2>7, SeqEqual
  <2> QED
    BY <2>1, <2>3, <2>4, <2>5, <2>8
<1>3. ASSUME n <= m PROVE SubSeq(Numbers(m), 1, n) = Numbers(n)
  <2>1. /\ SubSeq(Numbers(m), 1, n) \in Seq(Nat) /\ Len(SubSeq(Numbers(m), 1, n)) = n
        /\ \A i \in 1..n : SubSeq(Numbers(m), 1, n)[i] = i
    BY <1>1, <1>3 DEF Numbers
  <2>2. Numbers(n) \in Seq(Nat) /\ Len(Numbers(n)) = n /\ \A i \in 1..n : Numbers(n)[i] = i
    BY DEF Numbers
  <2> QED
    BY <2>1, <2>2, SeqEqual
<1> QED
  BY <1>1, <1>2, <1>3

\* No more is ever taken than there is.
LEMMA TakenFacts ==
    ASSUME TypeOK, Window, PointerInv
    PROVE  /\ Before(stream, front) \in Nat
           /\ Taken \in Nat
           /\ PlaintextLength(stream) \in Nat
           /\ Taken <= PlaintextLength(stream)
<1>1. Framed(stream) /\ front \in 0..Len(stream)
  BY DEF TypeOK, Window, front, received, Framed
<1>2. /\ Before(stream, front) \in Nat
      /\ Before(stream, front) <= PlaintextLength(stream)
      /\ PlaintextLength(stream) \in Nat
      /\ front < Len(stream) =>
            Before(stream, front) + Payload(stream[front + 1]) <= PlaintextLength(stream)
  <2>1. PICK q \in 0..Len(stream) : q = front
    BY <1>1
  <2> QED
    BY <1>1, <2>1, PlaintextBound DEF Window
<1>3. CASE decrypted = 0
  BY <1>2, <1>3 DEF Taken
<1>4. CASE decrypted # 0
  <2>1. /\ received > 0 /\ incoming[1].kind = "data" /\ incoming[1].of = used
        /\ decrypted > Header /\ decrypted + available + Trailer = used + 1
    BY <1>4 DEF PointerInv, PointersInRecord
  <2>2. front < Len(stream) /\ incoming[1] = stream[front + 1]
    BY <2>1, FirstRecord
  <2>3. Payload(stream[front + 1]) = used - Header - Trailer
    BY <2>1, <2>2 DEF Payload
  <2>4. used \in Nat /\ decrypted \in Nat /\ available \in Nat /\ Header \in Nat /\ Trailer \in Nat
    BY SizesAssumption DEF TypeOK
  <2> QED
    BY <1>2, <1>4, <2>1, <2>2, <2>3, <2>4 DEF Taken
<1> QED
  BY <1>3, <1>4

\* Until an end is told nothing is left out, repeated or out of order.
LEMMA DeliveredStep ==
    ASSUME TypeOK, Window, PointerInv, ToldInv, DeliveredInv, Next
    PROVE  DeliveredInv'
<1> USE DEF socketVars, tlsVars, callVars
<1>1. SUFFICES ASSUME status' = "open" PROVE delivered' \o copied' = Numbers(Taken')
  BY DEF DeliveredInv
<1>2. status = "open"
  BY <1>1 DEF Next, TlsRead, Call, Filled, TakeAll, TakeSome, Copy, Decrypt, ContextExpired,
       DecryptFails, ReturnBeforeRecv, BufferFull, Block, Receive, Disconnected, ReceiveFails,
       PeerCloses, ConnectionBreaks, ReturnBytes, ReturnNone
<1>3. /\ delivered \o copied = Numbers(Taken)
      /\ delivered \in Seq(Nat) /\ copied \in Seq(Nat) /\ stream' = stream
  BY <1>2, TypeStep DEF DeliveredInv, TypeOK, Next, TlsRead, Call, Filled, TakeAll, TakeSome, Copy,
       Decrypt, ContextExpired, DecryptFails, ReturnBeforeRecv, BufferFull, Block, Receive,
       Disconnected, ReceiveFails, PeerCloses, ConnectionBreaks
<1>4. Before(stream, front) \in Nat /\ Taken \in Nat
  BY TakenFacts
<1>5. ASSUME delivered' \o copied' = delivered \o copied, Taken' = Taken
      PROVE  delivered' \o copied' = Numbers(Taken')
  BY <1>3, <1>5 DEF Numbers
<1>6. CASE Call \/ PeerCloses \/ ConnectionBreaks \/ Block
  BY <1>5, <1>6 DEF Call, PeerCloses, ConnectionBreaks, Block, Taken, front, received, Before
<1>7. CASE Filled \/ ReturnBeforeRecv
  <2>1. /\ delivered' = delivered \o copied /\ copied' = <<>>
        /\ UNCHANGED <<socketVars, tlsVars>>
    BY <1>7 DEF Filled, ReturnBeforeRecv, ReturnBytes
  <2>2. (delivered \o copied) \o <<>> = delivered \o copied
    BY <1>3
  <2>3. Taken' = Taken
    BY <2>1 DEF Taken, front, received
  <2> QED
    BY <1>5, <2>1, <2>2, <2>3
<1>8. ASSUME NEW n \in Nat, n <= available, Copy(n), Taken' = Taken + n
      PROVE  delivered' \o copied' = Numbers(Taken')
  <2>1. PICK more : more = [i \in 1..n |-> Plaintext(incoming[decrypted + i - 1])]
    OBVIOUS
  <2>2. \A i \in 1..n : Plaintext(incoming[decrypted + i - 1]) = Taken + i
    <3>1. SUFFICES ASSUME NEW i \in 1..n
                   PROVE  Plaintext(incoming[decrypted + i - 1]) = Taken + i
      OBVIOUS
    <3>2. i \in 1..available /\ decrypted # 0
      BY <1>8 DEF TypeOK, Copy
    <3> QED
      BY <3>2, CopiedFacts
  <2>3. more = [i \in 1..n |-> Taken + i]
    BY <2>1, <2>2
  <2>4. more \in Seq(Nat)
    BY <1>4, <2>3
  <2>5. delivered' \o copied' = delivered \o (copied \o more)
    BY <1>8, <2>1 DEF Copy
  <2>6. delivered \o (copied \o more) = (delivered \o copied) \o more
    <3>1. PICK d \in Seq(Nat), c \in Seq(Nat) : d = delivered /\ c = copied
      BY <1>3
    <3>2. (d \o c) \o more = d \o (c \o more)
      BY <2>4, ConcatAssociative, SMTT(30)
    <3> QED
      BY <3>1, <3>2
  <2>7. (delivered \o copied) \o more = Numbers(Taken + n)
    <3>1. PICK m \in Nat : m = Taken
      BY <1>4
    <3> QED
      BY <1>3, <2>3, <3>1, NumbersFacts
  <2> QED
    BY <1>8, <2>5, <2>6, <2>7
<1>9. CASE TakeAll
  <2>1. /\ decrypted # 0 /\ available \in Nat /\ decrypted \in Nat /\ used \in Nat
        /\ Copy(available) /\ decrypted' = 0 /\ arrived' = arrived /\ arrived \in Nat
        /\ received \in Nat
    BY <1>9 DEF TakeAll, Copy, TypeOK, received
  <2>2. /\ received > 0 /\ incoming[1].kind = "data" /\ incoming[1].of = used
        /\ decrypted + available + Trailer = used + 1
    BY <2>1 DEF PointerInv, PointersInRecord
  <2>3. front' = front + used
    BY <1>9, <2>1, RemoveFacts DEF front
  <2>4. Before(stream, front + used) = Before(stream, front) + used - Header - Trailer
    <3>1. Before(stream, front + used) = Before(stream, front) + Payload(incoming[1])
      BY <2>2, FirstRecord
    <3>2. Payload(incoming[1]) = used - Header - Trailer
      BY <2>2 DEF Payload
    <3> QED
      BY <1>4, <2>1, <3>1, <3>2, SizesAssumption
  <2>5. Taken' = Before(stream, front + used)
    <3>1. Before(stream, front + used) \in Int
      BY <1>4, <2>1, <2>4, SizesAssumption
    <3>2. Before(stream, front)' = Before(stream, front + used)
      BY <1>3, <2>3 DEF Before
    <3> QED
      BY <2>1, <3>1, <3>2 DEF Taken
  <2>6. Taken = Before(stream, front) + (decrypted - Header - 1)
    BY <2>1 DEF Taken
  <2>7. Taken' = Taken + available
    BY <1>4, <2>1, <2>2, <2>4, <2>5, <2>6, SizesAssumption
  <2> QED
    BY <1>8, <2>1, <2>7
<1>10. CASE TakeSome
  <2>1. /\ Copy(size) /\ size \in Nat /\ available \in Nat /\ size <= available /\ decrypted # 0
        /\ decrypted \in Nat /\ decrypted' = decrypted + size /\ incoming' = incoming
        /\ arrived' = arrived
    BY <1>10 DEF TakeSome, Copy, TypeOK
  <2>2. Taken' = Taken + size
    <3>1. front' = front /\ Before(stream, front)' = Before(stream, front)
      BY <1>3, <2>1 DEF front, received, Before
    <3>2. decrypted' # 0
      BY <2>1
    <3>3. Taken = Before(stream, front) + (decrypted - Header - 1)
      BY <2>1 DEF Taken
    <3>4. Taken' = Before(stream, front) + (decrypted + size - Header - 1)
      BY <1>3, <1>4, <2>1, <3>1, <3>2, SizesAssumption DEF Taken
    <3> QED
      BY <1>4, <2>1, <3>3, <3>4, SizesAssumption
  <2> QED
    BY <1>8, <2>1, <2>2
<1>11. CASE Decrypt
  <2>1. /\ decrypted = 0 /\ decrypted' = Header + 1
        /\ UNCHANGED <<stream, arrived, incoming, delivered, copied>>
    BY <1>11 DEF Decrypt, AtCiphertext
  <2>2. Taken' = Taken
    <3>1. Taken = Before(stream, front)
      BY <1>4, <2>1 DEF Taken
    <3>2. Taken' = Before(stream, front) + (Header + 1 - Header - 1)
      BY <2>1, SizesAssumption DEF Taken, front, received, Before
    <3> QED
      BY <1>4, <3>1, <3>2, SizesAssumption
  <2> QED
    BY <1>5, <2>1, <2>2
<1>12. CASE ContextExpired
  <2>1. /\ delivered' = delivered \o copied /\ copied' = <<>> /\ incoming' = <<>>
        /\ decrypted = 0 /\ decrypted' = 0 /\ arrived' = arrived
        /\ received > 0 /\ incoming[1].kind = "close" /\ incoming[1].of <= received
    BY <1>1, <1>12 DEF ContextExpired, AtCiphertext, Complete, StartsRecord, ReturnBytes, ReturnNone
  <2>2. PICK of \in Nat : /\ of = incoming[1].of /\ front + of = Len(stream)
                          /\ Before(stream, front + of) = Before(stream, front) + Payload(incoming[1])
    BY <2>1, FirstRecord
  <2>3. front' = front + of
    <3>1. front' = arrived
      BY <2>1 DEF front, received, TypeOK
    <3>2. arrived \in 0..Len(stream) /\ received \in Nat /\ Len(stream) \in Nat
      BY DEF TypeOK, received, Framed
    <3> QED
      BY <2>1, <2>2, <3>1, <3>2 DEF front
  <2>4. Payload(incoming[1]) = 0
    BY <2>1 DEF Payload
  <2>5. Taken = Before(stream, front) /\ Taken' = Before(stream, front + of)
    BY <1>3, <1>4, <2>1, <2>2, <2>3, <2>4 DEF Taken, Before
  <2>6. Taken' = Taken
    BY <1>4, <2>2, <2>4, <2>5
  <2>7. (delivered \o copied) \o <<>> = delivered \o copied
    BY <1>3
  <2> QED
    BY <1>5, <2>1, <2>6, <2>7
<1>13. CASE Receive
  <2>1. /\ stream' = stream /\ decrypted' = decrypted
        /\ UNCHANGED <<delivered, copied>>
    BY <1>13 DEF Receive
  <2>2. front' = front
    BY <1>13, ReceiveFacts DEF front
  <2>3. Taken' = Taken
    BY <2>1, <2>2 DEF Taken, Before
  <2> QED
    BY <1>5, <2>1, <2>3
<1>14. CASE DecryptFails \/ BufferFull \/ Disconnected \/ ReceiveFails
  BY <1>1, <1>14 DEF DecryptFails, BufferFull, Disconnected, ReceiveFails, ReturnNone
<1> QED
  BY <1>6, <1>7, <1>9, <1>10, <1>11, <1>12, <1>13, <1>14 DEF Next, TlsRead

-------------------------------------------------------------------------------
(* The theorems *)

IInv == TypeOK /\ Window /\ PointerInv /\ ToldInv /\ DeliveredInv

\* What tls_connect leaves in the buffer are the first bytes of the stream.
LEMMA InitInv == Init => IInv
<1> SUFFICES ASSUME Init PROVE IInv
  OBVIOUS
<1>1. Framed(stream) /\ stream \in Seq(Symbol) /\ Len(stream) \in Nat
  BY StreamsAssumption DEF Init, Framed
<1>2. PICK n \in 0..Len(stream) : n = arrived /\ n <= BufferSize
  BY <1>1, SizesAssumption DEF Init, Smaller
<1>3. /\ incoming \in Seq(Symbol) /\ received = n
      /\ \A i \in 1..n : incoming[i] = stream[i]
  BY <1>1, <1>2 DEF Init, received
<1>4. TypeOK
  BY <1>1, <1>2, <1>3 DEF Init, TypeOK
<1>5. front = 0
  BY <1>2, <1>3 DEF front
<1>6. Window
  <2>1. ASSUME 0 < Len(stream) PROVE stream[1].at = 1
    <3>1. 1 \in 1..Len(stream)
      BY <1>1, <2>1
    <3>2. stream[1].at \in 1..stream[1].of /\ stream[1].of \in Nat
      BY <1>1, <3>1, SymbolFacts
    <3>3. 1 - stream[1].at >= 0
      BY <1>1, <3>1 DEF Framed
    <3> QED
      BY <3>2, <3>3
  <2>2. \A i \in 1..n : incoming[i] = stream[0 + i]
    BY <1>3
  <2> QED
    BY <1>2, <1>3, <1>5, <2>1, <2>2 DEF Window
<1>7. PointerInv
  BY DEF Init, PointerInv, PointersInRecord
<1>8. ToldInv
  BY DEF Init, ToldInv
<1>9. DeliveredInv
  <2>1. Taken = 0
    BY <1>5 DEF Init, Taken, Before
  <2>2. Numbers(0) = <<>>
    BY DEF Numbers
  <2>3. <<>> \o <<>> = <<>>
    OBVIOUS
  <2> QED
    BY <2>1, <2>2, <2>3 DEF Init, DeliveredInv
<1> QED
  BY <1>4, <1>6, <1>7, <1>8, <1>9 DEF IInv

\* A state that does not change keeps the invariant.
LEMMA StutterInv == IInv /\ UNCHANGED vars => IInv'
<1> SUFFICES ASSUME IInv, UNCHANGED vars PROVE IInv'
  OBVIOUS
<1> USE DEF vars, socketVars, tlsVars, callVars
<1>1. TypeOK'
  BY DEF IInv, TypeOK, received
<1>2. Window' /\ PointerInv'
  BY DEF IInv, Window, PointerInv, PointersInRecord, front, received
<1>3. ToldInv'
  BY DEF IInv, ToldInv, Waiting, Spoilt, EndIsReal, FailureIsReal, Incomplete, Unreadable, Complete,
         StartsRecord, received
<1>4. DeliveredInv'
  BY DEF IInv, DeliveredInv, Taken, Before, front, received
<1> QED
  BY <1>1, <1>2, <1>3, <1>4 DEF IInv

\* The invariant holds in every state.
LEMMA Invariance == Spec => []IInv
<1>1. IInv /\ [Next]_vars => IInv'
  BY StutterInv, TypeStep, WindowStep, PointerStep, ToldStep, DeliveredStep DEF IInv
<1> QED
  BY <1>1, InitInv, PTL DEF Spec

\* The pointers and counts of the connection and of the call are in their
\* ranges: in particular the buffer is never filled beyond its size.
THEOREM TypeCorrect == Spec => []TypeOK
<1>1. IInv => TypeOK
  BY DEF IInv
<1> QED
  BY <1>1, Invariance, PTL

\* Decrypted bytes that are left lie inside the record at the front of the
\* buffer, through any sequence of short reads.
THEOREM PointersStayInRecord == Spec => []PointersInRecord
<1>1. IInv => PointersInRecord
  BY DEF IInv, PointerInv
<1> QED
  BY <1>1, Invariance, PTL

\* recv is only called when nothing is held back, and with room for an answer:
\* calls have returned every byte of the records that have arrived as a whole,
\* for any cut of the stream and any sizes of the reads, and only a part of one
\* record is in the buffer.
THEOREM RecvOnlyForMore == Spec => []BlocksOnlyForMore
<1>1. IInv /\ pc = "recv" => copied = <<>> /\ decrypted = 0 /\ received < BufferSize
  BY DEF IInv, ToldInv, Waiting
<1>2. ASSUME IInv, pc = "recv", status = "open",
             NEW p \in 1..arrived, stream[p].at = stream[p].of
      PROVE  stream[p].before + Payload(stream[p]) <= Len(delivered)
  <2> USE <1>2
  <2>1. Framed(stream) /\ Waiting /\ p \in 1..Len(stream)
    BY DEF IInv, TypeOK, ToldInv, Framed
  <2>2. /\ front \in Nat /\ received \in Nat /\ arrived \in Nat /\ arrived = front + received
        /\ arrived <= Len(stream) /\ Len(stream) \in Nat
    <3>1. Len(stream) \in Nat
      BY <2>1 DEF Framed
    <3>2. arrived \in Nat /\ arrived <= Len(stream) /\ received \in Nat /\ received <= arrived
      BY <3>1 DEF IInv, TypeOK, Window, received
    <3> QED
      BY <3>1, <3>2 DEF front
  <2>3. Len(delivered) = Before(stream, front)
    <3>1. delivered \in Seq(Nat) /\ delivered \o <<>> = delivered
      BY DEF IInv, TypeOK
    <3>2. PICK n \in Nat : n = Before(stream, front)
      BY TakenFacts DEF IInv
    <3>3. delivered = Numbers(n)
      BY <2>1, <3>1, <3>2 DEF IInv, DeliveredInv, Waiting, Taken
    <3> QED
      BY <3>2, <3>3, NumbersFacts
  <2>4. p <= front
    <3>1. SUFFICES ASSUME p > front PROVE FALSE
      BY <2>2
    <3>2. PICK i \in 1..received : p = front + i
      <4>1. p \in Nat /\ p <= arrived
        BY <2>2
      <4>2. p - front \in 1..received /\ p = front + (p - front)
        BY <2>2, <3>1, <4>1
      <4> QED
        BY <4>2
    <3>3. received > 0 /\ Incomplete
      BY <2>1, <2>2, <3>2 DEF Waiting
    <3>4. incoming[1].of \in Nat /\ incoming[1].of > received
      BY <3>3, FirstRecord DEF IInv, Incomplete
    <3>5. stream[p] = [incoming[1] EXCEPT !.at = i] /\ incoming[1] \in Symbol
      <4>1. i \in 1..incoming[1].of /\ 1 \in 1..received
        BY <2>2, <3>3, <3>4
      <4>2. stream[front + i] = [incoming[1] EXCEPT !.at = i]
        BY <3>3, <4>1, FirstRecord DEF IInv
      <4>3. incoming[1] \in Symbol
        BY <4>1, BufferFacts DEF IInv
      <4> QED
        BY <3>2, <4>2, <4>3
    <3>6. stream[p].at = i /\ stream[p].of = incoming[1].of
      BY <3>5 DEF Symbol
    <3>7. i = incoming[1].of /\ i <= received
      <4>1. stream[p].at = stream[p].of
        OBVIOUS
      <4>2. i <= received
        BY <2>2
      <4> QED
        BY <3>6, <4>1, <4>2
    <3> QED
      BY <2>2, <3>4, <3>7
  <2>5. front \in 1..Len(stream) /\ p \in 1..front
    BY <2>1, <2>2, <2>4
  <2>6. Before(stream, front) = stream[front].before + Payload(stream[front])
    BY <2>5 DEF Before
  <2>7. \/ stream[p].before + Payload(stream[p]) <= stream[front].before
        \/ stream[p].before = stream[front].before /\ Payload(stream[p]) = Payload(stream[front])
    <3>1. PICK q \in 1..Len(stream) : q = front
      BY <2>5
    <3>2. p \in 1..q
      BY <2>5, <3>1
    <3> QED
      BY <2>1, <3>1, <3>2, PlaintextGrows
  <2>8. PICK bp \in Nat, np \in Nat, bf \in Nat, nf \in Nat :
           /\ bp = stream[p].before /\ np = Payload(stream[p])
           /\ bf = stream[front].before /\ nf = Payload(stream[front])
    <3>1. PICK q \in 1..Len(stream) : q = front
      BY <2>5
    <3>2. /\ stream[p] \in Symbol /\ Payload(stream[p]) \in Nat
          /\ stream[q] \in Symbol /\ Payload(stream[q]) \in Nat
      BY <2>1, SymbolFacts
    <3>3. stream[p].before \in Nat /\ stream[q].before \in Nat
      BY <3>2 DEF Symbol
    <3> QED
      BY <3>1, <3>2, <3>3
  <2>9. bp + np <= bf + nf
    <3>1. CASE stream[p].before + Payload(stream[p]) <= stream[front].before
      <4>1. bp + np <= bf
        BY <2>8, <3>1
      <4> QED
        BY <4>1
    <3>2. CASE stream[p].before = stream[front].before /\ Payload(stream[p]) = Payload(stream[front])
      BY <2>8, <3>2
    <3> QED
      BY <2>7, <3>1, <3>2
  <2> QED
    BY <2>3, <2>6, <2>8, <2>9
<1>3. IInv => BlocksOnlyForMore
  BY <1>1, <1>2 DEF BlocksOnlyForMore
<1> QED
  BY <1>3, Invariance, PTL

\* A disconnect is only told when the peer has hung up or said that it will.
THEOREM EndsAreReal == Spec => []EndIsReal
<1>1. IInv => EndIsReal
  BY DEF IInv, ToldInv, EndIsReal
<1> QED
  BY <1>1, Invariance, PTL

\* A failure is only told when the connection broke or the server sent what
\* cannot be read: the buffer is large enough for every legal record.
THEOREM FailuresAreReal == Spec => []FailureIsReal
<1>1. IInv => FailureIsReal
  BY DEF IInv, ToldInv, FailureIsReal
<1> QED
  BY <1>1, Invariance, PTL

\* A step of tls_read is a step of the byte stream, or none.
LEMMA RefinementStep ==
    ASSUME IInv, [Next]_vars, IInv'
    PROVE  [B!Next]_B!streamVars
<1> USE DEF socketVars, tlsVars, callVars
<1>1. CASE UNCHANGED <<stream, delivered, status>>
  BY <1>1 DEF B!streamVars, PlaintextLength
<1>2. ASSUME stream' = stream, delivered' = delivered \o copied, status' = status
      PROVE  [B!Next]_B!streamVars
  <2>1. delivered \in Seq(Nat) /\ copied \in Seq(Nat) /\ status \in {"open", "ended", "failed"}
    BY DEF IInv, TypeOK
  <2>2. CASE copied = <<>>
    <3>1. delivered \o <<>> = delivered
      BY <2>1
    <3> QED
      BY <1>1, <1>2, <2>2, <3>1
  <2>3. CASE copied # <<>>
    <3>1. status = "open"
      BY <2>1, <2>3 DEF IInv, ToldInv, Waiting, Spoilt
    <3>2. delivered' = Numbers(Taken)
      BY <1>2, <3>1 DEF IInv, DeliveredInv
    <3>3. PICK n \in Nat : n = Taken
      BY TakenFacts DEF IInv
    <3>4. PICK m \in Nat : m = PlaintextLength(stream) /\ n <= m
      BY <3>3, TakenFacts DEF IInv
    <3>5. delivered' = SubSeq(Numbers(m), 1, n) /\ Len(delivered') = n
      BY <3>2, <3>3, <3>4, NumbersFacts
    <3>6. Len(delivered) \in Nat /\ Len(delivered') > Len(delivered)
      BY <1>2, <2>1, <2>3
    <3>7. n \in (Len(delivered) + 1)..m /\ Len(Numbers(m)) = m
      <4>1. Len(Numbers(m)) = m
        BY NumbersFacts
      <4>2. PICK k \in Nat : k = Len(delivered) /\ k < n
        BY <3>5, <3>6
      <4> QED
        BY <3>4, <4>1, <4>2
    <3>8. [i \in 1..PlaintextLength(stream) |-> i] = Numbers(m)
      BY <3>4 DEF Numbers
    <3>9. UNCHANGED [i \in 1..PlaintextLength(stream) |-> i]
      BY <1>2 DEF PlaintextLength
    <3> QED
      BY <1>2, <3>1, <3>5, <3>7, <3>8, <3>9 DEF B!Next, B!Deliver
  <2> QED
    BY <2>2, <2>3
<1>3. ASSUME stream' = stream, delivered' = delivered,
             status' = "failed" \/ (status' = "ended" /\ status # "failed")
      PROVE  [B!Next]_B!streamVars
  <2>1. UNCHANGED [i \in 1..PlaintextLength(stream) |-> i]
    BY <1>3 DEF PlaintextLength
  <2>2. status \in {"open", "ended", "failed"}
    BY DEF IInv, TypeOK
  <2> QED
    BY <1>3, <2>1, <2>2 DEF B!Next, B!End, B!Fail, B!streamVars
<1>4. CASE UNCHANGED vars
  BY <1>1, <1>4 DEF vars
<1>5. CASE Call \/ TakeAll \/ TakeSome \/ Decrypt \/ Block \/ Receive \/ PeerCloses
           \/ ConnectionBreaks
  BY <1>1, <1>5 DEF Call, TakeAll, TakeSome, Copy, Decrypt, Block, Receive, PeerCloses,
                   ConnectionBreaks
<1>6. CASE Filled \/ ReturnBeforeRecv
  BY <1>2, <1>6 DEF Filled, ReturnBeforeRecv, ReturnBytes
<1>7. CASE ContextExpired
  <2>1. status # "failed" \/ copied # <<>>
    <3>1. Complete /\ incoming[1].kind = "close"
      BY <1>7 DEF ContextExpired
    <3>2. ~Incomplete /\ ~Unreadable /\ received # 0
      BY <3>1, Exclusive DEF IInv
    <3> QED
      BY <3>1, <3>2 DEF IInv, ToldInv, Waiting, Spoilt
  <2> QED
    BY <1>2, <1>3, <1>7, <2>1 DEF ContextExpired, ReturnBytes, ReturnNone
<1>8. CASE DecryptFails \/ BufferFull \/ ReceiveFails
  BY <1>3, <1>8 DEF DecryptFails, BufferFull, ReceiveFails, ReturnNone
<1>9. CASE Disconnected
  <2>1. Waiting /\ received < BufferSize /\ socket = "closed"
    BY <1>9 DEF Disconnected, IInv, ToldInv
  <2>2. ~Spoilt
    BY <2>1, Exclusive DEF Waiting, Spoilt, IInv
  <2>3. received # BufferSize
    BY <2>1, SizesAssumption DEF IInv, TypeOK, received
  <2>4. status # "failed"
    BY <2>1, <2>2, <2>3 DEF IInv, ToldInv
  <2> QED
    BY <1>3, <1>9, <2>4 DEF Disconnected, ReturnNone
<1> QED
  BY <1>4, <1>5, <1>6, <1>7, <1>8, <1>9 DEF Next, TlsRead

\* What the calls return is the server's plaintext, in order, nothing left out
\* and nothing twice, and nothing comes after an end that was told.
THEOREM ReadsByteStream == Spec => ImplementsByteStream
<1>1. Init => B!Init
  <2> SUFFICES ASSUME Init PROVE B!Init
    OBVIOUS
  <2>1. PICK m \in Nat : m = PlaintextLength(stream)
    <3>1. Window /\ TypeOK /\ PointerInv
      BY InitInv DEF IInv
    <3> QED
      BY <3>1, TakenFacts
  <2>2. [i \in 1..m |-> i] \in Seq(Nat)
    OBVIOUS
  <2> QED
    BY <2>1, <2>2 DEF Init, B!Init
<1>2. IInv /\ [Next]_vars /\ IInv' => [B!Next]_B!streamVars
  BY RefinementStep
<1> QED
  BY <1>1, <1>2, Invariance, PTL DEF Spec, ImplementsByteStream, B!Spec
=============================================================================
