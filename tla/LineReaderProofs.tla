--------------------------- MODULE LineReaderProofs ---------------------------
(***************************************************************************)
(* Theorems about LineReader for buffers, records and texts of any length. *)
(* FreshInv says what the first read of a call has in its zeroed buffer:   *)
(* the text from its origin, without an end of line until it returns.      *)
(* WholeInv says what stays in LocalBuffer when records end with lines:    *)
(* whole lines, the last that arrived, in front of any stale bytes; with   *)
(* it every step is one of LineQueue or changes nothing of the queue.      *)
(***************************************************************************)
EXTENDS LineReader, DataLemmas

\* The first m bytes of the text from origin on, and zeros behind them.
Got(m) == [i \in 1..BufferSize |-> IF i <= m THEN origin + i - 1 ELSE 0]

\* The buffer holds the line at origin, and its end comes first.
LineRead ==
    \E e \in 2..BufferSize :
        /\ HasLine(Buffer) /\ Position(Buffer) = e
        /\ \A i \in 1..e : Buffer[i] = origin + i - 1
        /\ origin + e - 1 \in Ends
        /\ \A f \in Ends : f > origin => f >= origin + e - 1

FreshInv ==
    fresh =>
        /\ origin \in 1..(Len(text) + 1)
        /\ pc \in {"entered", "reading"} => LocalBufferSize = 0
        /\ pc = "entered" => arrived + 1 = origin /\ Buffer = Got(0)
        /\ pc = "reading" =>
              arrived + 1 = origin + Received /\ Buffer = Got(Received) /\ ~HasLine(Buffer)
        /\ pc = "idle" => LineRead
        /\ pc = "undefined" => ~LinesFit

\* A line of the text starts behind that place.
Boundary(place) == place = 0 \/ text[place] = "LF"

WholeInv ==
    wholeLines =>
        /\ Boundary(arrived)
        /\ LocalBufferSize <= arrived /\ Boundary(arrived - LocalBufferSize)
        /\ \A i \in 1..LocalBufferSize : LocalBuffer[i] = arrived - LocalBufferSize + i
        /\ pc = "reading" => LocalBufferSize = 0 /\ Received = 0
        /\ pc # "undefined"

IInv == TypeOK /\ LocalBufferSize < BufferSize /\ FreshInv /\ WholeInv

-------------------------------------------------------------------------------
(* Memory *)

\* A part of a sequence.
LEMMA PartFacts ==
    ASSUME NEW V, NEW s \in Seq(V), NEW a \in Nat, NEW k \in Nat, a + k <= Len(s)
    PROVE  /\ SubSeq(s, a + 1, a + k) \in Seq(V) /\ Len(SubSeq(s, a + 1, a + k)) = k
           /\ \A i \in 1..k : SubSeq(s, a + 1, a + k)[i] = s[a + i]
<1>1. Len(s) \in Nat
  OBVIOUS
<1>2. a + 1 \in 1..(Len(s) + 1) /\ a + k \in ((a + 1) - 1)..Len(s)
  BY <1>1
<1>3. SubSeq(s, a + 1, a + k) \in Seq(V)
  BY <1>2, SubSeqProperties
<1>4. Len(SubSeq(s, a + 1, a + k)) = (a + k) - (a + 1) + 1
  BY <1>2, SubSeqProperties
<1>5. (a + k) - (a + 1) + 1 = k
  OBVIOUS
<1>6. ASSUME NEW i \in 1..k PROVE SubSeq(s, a + 1, a + k)[i] = s[a + i]
  <2>1. SubSeq(s, a + 1, a + k)[i] = s[(a + 1) + i - 1]
    BY <1>2, <1>4, <1>5, SubSeqProperties
  <2>2. (a + 1) + i - 1 = a + i
    OBVIOUS
  <2> QED
    BY <2>1, <2>2
<1> QED
  BY <1>3, <1>4, <1>5, <1>6

\* Memory of a size is a sequence.
LEMMA MemoryFacts ==
    ASSUME NEW V, NEW size \in Nat, NEW memory \in [1..size -> V]
    PROVE  memory \in Seq(V) /\ Len(memory) = size /\ DOMAIN memory = 1..size
<1>1. memory \in Seq(V) /\ Len(memory) = size
  OBVIOUS
<1> QED
  BY <1>1

\* Bytes that are copied over memory from offset on.
Copied(V, size, memory, offset, bytes) ==
    size \in Nat /\ memory \in [1..size -> V] /\ offset \in Nat /\ bytes \in Seq(V)

\* What is copied over memory, and what stays.
LEMMA OverlayFacts ==
    ASSUME NEW V, NEW size, NEW memory, NEW offset, NEW bytes,
           Copied(V, size, memory, offset, bytes)
    PROVE  /\ Overlay(memory, offset, bytes) \in [1..size -> V]
           /\ \A i \in 1..size : i <= offset \/ i > offset + Len(bytes) =>
                    Overlay(memory, offset, bytes)[i] = memory[i]
           /\ \A i \in 1..Len(bytes) : offset + i <= size =>
                    Overlay(memory, offset, bytes)[offset + i] = bytes[i]
<1>0. size \in Nat /\ memory \in [1..size -> V] /\ offset \in Nat /\ bytes \in Seq(V)
  BY DEF Copied
<1>1. Len(bytes) \in Nat /\ DOMAIN memory = 1..size
  BY <1>0
<1>2. ASSUME NEW i \in 1..size
      PROVE  (IF i - offset \in 1..Len(bytes) THEN bytes[i - offset] ELSE memory[i]) \in V
  BY <1>0, ElementOfSeq
<1>3. Overlay(memory, offset, bytes) \in [1..size -> V]
  BY <1>0, <1>1, <1>2 DEF Overlay
<1>4. ASSUME NEW i \in 1..size, i <= offset \/ i > offset + Len(bytes)
      PROVE  Overlay(memory, offset, bytes)[i] = memory[i]
  <2>1. i - offset \notin 1..Len(bytes)
    BY <1>0, <1>1, <1>4
  <2> QED
    BY <1>0, <1>1, <2>1 DEF Overlay
<1>5. ASSUME NEW i \in 1..Len(bytes), offset + i <= size
      PROVE  Overlay(memory, offset, bytes)[offset + i] = bytes[i]
  <2>1. (offset + i) - offset = i /\ offset + i \in 1..size
    BY <1>0, <1>1, <1>5
  <2> QED
    BY <1>0, <1>1, <2>1 DEF Overlay
<1> QED
  BY <1>3, <1>4, <1>5

\* Bytes that are copied to the start of memory.
LEMMA OverlayStart ==
    ASSUME NEW V, NEW size, NEW memory, NEW bytes, Copied(V, size, memory, 0, bytes)
    PROVE  /\ Overlay(memory, 0, bytes) \in [1..size -> V]
           /\ \A i \in 1..Len(bytes) : i \in 1..size => Overlay(memory, 0, bytes)[i] = bytes[i]
<1>1. PICK o \in Nat : o = 0
  OBVIOUS
<1>2. /\ Overlay(memory, o, bytes) \in [1..size -> V]
      /\ \A i \in 1..Len(bytes) : o + i <= size => Overlay(memory, o, bytes)[o + i] = bytes[i]
  BY <1>1, OverlayFacts
<1>3. ASSUME NEW i \in 1..Len(bytes), i \in 1..size PROVE o + i = i /\ o + i <= size
  BY <1>1, <1>3 DEF Copied
<1> QED
  BY <1>1, <1>2, <1>3

\* The end of the line in memory.
LEMMA PositionFacts ==
    ASSUME NEW V, NEW size \in Nat, NEW memory \in [1..size -> V], HasLine(memory)
    PROVE  /\ Position(memory) \in 2..size
           /\ Is(memory[Position(memory) - 1], "CR") /\ Is(memory[Position(memory)], "LF")
           /\ \A j \in 1..Position(memory) : memory[j] # 0
           /\ \A e \in LineEnds(memory) : Position(memory) <= e
<1>1. Len(memory) = size
  BY MemoryFacts
<1>2. LineEnds(memory) \subseteq 2..size
  BY <1>1 DEF LineEnds
<1>3. LineEnds(memory) \subseteq Nat
  BY <1>2
<1>4. Position(memory) \in LineEnds(memory) /\ \A e \in LineEnds(memory) : Position(memory) <= e
  BY <1>3, MinFacts DEF HasLine, Position
<1>5. PICK e \in 2..size : e = Position(memory)
  BY <1>2, <1>4
<1>6. /\ Is(memory[e - 1], "CR") /\ Is(memory[e], "LF")
      /\ \A j \in 1..(e - 2) : memory[j] # 0
  BY <1>4, <1>5 DEF LineEnds
<1>7. ASSUME NEW j \in 1..e PROVE memory[j] # 0
  <2>1. j \in 1..(e - 2) \/ j = e - 1 \/ j = e
    OBVIOUS
  <2> QED
    BY <1>6, <2>1 DEF Is
<1> QED
  BY <1>4, <1>5, <1>6, <1>7

\* Where the end of the line is.
LEMMA PositionIs ==
    ASSUME NEW V, NEW size \in Nat, NEW memory \in [1..size -> V], NEW e \in 2..size,
           Is(memory[e - 1], "CR"), Is(memory[e], "LF"),
           \A j \in 1..e : memory[j] # 0,
           \A i \in 2..e : Is(memory[i - 1], "CR") /\ Is(memory[i], "LF") => i = e
    PROVE  HasLine(memory) /\ Position(memory) = e
<1>1. Len(memory) = size
  BY MemoryFacts
<1>2. e \in LineEnds(memory)
  <2>1. \A j \in 1..(e - 2) : j \in 1..e
    OBVIOUS
  <2> QED
    BY <1>1, <2>1 DEF LineEnds
<1>3. HasLine(memory)
  BY <1>2 DEF HasLine
<1>4. PICK p \in 2..size : p = Position(memory)
  BY <1>3, PositionFacts
<1>5. p <= e /\ Is(memory[p - 1], "CR") /\ Is(memory[p], "LF")
  BY <1>2, <1>3, <1>4, PositionFacts
<1>6. p \in 2..e
  BY <1>5
<1> QED
  BY <1>3, <1>4, <1>5, <1>6

-------------------------------------------------------------------------------
(* What the reads copy *)

\* The text and the sizes.
LEMMA Sizes ==
    ASSUME TypeOK
    PROVE  /\ text \in Seq({"x", "CR", "LF"}) /\ Len(text) \in Nat
           /\ \A i \in 1..Len(text) : text[i] = "LF" => i > 1 /\ text[i - 1] = "CR"
           /\ BufferSize \in Nat /\ LocalSize \in Nat /\ MaxRecord \in Nat
           /\ 1 <= MaxRecord /\ MaxRecord < BufferSize /\ BufferSize < LocalSize
           /\ arrived \in Nat /\ LocalBufferSize \in Nat /\ Received \in Nat
<1>1. /\ text \in Seq({"x", "CR", "LF"})
      /\ \A i \in 1..Len(text) : text[i] = "LF" => i > 1 /\ text[i - 1] = "CR"
  BY TextsAssumption DEF TypeOK
<1>2. Len(text) \in Nat
  BY <1>1
<1>3. /\ BufferSize \in Nat /\ LocalSize \in Nat /\ MaxRecord \in Nat
      /\ 1 <= MaxRecord /\ MaxRecord < BufferSize /\ BufferSize < LocalSize
  BY SizesAssumption
<1>4. arrived \in Nat /\ LocalBufferSize \in Nat /\ Received \in Nat
  BY <1>2, <1>3 DEF TypeOK
<1> QED
  BY <1>1, <1>2, <1>3, <1>4

\* The buffer after a read of n bytes.
LEMMA FilledFacts ==
    ASSUME TypeOK, NEW n \in RecordSizes, Received + n <= BufferSize
    PROVE  /\ n \in 1..MaxRecord /\ arrived + n <= Len(text)
           /\ Filled(n) \in Memory(BufferSize)
           /\ \A i \in 1..BufferSize : i <= Received \/ i > Received + n => Filled(n)[i] = Buffer[i]
           /\ \A i \in 1..n : Filled(n)[Received + i] = arrived + i
<1>1. n \in 1..MaxRecord /\ n \in Nat /\ arrived + n <= Len(text)
  BY Sizes DEF RecordSizes
<1> DEFINE bytes == [i \in 1..n |-> arrived + i]
<1>2. bytes \in [1..n -> 0..Len(text)]
  <2>1. \A i \in 1..n : arrived + i \in 0..Len(text)
    BY <1>1, Sizes
  <2> QED
    BY <2>1
<1>3. bytes \in Seq(0..Len(text)) /\ Len(bytes) = n
  BY <1>1, <1>2, MemoryFacts
<1>4. \A i \in 1..n : bytes[i] = arrived + i
  OBVIOUS
<1>5. Filled(n) = Overlay(Buffer, Received, bytes)
  BY DEF Filled
<1> HIDE DEF bytes
<1>6. Buffer \in [1..BufferSize -> 0..Len(text)] /\ Received \in Nat /\ BufferSize \in Nat
  BY Sizes DEF TypeOK, Memory
<1>7. /\ Filled(n) \in [1..BufferSize -> 0..Len(text)]
      /\ \A i \in 1..BufferSize : i <= Received \/ i > Received + n => Filled(n)[i] = Buffer[i]
      /\ \A i \in 1..n : Received + i <= BufferSize => Filled(n)[Received + i] = bytes[i]
  <2>1. Copied(0..Len(text), BufferSize, Buffer, Received, bytes)
    BY <1>3, <1>6 DEF Copied
  <2> QED
    BY <1>3, <1>5, <2>1, OverlayFacts
<1>8. \A i \in 1..n : Received + i <= BufferSize
  BY <1>1, <1>6
<1> QED
  BY <1>1, <1>4, <1>7, <1>8 DEF Memory

\* What a read leaves when it keeps the bytes behind the end of the line, and
\* when there are none.
LEMMA SpareFacts ==
    ASSUME TypeOK, NEW n \in RecordSizes, Received + n <= BufferSize, Spare(n)
    PROVE  /\ Buffer' \in Memory(BufferSize) /\ LocalBuffer' \in Memory(LocalSize)
           /\ HasLine(Filled(n)) /\ Received + n > Position(Filled(n)) =>
                /\ LocalBufferSize' = Received + n - Position(Filled(n))
                /\ \A i \in 1..Position(Filled(n)) : Buffer'[i] = Filled(n)[i]
                /\ \A i \in 1..(Received + n - Position(Filled(n))) :
                        LocalBuffer'[i] = Filled(n)[Position(Filled(n)) + i]
           /\ ~(HasLine(Filled(n)) /\ Received + n > Position(Filled(n))) =>
                Buffer' = Filled(n) /\ LocalBuffer' = LocalBuffer /\ LocalBufferSize' = LocalBufferSize
<1>1. /\ Filled(n) \in [1..BufferSize -> 0..Len(text)]
      /\ LocalBuffer \in [1..LocalSize -> 0..Len(text)]
      /\ n \in Nat /\ Received \in Nat /\ BufferSize \in Nat /\ LocalSize \in Nat
      /\ BufferSize < LocalSize /\ Len(text) \in Nat
  <2>1. n \in 1..MaxRecord
    BY FilledFacts
  <2> QED
    BY <2>1, FilledFacts, Sizes DEF Memory, TypeOK
<1>2. CASE HasLine(Filled(n)) /\ Received + n > Position(Filled(n))
  <2>1. PICK f \in [1..BufferSize -> 0..Len(text)] : f = Filled(n)
    BY <1>1
  <2>2. PICK e \in 2..BufferSize : e = Position(f)
    BY <1>1, <1>2, <2>1, PositionFacts
  <2>3. PICK k \in Nat : k = Received + n - e
    <3>1. Received + n > e
      BY <1>2, <2>1, <2>2
    <3>2. Received + n - e \in Nat
      BY <1>1, <3>1
    <3> QED
      BY <3>2
  <2>4. e + k = Received + n /\ e + k <= BufferSize /\ k <= LocalSize /\ k >= 1 /\ e \in Nat
    <3>1. PICK a \in Nat, b \in Nat : a = Received /\ b = n
      BY <1>1
    <3>2. k = a + b - e /\ a + b <= BufferSize /\ a + b > e
      BY <1>2, <2>1, <2>2, <2>3, <3>1
    <3> QED
      BY <1>1, <3>1, <3>2
  <2>5. /\ Buffer' = [f EXCEPT ![e + 1] = 0]
        /\ LocalBuffer' = Overlay(LocalBuffer, 0, SubSeq(f, e + 1, e + k))
        /\ LocalBufferSize' = k
    BY <1>2, <2>1, <2>2, <2>3, <2>4 DEF Spare
  <2>6. f \in Seq(0..Len(text)) /\ Len(f) = BufferSize
    BY <1>1, <2>1, MemoryFacts
  <2>7. /\ SubSeq(f, e + 1, e + k) \in Seq(0..Len(text)) /\ Len(SubSeq(f, e + 1, e + k)) = k
        /\ \A i \in 1..k : SubSeq(f, e + 1, e + k)[i] = f[e + i]
    BY <2>4, <2>6, PartFacts
  <2>8. PICK part \in Seq(0..Len(text)) : part = SubSeq(f, e + 1, e + k)
    BY <2>7
  <2>9. /\ LocalBuffer' \in [1..LocalSize -> 0..Len(text)]
        /\ \A i \in 1..k : i \in 1..LocalSize => LocalBuffer'[i] = part[i]
    <3>1. Copied(0..Len(text), LocalSize, LocalBuffer, 0, part)
      BY <1>1, <2>8 DEF Copied
    <3>2. LocalBuffer' = Overlay(LocalBuffer, 0, part) /\ Len(part) = k
      BY <2>5, <2>7, <2>8
    <3>3. Overlay(LocalBuffer, 0, part) \in [1..LocalSize -> 0..Len(text)]
      BY <3>1, OverlayStart
    <3>4. ASSUME NEW i \in 1..Len(part), i \in 1..LocalSize
          PROVE  Overlay(LocalBuffer, 0, part)[i] = part[i]
      BY <3>1, <3>4, OverlayStart
    <3> QED
      BY <3>2, <3>3, <3>4
  <2>10. \A i \in 1..k : LocalBuffer'[i] = f[e + i]
    <3>1. ASSUME NEW i \in 1..k PROVE LocalBuffer'[i] = f[e + i]
      <4>1. i \in 1..LocalSize
        BY <1>1, <2>4
      <4> QED
        BY <2>7, <2>8, <2>9, <4>1
    <3> QED
      BY <3>1
  <2>11. /\ Buffer' \in [1..BufferSize -> 0..Len(text)]
         /\ \A i \in 1..e : Buffer'[i] = f[i]
    <3>1. \A i \in 1..e : i # e + 1 /\ i \in 1..BufferSize
      BY <1>1
    <3>2. 0 \in 0..Len(text)
      BY <1>1
    <3> QED
      BY <2>5, <3>1, <3>2
  <2> QED
    BY <1>2, <2>1, <2>2, <2>3, <2>5, <2>9, <2>10, <2>11 DEF Memory
<1>3. CASE ~(HasLine(Filled(n)) /\ Received + n > Position(Filled(n)))
  BY <1>1, <1>3 DEF Spare, Memory
<1> QED
  BY <1>2, <1>3

\* What a line that is taken from LocalBuffer leaves.
LEMMA KeptFacts ==
    ASSUME TypeOK, ReturnKept, pc' # "undefined"
    PROVE  /\ Position(LocalBuffer) \in 2..LocalBufferSize /\ Position(LocalBuffer) < BufferSize
           /\ Buffer' \in Memory(BufferSize) /\ LocalBuffer' \in Memory(LocalSize)
           /\ LocalBufferSize' = LocalBufferSize - Position(LocalBuffer)
           /\ Received' = Position(LocalBuffer) /\ pc' = "idle"
           /\ \A i \in 1..Position(LocalBuffer) : Buffer'[i] = LocalBuffer[i]
           /\ \A i \in 1..(LocalBufferSize - Position(LocalBuffer)) :
                    LocalBuffer'[i] = LocalBuffer[Position(LocalBuffer) + i]
<1>1. /\ Buffer \in [1..BufferSize -> 0..Len(text)]
      /\ LocalBuffer \in [1..LocalSize -> 0..Len(text)]
      /\ LocalBufferSize \in Nat /\ LocalBufferSize <= LocalSize
      /\ BufferSize \in Nat /\ LocalSize \in Nat /\ Len(text) \in Nat
  BY Sizes DEF Memory, TypeOK
<1>2. /\ HasLine(LocalBuffer)
      /\ ~(Position(LocalBuffer) > LocalBufferSize \/ Position(LocalBuffer) >= BufferSize)
  BY DEF ReturnKept, Undefined
<1>3. PICK b \in 2..LocalSize : b = Position(LocalBuffer)
  BY <1>1, <1>2, PositionFacts
<1>4. b <= LocalBufferSize /\ b < BufferSize /\ b \in Nat
  BY <1>1, <1>2, <1>3
<1>5. PICK k \in Nat : k = LocalBufferSize - b
  <2>1. LocalBufferSize - b \in Nat
    BY <1>1, <1>4
  <2> QED
    BY <2>1
<1>6. b + k = LocalBufferSize /\ b + k <= LocalSize /\ 0 + b = b
  BY <1>1, <1>4, <1>5
<1>7. /\ Buffer' = Overlay(Buffer, 0, Append(SubSeq(LocalBuffer, 1, b), 0))
      /\ LocalBuffer' = Overlay(LocalBuffer, 0, SubSeq(LocalBuffer, b + 1, b + k))
      /\ LocalBufferSize' = k /\ Received' = b /\ pc' = "idle"
  BY <1>2, <1>3, <1>5, <1>6 DEF ReturnKept
<1>8. LocalBuffer \in Seq(0..Len(text)) /\ Len(LocalBuffer) = LocalSize
  BY <1>1, MemoryFacts
<1>9. /\ SubSeq(LocalBuffer, b + 1, b + k) \in Seq(0..Len(text))
      /\ Len(SubSeq(LocalBuffer, b + 1, b + k)) = k
      /\ \A i \in 1..k : SubSeq(LocalBuffer, b + 1, b + k)[i] = LocalBuffer[b + i]
  <2>1. b + k <= Len(LocalBuffer)
    BY <1>6, <1>8
  <2> QED
    BY <1>4, <1>8, <2>1, PartFacts
<1>10. PICK head \in Seq(0..Len(text)) :
          /\ head = SubSeq(LocalBuffer, 1, b) /\ Len(head) = b
          /\ \A i \in 1..b : head[i] = LocalBuffer[i]
  <2>1. 0 + b <= Len(LocalBuffer) /\ 0 + 1 = 1
    BY <1>1, <1>4, <1>6, <1>8
  <2>2. /\ SubSeq(LocalBuffer, 0 + 1, 0 + b) \in Seq(0..Len(text))
        /\ Len(SubSeq(LocalBuffer, 0 + 1, 0 + b)) = b
        /\ \A i \in 1..b : SubSeq(LocalBuffer, 0 + 1, 0 + b)[i] = LocalBuffer[0 + i]
    BY <1>4, <1>8, <2>1, PartFacts
  <2>3. \A i \in 1..b : 0 + i = i
    OBVIOUS
  <2> QED
    BY <1>6, <2>1, <2>2, <2>3
<1>11. /\ Append(head, 0) \in Seq(0..Len(text)) /\ Len(Append(head, 0)) = b + 1
       /\ \A i \in 1..b : Append(head, 0)[i] = LocalBuffer[i] /\ i \in 1..(b + 1)
  <2>1. 0 \in 0..Len(text)
    BY <1>1
  <2>2. Append(head, 0) \in Seq(0..Len(text)) /\ Len(Append(head, 0)) = b + 1
    BY <1>10, <2>1
  <2>3. \A i \in 1..b : Append(head, 0)[i] = head[i]
    BY <1>10
  <2>4. \A i \in 1..b : i \in 1..(b + 1)
    OBVIOUS
  <2> QED
    BY <1>10, <2>2, <2>3, <2>4
<1>12. PICK copied \in Seq(0..Len(text)) : copied = Append(head, 0)
  BY <1>11
<1>13. PICK rest \in Seq(0..Len(text)) : rest = SubSeq(LocalBuffer, b + 1, b + k)
  BY <1>9
<1>14. /\ Buffer' \in [1..BufferSize -> 0..Len(text)]
       /\ \A i \in 1..(b + 1) : i \in 1..BufferSize => Buffer'[i] = copied[i]
  <2>1. Copied(0..Len(text), BufferSize, Buffer, 0, copied)
    BY <1>1 DEF Copied
  <2>2. Buffer' = Overlay(Buffer, 0, copied) /\ Len(copied) = b + 1
    BY <1>7, <1>10, <1>11, <1>12
  <2>3. Overlay(Buffer, 0, copied) \in [1..BufferSize -> 0..Len(text)]
    BY <2>1, OverlayStart
  <2>4. ASSUME NEW i \in 1..Len(copied), i \in 1..BufferSize
        PROVE  Overlay(Buffer, 0, copied)[i] = copied[i]
    BY <2>1, <2>4, OverlayStart
  <2> QED
    BY <2>2, <2>3, <2>4
<1>15. /\ LocalBuffer' \in [1..LocalSize -> 0..Len(text)]
       /\ \A i \in 1..k : i \in 1..LocalSize => LocalBuffer'[i] = rest[i]
  <2>1. Copied(0..Len(text), LocalSize, LocalBuffer, 0, rest)
    BY <1>1 DEF Copied
  <2>2. LocalBuffer' = Overlay(LocalBuffer, 0, rest) /\ Len(rest) = k
    BY <1>7, <1>9, <1>13
  <2>3. Overlay(LocalBuffer, 0, rest) \in [1..LocalSize -> 0..Len(text)]
    BY <2>1, OverlayStart
  <2>4. ASSUME NEW i \in 1..Len(rest), i \in 1..LocalSize
        PROVE  Overlay(LocalBuffer, 0, rest)[i] = rest[i]
    BY <2>1, <2>4, OverlayStart
  <2> QED
    BY <2>2, <2>3, <2>4
<1>16. ASSUME NEW i \in 1..b PROVE Buffer'[i] = LocalBuffer[i]
  <2>1. i \in 1..BufferSize /\ i \in 1..(b + 1)
    BY <1>1, <1>4
  <2> QED
    BY <1>11, <1>12, <1>14, <2>1
<1>17. ASSUME NEW i \in 1..k PROVE LocalBuffer'[i] = LocalBuffer[b + i]
  <2>1. i \in 1..LocalSize
    BY <1>1, <1>4, <1>6
  <2> QED
    BY <1>9, <1>13, <1>15, <2>1
<1>18. b \in 2..LocalBufferSize
  BY <1>1, <1>4
<1> QED
  BY <1>3, <1>4, <1>5, <1>7, <1>14, <1>15, <1>16, <1>17, <1>18 DEF Memory

-------------------------------------------------------------------------------
(* Type correctness *)

\* Zeroed buffers are memory.
LEMMA ZerosFacts ==
    ASSUME TypeOK
    PROVE  Zeros(BufferSize) \in Memory(BufferSize) /\ Zeros(LocalSize) \in Memory(LocalSize)
<1>1. 0 \in 0..Len(text)
  BY Sizes
<1> QED
  BY <1>1 DEF Zeros, Memory

\* Every step keeps the types, and room behind what is kept.
LEMMA TypeStep ==
    ASSUME IInv, [Next]_vars
    PROVE  TypeOK' /\ LocalBufferSize' < BufferSize
<1>1. TypeOK /\ LocalBufferSize < BufferSize
  BY DEF IInv
<1>2. /\ Len(text) \in Nat /\ BufferSize \in Nat /\ LocalSize \in Nat /\ BufferSize < LocalSize
      /\ 1 <= BufferSize
      /\ arrived \in Nat /\ LocalBufferSize \in Nat /\ Received \in Nat
  BY <1>1, Sizes
<1>3. text' = text /\ wholeLines' = wholeLines
  BY DEF Next, NewCall, NextRead, ReturnKept, TakePartial, StartEmpty, Reads, Read, ReadFails,
         Undefined, serverVars, vars
<1>4. ASSUME NEW size PROVE Memory(size)' = Memory(size)
  BY <1>3 DEF Memory
<1>5. /\ text \in Texts /\ wholeLines \in BOOLEAN /\ arrived \in 0..Len(text)
      /\ Buffer \in Memory(BufferSize) /\ LocalBuffer \in Memory(LocalSize)
      /\ LocalBufferSize \in 0..LocalSize /\ Received \in 0..BufferSize
      /\ fresh \in BOOLEAN /\ origin \in 0..(Len(text) + 1)
  BY <1>1 DEF TypeOK
<1>6. CASE NewCall
  <2>1. arrived + 1 \in 0..(Len(text) + 1)
    BY <1>2, <1>5
  <2> QED
    BY <1>1, <1>2, <1>3, <1>4, <1>5, <1>6, <2>1, ZerosFacts DEF NewCall, TypeOK
<1>7. CASE NextRead
  <2>1. 0 \in 0..(Len(text) + 1)
    BY <1>2
  <2> QED
    BY <1>1, <1>3, <1>4, <1>5, <1>7, <2>1 DEF NextRead, TypeOK
<1>8. CASE Undefined
  BY <1>1, <1>3, <1>4, <1>5, <1>8 DEF Undefined, callerVars, TypeOK
<1>9. CASE ReturnKept /\ pc' # "undefined"
  <2>1. /\ arrived' = arrived /\ fresh' = fresh /\ origin' = origin
    BY <1>9 DEF ReturnKept, Undefined, callerVars
  <2>2. /\ Position(LocalBuffer) \in 2..LocalBufferSize /\ Position(LocalBuffer) < BufferSize
        /\ Buffer' \in Memory(BufferSize) /\ LocalBuffer' \in Memory(LocalSize)
        /\ LocalBufferSize' = LocalBufferSize - Position(LocalBuffer)
        /\ Received' = Position(LocalBuffer) /\ pc' = "idle"
    BY <1>1, <1>9, KeptFacts
  <2>3. /\ LocalBufferSize' \in 0..LocalSize /\ LocalBufferSize' < BufferSize
        /\ Received' \in 0..BufferSize
    BY <1>1, <1>2, <2>2
  <2> QED
    BY <1>3, <1>4, <1>5, <2>1, <2>2, <2>3 DEF TypeOK
<1>10. CASE TakePartial
  <2>1. /\ Buffer' = Overlay(Buffer, 0, Append(SubSeq(LocalBuffer, 1, LocalBufferSize), 0))
        /\ Received' = LocalBufferSize /\ LocalBufferSize' = 0 /\ pc' = "reading"
        /\ arrived' = arrived /\ LocalBuffer' = LocalBuffer /\ fresh' = fresh /\ origin' = origin
    BY <1>10 DEF TakePartial, callerVars
  <2>2. LocalBuffer \in Seq(0..Len(text)) /\ Len(LocalBuffer) = LocalSize
    BY <1>2, <1>5, MemoryFacts DEF Memory
  <2>3. SubSeq(LocalBuffer, 1, LocalBufferSize) \in Seq(0..Len(text))
    <3>1. 0 + LocalBufferSize <= Len(LocalBuffer) /\ 0 + 1 = 1 /\ 0 + LocalBufferSize = LocalBufferSize
      BY <1>2, <1>5, <2>2
    <3>2. SubSeq(LocalBuffer, 0 + 1, 0 + LocalBufferSize) \in Seq(0..Len(text))
      BY <1>2, <2>2, <3>1, PartFacts
    <3> QED
      BY <3>1, <3>2
  <2>4. 0 \in 0..Len(text)
    BY <1>2
  <2>5. Append(SubSeq(LocalBuffer, 1, LocalBufferSize), 0) \in Seq(0..Len(text))
    BY <2>3, <2>4
  <2>6. Copied(0..Len(text), BufferSize, Buffer, 0,
               Append(SubSeq(LocalBuffer, 1, LocalBufferSize), 0))
    BY <1>2, <1>5, <2>5 DEF Copied, Memory
  <2>7. Buffer' \in Memory(BufferSize)
    BY <2>1, <2>6, OverlayStart DEF Memory
  <2>8. LocalBufferSize \in 0..BufferSize /\ 0 \in 0..LocalSize /\ 0 < BufferSize
    BY <1>1, <1>2
  <2> QED
    BY <1>3, <1>4, <1>5, <2>1, <2>7, <2>8 DEF TypeOK
<1>11. CASE StartEmpty
  <2>1. 0 \in 0..BufferSize
    BY <1>2
  <2> QED
    BY <1>1, <1>3, <1>4, <1>5, <1>11, <2>1 DEF StartEmpty, callerVars, TypeOK
<1>12. ASSUME NEW n \in RecordSizes, Read(n), pc' # "undefined"
       PROVE  TypeOK' /\ LocalBufferSize' < BufferSize
  <2>1. /\ ~(Received + n > BufferSize) /\ Spare(n)
        /\ Received' = Received + n /\ arrived' = arrived + n
        /\ pc' \in {"idle", "reading"} /\ fresh' = fresh /\ origin' = origin
    BY <1>12 DEF Read, Undefined, callerVars
  <2>2. n \in Nat
    BY <1>2 DEF RecordSizes
  <2>3. Received + n <= BufferSize
    BY <1>2, <2>1, <2>2
  <2>4. arrived + n <= Len(text) /\ Filled(n) \in Memory(BufferSize)
    BY <1>1, <2>3, FilledFacts
  <2>5. /\ Buffer' \in Memory(BufferSize) /\ LocalBuffer' \in Memory(LocalSize)
        /\ HasLine(Filled(n)) /\ Received + n > Position(Filled(n)) =>
              LocalBufferSize' = Received + n - Position(Filled(n))
        /\ ~(HasLine(Filled(n)) /\ Received + n > Position(Filled(n))) =>
              LocalBufferSize' = LocalBufferSize
    BY <1>1, <2>1, <2>3, SpareFacts
  <2>6. LocalBufferSize' \in 0..LocalSize /\ LocalBufferSize' < BufferSize
    <3>1. CASE HasLine(Filled(n)) /\ Received + n > Position(Filled(n))
      <4>1. Filled(n) \in [1..BufferSize -> 0..Len(text)]
        BY <2>4 DEF Memory
      <4>2. PICK e \in 2..BufferSize : e = Position(Filled(n))
        BY <1>2, <3>1, <4>1, PositionFacts
      <4>3. PICK a \in Nat, b \in Nat : a = Received /\ b = n
        BY <1>2, <2>2
      <4>4. LocalBufferSize' = a + b - e /\ a + b <= BufferSize /\ a + b > e
        BY <2>3, <2>5, <3>1, <4>2, <4>3
      <4>5. a + b - e \in 0..LocalSize /\ a + b - e < BufferSize
        BY <1>2, <4>4
      <4> QED
        BY <4>4, <4>5
    <3>2. CASE ~(HasLine(Filled(n)) /\ Received + n > Position(Filled(n)))
      BY <1>1, <1>5, <2>5, <3>2
    <3> QED
      BY <3>1, <3>2
  <2>7. arrived' \in 0..Len(text)
    BY <1>2, <2>1, <2>2, <2>4
  <2>8. Received' \in 0..BufferSize
    BY <1>2, <2>1, <2>2, <2>3
  <2> QED
    BY <1>3, <1>4, <1>5, <2>1, <2>5, <2>6, <2>7, <2>8 DEF TypeOK
<1>13. CASE ReadFails
  BY <1>1, <1>3, <1>4, <1>5, <1>13 DEF ReadFails, callerVars, TypeOK
<1>14. CASE UNCHANGED vars
  BY <1>1, <1>4, <1>14 DEF vars, serverVars, callerVars, TypeOK
<1>15. CASE ReturnKept /\ pc' = "undefined"
  <2>1. Undefined
    BY <1>15 DEF ReturnKept
  <2> QED
    BY <1>8, <2>1
<1>16. ASSUME NEW n \in RecordSizes, Read(n), pc' = "undefined"
       PROVE  TypeOK' /\ LocalBufferSize' < BufferSize
  <2>1. Undefined
    BY <1>16 DEF Read
  <2> QED
    BY <1>8, <2>1
<1> QED
  BY <1>6, <1>7, <1>9, <1>10, <1>11, <1>12, <1>13, <1>14, <1>15, <1>16 DEF Next, Reads

-------------------------------------------------------------------------------
(* The first read of a call *)

\* What the operators that look into the text say of the buffer after a step.
LEMMA NextBuffer ==
    ASSUME text' = text
    PROVE  /\ HasLine(Buffer)' <=> HasLine(Buffer')
           /\ Position(Buffer)' = Position(Buffer')
           /\ Ends' = Ends /\ LinesFit' = LinesFit
<1>1. LineEnds(Buffer)' = LineEnds(Buffer')
  BY DEF LineEnds, Is
<1>2. Ends' = Ends
  BY DEF Ends
<1>3. LinesFit' = LinesFit
  BY <1>2 DEF LinesFit
<1> QED
  BY <1>1, <1>2, <1>3 DEF HasLine, Position

\* In a buffer that starts at origin an end of line is one of the text.
LEMMA GotFacts ==
    ASSUME TypeOK, origin \in Nat, 1 <= origin,
           NEW m \in 0..BufferSize, origin + m <= Len(text) + 1
    PROVE  /\ Got(m) \in [1..BufferSize -> 0..Len(text)]
           /\ \A i \in 1..m : Got(m)[i] = origin + i - 1 /\ Got(m)[i] # 0
           /\ \A i \in 1..BufferSize : i > m => Got(m)[i] = 0
           /\ \A i \in 2..m : Is(Got(m)[i - 1], "CR") /\ Is(Got(m)[i], "LF") <=> origin + i - 1 \in Ends
<1>1. BufferSize \in Nat /\ Len(text) \in Nat /\ m \in Nat /\ m <= BufferSize
  BY Sizes
<1>2. \A i \in 1..BufferSize : (IF i <= m THEN origin + i - 1 ELSE 0) \in 0..Len(text)
  BY <1>1
<1>3. Got(m) \in [1..BufferSize -> 0..Len(text)]
  BY <1>2 DEF Got
<1>4. \A i \in 1..m : Got(m)[i] = origin + i - 1 /\ origin + i - 1 # 0
  <2>1. \A i \in 1..m : i \in 1..BufferSize /\ i <= m /\ origin + i - 1 # 0
    BY <1>1
  <2> QED
    BY <2>1 DEF Got
<1>5. \A i \in 1..BufferSize : i > m => Got(m)[i] = 0
  <2>1. \A i \in 1..BufferSize : i > m => ~(i <= m)
    BY <1>1
  <2> QED
    BY <2>1 DEF Got
<1>6. ASSUME NEW i \in 2..m
      PROVE  Is(Got(m)[i - 1], "CR") /\ Is(Got(m)[i], "LF") <=> origin + i - 1 \in Ends
  <2>1. i - 1 \in 1..m /\ i \in 1..m
    BY <1>1
  <2>2. PICK f \in Nat : f = origin + i - 1
    <3>1. origin + i - 1 \in Nat
      BY <1>1
    <3> QED
      BY <3>1
  <2>3. f - 1 = origin + (i - 1) - 1 /\ f \in 2..Len(text) /\ f # 0 /\ f - 1 # 0
    BY <1>1, <2>2
  <2>4. Got(m)[i] = f /\ Got(m)[i - 1] = f - 1
    BY <1>4, <2>1, <2>2, <2>3
  <2> QED
    BY <2>2, <2>3, <2>4 DEF Is, Ends
<1> QED
  BY <1>3, <1>4, <1>5, <1>6

\* More bytes than a line has hold the end of one.
LEMMA GotLine ==
    ASSUME TypeOK, LinesFit, origin \in Nat, 1 <= origin,
           NEW m \in 0..BufferSize, origin + m <= Len(text) + 1, m > BufferSize - MaxRecord
    PROVE  HasLine(Got(m))
<1>1. BufferSize \in Nat /\ MaxRecord \in Nat /\ MaxRecord < BufferSize /\ Len(text) \in Nat
  BY Sizes
<1>2. PICK r \in Nat : r = BufferSize - MaxRecord
  BY <1>1
<1>3. origin \in 1..(Len(text) - r)
  BY <1>1, <1>2
<1>4. PICK e \in (origin + 1)..(origin + r) : e \in Ends
  BY <1>2, <1>3 DEF LinesFit
<1>5. PICK i \in 2..m : e = origin + i - 1
  <2>1. e - origin + 1 \in 2..m /\ e = origin + (e - origin + 1) - 1
    BY <1>1, <1>2
  <2> QED
    BY <2>1
<1>6. Is(Got(m)[i - 1], "CR") /\ Is(Got(m)[i], "LF")
  BY <1>4, <1>5, GotFacts
<1>7. \A j \in 1..(i - 2) : Got(m)[j] # 0
  <2>1. \A j \in 1..(i - 2) : j \in 1..m
    BY <1>1
  <2> QED
    BY <2>1, GotFacts
<1>8. i \in 2..Len(Got(m))
  <2>1. Len(Got(m)) = BufferSize
    BY <1>1, GotFacts, MemoryFacts
  <2> QED
    BY <1>1, <2>1
<1> QED
  BY <1>6, <1>7, <1>8 DEF HasLine, LineEnds

\* The first end of line in it is where the line of the text ends.
LEMMA GotPosition ==
    ASSUME TypeOK, origin \in Nat, 1 <= origin,
           NEW m \in 0..BufferSize, origin + m <= Len(text) + 1, HasLine(Got(m))
    PROVE  /\ Position(Got(m)) \in 2..m /\ origin + Position(Got(m)) - 1 \in Ends
           /\ \A f \in Ends : f > origin => f >= origin + Position(Got(m)) - 1
<1>1. BufferSize \in Nat /\ Len(text) \in Nat /\ m \in Nat /\ m <= BufferSize
  BY Sizes
<1>2. /\ Got(m) \in [1..BufferSize -> 0..Len(text)] /\ Len(Got(m)) = BufferSize
      /\ \A i \in 1..m : Got(m)[i] = origin + i - 1 /\ Got(m)[i] # 0
      /\ \A i \in 1..BufferSize : i > m => Got(m)[i] = 0
      /\ \A i \in 2..m : Is(Got(m)[i - 1], "CR") /\ Is(Got(m)[i], "LF") <=> origin + i - 1 \in Ends
  BY <1>1, GotFacts, MemoryFacts
<1>3. PICK e \in 2..BufferSize : e = Position(Got(m))
  BY <1>1, <1>2, PositionFacts
<1>4. /\ Is(Got(m)[e - 1], "CR") /\ Is(Got(m)[e], "LF") /\ Got(m)[e] # 0
      /\ \A i \in LineEnds(Got(m)) : e <= i
  <2>1. e \in 1..e
    BY <1>1
  <2> QED
    BY <1>1, <1>2, <1>3, <2>1, PositionFacts, ZenonT(40)
<1>5. e \in 2..m
  <2>1. e \in 1..BufferSize /\ ~(e > m)
    BY <1>1, <1>2, <1>4
  <2> QED
    BY <1>1, <2>1
<1>6. origin + e - 1 \in Ends
  BY <1>2, <1>4, <1>5
<1>7. ASSUME NEW f \in Ends, f > origin, ~(f >= origin + e - 1) PROVE FALSE
  <2>0. f \in Nat
    BY <1>1 DEF Ends
  <2>1. PICK i \in 2..m : f = origin + i - 1 /\ i < e
    <3>1. f - origin + 1 \in 2..m /\ f = origin + (f - origin + 1) - 1 /\ f - origin + 1 < e
      BY <1>1, <1>5, <1>7, <2>0
    <3> QED
      BY <3>1
  <2>2. Is(Got(m)[i - 1], "CR") /\ Is(Got(m)[i], "LF")
    BY <1>2, <1>7, <2>1
  <2>3. \A j \in 1..(i - 2) : j \in 1..m
    BY <1>1
  <2>4. i \in 2..Len(Got(m))
    BY <1>1, <1>2
  <2>5. i \in LineEnds(Got(m))
    BY <1>2, <2>2, <2>3, <2>4 DEF LineEnds
  <2> QED
    BY <1>1, <1>4, <2>1, <2>5
<1> QED
  BY <1>3, <1>5, <1>6, <1>7

\* What a first read has in its buffer after n more bytes.
LEMMA FreshFilled ==
    ASSUME IInv, fresh, pc = "reading", NEW n \in RecordSizes, Received + n <= BufferSize
    PROVE  Filled(n) = Got(Received + n)
<1>1. /\ TypeOK /\ arrived + 1 = origin + Received /\ Buffer = Got(Received)
  BY DEF IInv, FreshInv
<1>2. /\ BufferSize \in Nat /\ arrived \in Nat /\ Received \in Nat /\ n \in Nat
      /\ Received <= BufferSize /\ origin \in Nat
  <2>1. n \in 1..MaxRecord
    BY <1>1, FilledFacts
  <2>2. origin \in 0..(Len(text) + 1) /\ Received \in 0..BufferSize
    BY <1>1 DEF TypeOK
  <2> QED
    BY <1>1, <2>1, <2>2, Sizes
<1>3. PICK r \in Nat, a \in Nat, o \in Nat, k \in Nat :
        r = Received /\ a = arrived /\ o = origin /\ k = n
  BY <1>2
<1>4. a + 1 = o + r /\ r + k <= BufferSize
  BY <1>1, <1>3
<1>5. /\ Filled(n) \in [1..BufferSize -> 0..Len(text)]
      /\ \A i \in 1..BufferSize : i <= r \/ i > r + k => Filled(n)[i] = Buffer[i]
      /\ \A i \in 1..k : Filled(n)[r + i] = a + i
  BY <1>1, <1>3, FilledFacts DEF Memory
<1>6. ASSUME NEW i \in 1..BufferSize
      PROVE  Filled(n)[i] = IF i <= r + k THEN o + i - 1 ELSE 0
  <2>1. CASE i <= r
    <3>1. Filled(n)[i] = Buffer[i] /\ i <= r + k
      BY <1>5, <2>1
    <3>2. Buffer[i] = o + i - 1
      BY <1>1, <1>3, <2>1 DEF Got
    <3> QED
      BY <3>1, <3>2
  <2>2. CASE ~(i <= r) /\ i <= r + k
    <3>1. PICK j \in 1..k : i = r + j
      <4>1. i - r \in 1..k /\ i = r + (i - r)
        BY <2>2
      <4> QED
        BY <4>1
    <3>2. Filled(n)[i] = a + j
      BY <1>5, <3>1
    <3>3. a + j = o + i - 1
      BY <1>4, <3>1
    <3> QED
      BY <2>2, <3>2, <3>3
  <2>3. CASE ~(i <= r + k)
    <3>1. i > r + k /\ ~(i <= r)
      BY <2>3
    <3>2. Filled(n)[i] = Buffer[i]
      BY <1>5, <3>1
    <3>3. Buffer[i] = 0
      BY <1>1, <1>3, <3>1 DEF Got
    <3> QED
      BY <2>3, <3>2, <3>3
  <2> QED
    BY <2>1, <2>2, <2>3
<1>7. Filled(n) = [i \in 1..BufferSize |-> IF i <= r + k THEN o + i - 1 ELSE 0]
  BY <1>5, <1>6
<1> QED
  BY <1>3, <1>7 DEF Got

\* When lines fit in the buffer a first read stays in it.
LEMMA FreshInBounds ==
    ASSUME IInv, fresh, pc = "reading", LinesFit, NEW n \in RecordSizes
    PROVE  Received + n <= BufferSize /\ ~Unterminated(Filled(n))
<1>1. /\ TypeOK /\ arrived + 1 = origin + Received /\ Buffer = Got(Received) /\ ~HasLine(Buffer)
      /\ origin \in 1..(Len(text) + 1)
  BY DEF IInv, FreshInv
<1>2. /\ BufferSize \in Nat /\ MaxRecord \in Nat /\ 1 <= MaxRecord /\ MaxRecord < BufferSize
      /\ arrived \in Nat /\ Received \in 0..BufferSize /\ Received \in Nat /\ Len(text) \in Nat
      /\ arrived <= Len(text)
  <2>1. Received \in 0..BufferSize /\ arrived \in 0..Len(text)
    BY <1>1 DEF TypeOK
  <2> QED
    BY <1>1, <2>1, Sizes
<1>3. n \in 1..MaxRecord /\ arrived + n <= Len(text) /\ n \in Nat
  BY <1>2 DEF RecordSizes
<1>4. PICK r \in Nat, a \in Nat, o \in Nat, k \in Nat, b \in Nat, x \in Nat, t \in Nat :
        /\ r = Received /\ a = arrived /\ o = origin /\ k = n
        /\ b = BufferSize /\ x = MaxRecord /\ t = Len(text)
  <2>1. origin \in Nat
    BY <1>1, <1>2
  <2> QED
    BY <1>2, <1>3, <2>1
<1>5. /\ a + 1 = o + r /\ 1 <= o /\ r <= b /\ a <= t
      /\ 1 <= k /\ k <= x /\ x < b /\ a + k <= t
  BY <1>1, <1>2, <1>3, <1>4
<1>6. r <= b - x
  <2>1. SUFFICES ASSUME r > b - x PROVE FALSE
    BY <1>5
  <2>2. r \in 0..b /\ o + r <= t + 1
    BY <1>5
  <2>3. HasLine(Got(r))
    BY <1>1, <1>4, <1>5, <2>1, <2>2, GotLine
  <2> QED
    BY <1>1, <1>4, <2>3
<1>7. r + k <= b
  BY <1>5, <1>6
<1>8. Filled(n) = Got(r + k)
  BY <1>4, <1>7, FreshFilled
<1>9. r + k \in 0..b /\ o + (r + k) <= t + 1
  BY <1>5, <1>7
<1>10. ~Unterminated(Got(r + k))
  <2>1. SUFFICES ASSUME ~HasLine(Got(r + k)), \A i \in DOMAIN Got(r + k) : Got(r + k)[i] # 0
                 PROVE  FALSE
    BY DEF Unterminated
  <2>2. b \in 1..b
    BY <1>5
  <2>3. b \in DOMAIN Got(r + k)
    BY <1>4, <2>2 DEF Got
  <2>4. Got(r + k)[b] # 0
    BY <2>1, <2>3
  <2>5. ~(b > r + k)
    BY <1>1, <1>4, <1>5, <1>9, <2>2, <2>4, GotFacts
  <2>6. r + k > b - x
    BY <1>5, <2>5
  <2>7. HasLine(Got(r + k))
    BY <1>1, <1>4, <1>5, <1>9, <2>6, GotLine
  <2> QED
    BY <2>1, <2>7
<1> QED
  BY <1>4, <1>7, <1>8, <1>10

\* A first read that comes to the end of a line returns that line.
LEMMA FreshReturns ==
    ASSUME IInv, fresh, pc = "reading", NEW n \in RecordSizes,
           Received + n <= BufferSize, Spare(n), HasLine(Filled(n)),
           text' = text, origin' = origin
    PROVE  LineRead'
<1>1. TypeOK /\ arrived + 1 = origin + Received /\ origin \in 1..(Len(text) + 1)
  BY DEF IInv, FreshInv
<1>2. /\ BufferSize \in Nat /\ arrived \in Nat /\ Received \in Nat /\ Len(text) \in Nat
      /\ n \in Nat /\ arrived + n <= Len(text)
  BY <1>1, Sizes DEF RecordSizes
<1>3. PICK m \in Nat, o \in Nat : m = Received + n /\ o = origin
  BY <1>1, <1>2
<1>4. m \in 0..BufferSize /\ o + m <= Len(text) + 1 /\ 1 <= o
  <2>1. o + m = (arrived + 1) + n
    BY <1>1, <1>2, <1>3
  <2> QED
    BY <1>1, <1>2, <1>3, <2>1
<1>5. Filled(n) = Got(m)
  BY <1>3, FreshFilled
<1>6. PICK e \in 2..m : e = Position(Got(m))
  BY <1>1, <1>3, <1>4, <1>5, GotPosition
<1>7. o + e - 1 \in Ends /\ \A f \in Ends : f > o => f >= o + e - 1
  BY <1>1, <1>3, <1>4, <1>5, <1>6, GotPosition
<1>8. Buffer' \in [1..BufferSize -> 0..Len(text)] /\ \A i \in 1..e : Buffer'[i] = Got(m)[i]
  <2>1. Buffer' \in [1..BufferSize -> 0..Len(text)]
    BY <1>1, SpareFacts DEF Memory
  <2>2. CASE Received + n > Position(Filled(n))
    BY <1>1, <1>5, <1>6, <2>1, <2>2, SpareFacts
  <2>3. CASE ~(Received + n > Position(Filled(n)))
    BY <1>1, <1>5, <2>1, <2>3, SpareFacts
  <2> QED
    BY <2>1, <2>2, <2>3
<1>9. /\ \A i \in 1..m : Got(m)[i] = o + i - 1 /\ Got(m)[i] # 0
      /\ \A i \in 2..m : Is(Got(m)[i - 1], "CR") /\ Is(Got(m)[i], "LF") <=> o + i - 1 \in Ends
  BY <1>1, <1>3, <1>4, GotFacts
<1>10. \A i \in 1..e : Buffer'[i] = o + i - 1 /\ Buffer'[i] # 0
  <2>1. \A i \in 1..e : i \in 1..m
    BY <1>6
  <2> QED
    BY <1>8, <1>9, <2>1
<1>11. Is(Buffer'[e - 1], "CR") /\ Is(Buffer'[e], "LF")
  <2>1. e - 1 \in 1..e /\ e \in 1..e
    BY <1>6
  <2> QED
    BY <1>7, <1>8, <1>9, <2>1
<1>12. ASSUME NEW i \in 2..e, Is(Buffer'[i - 1], "CR"), Is(Buffer'[i], "LF") PROVE i = e
  <2>1. i - 1 \in 1..e /\ i \in 1..e /\ i \in 2..m
    BY <1>6
  <2>2. o + i - 1 \in Ends
    BY <1>8, <1>9, <1>12, <2>1
  <2>3. o + i - 1 > o
    BY <2>1
  <2>4. o + i - 1 >= o + e - 1
    BY <1>7, <2>2, <2>3
  <2> QED
    BY <2>1, <2>4
<1>13. e \in 2..BufferSize
  BY <1>2, <1>4
<1>14. HasLine(Buffer') /\ Position(Buffer') = e
  BY <1>2, <1>8, <1>10, <1>11, <1>12, <1>13, PositionIs
<1>15. HasLine(Buffer)' /\ Position(Buffer)' = e /\ Ends' = Ends
  BY <1>14, NextBuffer
<1> QED
  BY <1>3, <1>7, <1>10, <1>13, <1>15 DEF LineRead

\* Every step keeps what a call's first read has in its buffer.
LEMMA FreshStep ==
    ASSUME IInv, [Next]_vars
    PROVE  FreshInv'
<1>1. TypeOK /\ FreshInv
  BY DEF IInv
<1>2. text' = text
  BY DEF Next, NewCall, NextRead, ReturnKept, TakePartial, StartEmpty, Reads, Read, ReadFails,
         Undefined, serverVars, vars
<1>3. SUFFICES ASSUME fresh' PROVE FreshInv'
  BY DEF FreshInv
<1>4. CASE NewCall
  <2>1. arrived + 1 \in 1..(Len(text) + 1)
    BY <1>1, Sizes DEF TypeOK
  <2>2. /\ pc' = "entered" /\ Buffer' = Zeros(BufferSize) /\ LocalBufferSize' = 0
        /\ origin' = arrived + 1 /\ arrived' = arrived
    BY <1>4 DEF NewCall
  <2>3. Zeros(BufferSize) = Got(0)'
    BY DEF Zeros, Got
  <2> QED
    BY <1>2, <2>1, <2>2, <2>3 DEF FreshInv
<1>5. CASE ~NewCall
  <2>1. fresh /\ origin' = origin
    BY <1>3, <1>5 DEF Next, NextRead, ReturnKept, TakePartial, StartEmpty, Reads, Read, ReadFails,
         Undefined, callerVars, vars
  <2>2. CASE ReturnKept \/ TakePartial
    <3>1. pc = "entered" /\ LocalBufferSize > 0 /\ LocalBufferSize = 0
      BY <1>1, <2>1, <2>2 DEF ReturnKept, TakePartial, FreshInv
    <3> QED
      BY <3>1
  <2>3. CASE StartEmpty
    <3>1. /\ pc = "entered" /\ pc' = "reading" /\ LocalBufferSize' = LocalBufferSize /\ Received' = 0
          /\ Buffer' = Buffer /\ arrived' = arrived
      BY <2>3 DEF StartEmpty
    <3>2. arrived + 1 = origin /\ Buffer = Got(0) /\ LocalBufferSize = 0
          /\ origin \in 1..(Len(text) + 1)
      BY <1>1, <2>1, <3>1 DEF FreshInv
    <3>3. origin + 0 = origin /\ 0 \in 0..BufferSize /\ origin + 0 <= Len(text) + 1
          /\ origin \in Nat /\ 1 <= origin
      BY <1>1, <3>2, Sizes
    <3>4. ~HasLine(Got(0))
      <4>1. ASSUME HasLine(Got(0)) PROVE FALSE
        <5>1. Position(Got(0)) \in 2..0
          BY <1>1, <3>3, <4>1, GotPosition
        <5> QED
          BY <5>1
      <4> QED
        BY <4>1
    <3>5. ~HasLine(Buffer)'
      BY <1>2, <3>1, <3>2, <3>4, NextBuffer
    <3>6. Buffer' = Got(Received)'
      BY <2>1, <3>1, <3>2 DEF Got
    <3>7. arrived' + 1 = origin' + Received'
      BY <2>1, <3>1, <3>2, <3>3
    <3> QED
      BY <1>2, <2>1, <3>1, <3>2, <3>5, <3>6, <3>7 DEF FreshInv
  <2>4. ASSUME NEW n \in RecordSizes, Read(n) PROVE FreshInv'
    <3>1. /\ pc = "reading" /\ origin \in 1..(Len(text) + 1) /\ LocalBufferSize = 0
          /\ arrived + 1 = origin + Received
      BY <1>1, <2>1, <2>4 DEF Read, FreshInv
    <3>2. CASE Undefined
      <4>1. ~LinesFit
        <5>1. SUFFICES ASSUME LinesFit PROVE FALSE
          OBVIOUS
        <5>2. Received + n <= BufferSize /\ ~Unterminated(Filled(n))
          BY <2>1, <3>1, <5>1, FreshInBounds
        <5>3. Received \in Nat /\ n \in Nat /\ BufferSize \in Nat
          BY <1>1, Sizes DEF RecordSizes
        <5>4. pc' # "undefined"
          BY <2>4, <5>2, <5>3 DEF Read
        <5> QED
          BY <3>2, <5>4 DEF Undefined
      <4>2. pc' = "undefined" /\ ~LinesFit'
        BY <1>2, <3>2, <4>1, NextBuffer DEF Undefined
      <4> QED
        BY <1>2, <2>1, <3>1, <4>2 DEF FreshInv
    <3>3. CASE ~Undefined
      <4>1. /\ ~(Received + n > BufferSize) /\ Spare(n)
            /\ Received' = Received + n /\ arrived' = arrived + n
            /\ pc' = IF HasLine(Filled(n)) THEN "idle" ELSE "reading"
        BY <2>4, <3>3 DEF Read
      <4>2. Received \in Nat /\ n \in Nat /\ BufferSize \in Nat /\ arrived \in Nat /\ origin \in Nat
        BY <1>1, <3>1, Sizes DEF RecordSizes
      <4>3. Received + n <= BufferSize
        BY <4>1, <4>2
      <4>4. CASE HasLine(Filled(n))
        <5>1. LineRead'
          BY <1>2, <2>1, <3>1, <4>1, <4>3, <4>4, FreshReturns
        <5> QED
          BY <1>2, <2>1, <3>1, <4>1, <4>4, <5>1 DEF FreshInv
      <4>5. CASE ~HasLine(Filled(n))
        <5>1. Buffer' = Filled(n) /\ LocalBufferSize' = LocalBufferSize
          BY <1>1, <4>1, <4>3, <4>5, SpareFacts
        <5>2. Buffer' = Got(Received)'
          BY <2>1, <3>1, <4>1, <4>3, <5>1, FreshFilled DEF Got
        <5>3. ~HasLine(Buffer)'
          BY <1>2, <4>5, <5>1, NextBuffer
        <5>4. arrived' + 1 = origin' + Received'
          <6>1. (arrived + n) + 1 = origin + (Received + n)
            BY <3>1, <4>2
          <6> QED
            BY <2>1, <4>1, <6>1
        <5> QED
          BY <1>2, <2>1, <3>1, <4>1, <4>5, <5>1, <5>2, <5>3, <5>4 DEF FreshInv
      <4> QED
        BY <4>4, <4>5
    <3> QED
      BY <3>2, <3>3
  <2>5. CASE ReadFails
    BY <1>1, <1>2, <2>1, <2>5 DEF ReadFails, FreshInv
  <2>6. CASE UNCHANGED vars
    <3>1. LineRead => LineRead'
      BY <1>2, <2>6, NextBuffer DEF LineRead, vars, callerVars
    <3>2. HasLine(Buffer)' <=> HasLine(Buffer)
      BY <1>2, <2>6, NextBuffer DEF vars
    <3>3. ASSUME NEW m PROVE Got(m)' = Got(m)
      BY <2>1 DEF Got
    <3>4. LinesFit' = LinesFit
      BY <1>2, NextBuffer
    <3>5. Got(Received)' = Got(Received) /\ Got(0)' = Got(0)
      BY <2>1, <2>6 DEF Got, vars
    <3>6. /\ pc' = pc /\ LocalBufferSize' = LocalBufferSize /\ arrived' = arrived /\ Buffer' = Buffer
          /\ Received' = Received
      BY <2>6 DEF vars
    <3> QED
      BY <1>1, <1>2, <2>1, <3>1, <3>2, <3>4, <3>5, <3>6 DEF FreshInv
  <2>7. CASE NextRead
    BY <1>3, <2>7 DEF NextRead
  <2> QED
    BY <1>5, <2>2, <2>3, <2>4, <2>5, <2>6, <2>7 DEF Next, Reads
<1> QED
  BY <1>4, <1>5

-------------------------------------------------------------------------------
(* Records that end with lines *)

\* A line of the text that ends at a place has CR before it.
LEMMA LineEndsText ==
    ASSUME TypeOK, NEW place \in 1..Len(text), text[place] = "LF"
    PROVE  place \in 2..Len(text) /\ text[place - 1] = "CR" /\ text[place - 1] # "LF"
<1>1. place > 1 /\ text[place - 1] = "CR"
  BY Sizes
<1>2. Len(text) \in Nat
  BY Sizes
<1> QED
  BY <1>1, <1>2

\* Memory that starts with k bytes of the text behind place from, up to the end
\* of a line, has the end of a line in them.
LEMMA WholeLineThere ==
    ASSUME TypeOK, NEW size \in Nat, NEW memory \in [1..size -> 0..Len(text)],
           NEW from \in Nat, NEW k \in 1..size, from + k <= Len(text),
           \A i \in 1..k : memory[i] = from + i,
           Boundary(from), Boundary(from + k)
    PROVE  HasLine(memory) /\ Position(memory) \in 2..k /\ Boundary(from + Position(memory))
<1>1. Len(text) \in Nat /\ k \in Nat /\ from + k \in 1..Len(text) /\ from + k # 0
  BY Sizes
<1>2. text[from + k] = "LF"
  BY <1>1 DEF Boundary
<1>3. from + k \in 2..Len(text) /\ text[from + k - 1] = "CR" /\ text[from + k - 1] # "LF"
  BY <1>1, <1>2, LineEndsText
<1>4. k \in 2..size
  <2>1. SUFFICES ASSUME k = 1 PROVE FALSE
    BY <1>1
  <2>2. from # 0 /\ from + k - 1 = from
    BY <1>1, <1>3, <2>1
  <2> QED
    BY <1>3, <2>2 DEF Boundary
<1>5. Is(memory[k - 1], "CR") /\ Is(memory[k], "LF")
  <2>1. k - 1 \in 1..k /\ k \in 1..k /\ from + (k - 1) = from + k - 1 /\ from + (k - 1) # 0
    BY <1>1, <1>4
  <2>2. memory[k - 1] = from + (k - 1) /\ memory[k] = from + k
    BY <2>1
  <2> QED
    BY <1>1, <1>2, <1>3, <2>1, <2>2 DEF Is
<1>6. \A j \in 1..(k - 2) : memory[j] # 0
  <2>1. ASSUME NEW j \in 1..(k - 2) PROVE memory[j] # 0
    <3>1. j \in 1..k /\ from + j # 0
      BY <1>1
    <3> QED
      BY <3>1
  <2> QED
    BY <2>1
<1>7. k \in LineEnds(memory)
  <2>1. Len(memory) = size
    BY MemoryFacts
  <2> QED
    BY <1>4, <1>5, <1>6, <2>1 DEF LineEnds
<1>8. HasLine(memory)
  BY <1>7 DEF HasLine
<1>9. /\ Position(memory) \in 2..size /\ Is(memory[Position(memory)], "LF")
      /\ \A e \in LineEnds(memory) : Position(memory) <= e
  BY <1>8, PositionFacts
<1>10. PICK p \in 2..size : p = Position(memory)
  BY <1>9
<1>11. p <= k /\ Is(memory[p], "LF")
  BY <1>7, <1>9, <1>10
<1>12. p \in 2..k /\ p \in 1..k
  BY <1>1, <1>11
<1>13. text[from + p] = "LF"
  BY <1>11, <1>12 DEF Is
<1> QED
  BY <1>8, <1>10, <1>12, <1>13 DEF Boundary

\* Every step keeps whole lines whole.
LEMMA WholeStep ==
    ASSUME IInv, [Next]_vars
    PROVE  WholeInv'
<1>1. TypeOK /\ WholeInv /\ LocalBufferSize < BufferSize
  BY DEF IInv
<1>2. text' = text /\ wholeLines' = wholeLines
  BY DEF Next, NewCall, NextRead, ReturnKept, TakePartial, StartEmpty, Reads, Read, ReadFails,
         Undefined, serverVars, vars
<1>3. SUFFICES ASSUME wholeLines PROVE WholeInv'
  BY <1>2 DEF WholeInv
<1>4. /\ Boundary(arrived) /\ LocalBufferSize <= arrived /\ Boundary(arrived - LocalBufferSize)
      /\ \A i \in 1..LocalBufferSize : LocalBuffer[i] = arrived - LocalBufferSize + i
      /\ pc = "reading" => LocalBufferSize = 0 /\ Received = 0
      /\ pc # "undefined"
  BY <1>1, <1>3 DEF WholeInv
<1>5. /\ Len(text) \in Nat /\ BufferSize \in Nat /\ LocalSize \in Nat /\ MaxRecord \in Nat
      /\ arrived \in Nat /\ LocalBufferSize \in Nat /\ Received \in Nat /\ arrived <= Len(text)
      /\ MaxRecord < BufferSize /\ BufferSize < LocalSize
      /\ Buffer \in [1..BufferSize -> 0..Len(text)]
      /\ LocalBuffer \in [1..LocalSize -> 0..Len(text)]
      /\ LocalBufferSize <= LocalSize
  BY <1>1, Sizes DEF TypeOK, Memory
<1>6. ASSUME NEW place PROVE Boundary(place)' <=> Boundary(place)
  BY <1>2 DEF Boundary
\* What LocalBuffer holds is whole lines.
<1>7. ASSUME LocalBufferSize > 0
      PROVE  /\ HasLine(LocalBuffer) /\ Position(LocalBuffer) \in 2..LocalBufferSize
             /\ Boundary(arrived - LocalBufferSize + Position(LocalBuffer))
  <2>1. PICK f \in Nat, k \in Nat : f = arrived - LocalBufferSize /\ k = LocalBufferSize
    <3>1. arrived - LocalBufferSize \in Nat
      BY <1>4, <1>5
    <3> QED
      BY <1>5, <3>1
  <2>2. f + k = arrived /\ k \in 1..LocalSize
    BY <1>5, <1>7, <2>1
  <2>3. /\ f + k <= Len(text) /\ Boundary(f) /\ Boundary(f + k)
        /\ \A i \in 1..k : LocalBuffer[i] = f + i
    BY <1>4, <1>5, <2>1, <2>2
  <2>4. HasLine(LocalBuffer) /\ Position(LocalBuffer) \in 2..k /\ Boundary(f + Position(LocalBuffer))
    BY <1>1, <1>5, <2>2, <2>3, WholeLineThere
  <2> QED
    BY <2>1, <2>4
<1>8. CASE NewCall
  <2>1. /\ LocalBufferSize' = 0 /\ arrived' = arrived /\ pc' = "entered"
        /\ 0 <= arrived /\ arrived - 0 = arrived
    BY <1>5, <1>8 DEF NewCall
  <2> QED
    BY <1>2, <1>4, <1>6, <2>1 DEF WholeInv, Boundary
<1>9. CASE NextRead
  BY <1>2, <1>4, <1>9 DEF NextRead, WholeInv, Boundary
<1>10. CASE ReturnKept
  <2>1. LocalBufferSize > 0
    BY <1>10 DEF ReturnKept
  <2>2. PICK b \in 2..LocalBufferSize : b = Position(LocalBuffer)
    BY <1>7, <2>1
  <2>3. pc' # "undefined"
    <3>1. ~(b > LocalBufferSize \/ b >= BufferSize)
      BY <1>1, <1>5, <2>2, SMTT(30)
    <3> QED
      BY <1>10, <2>2, <3>1 DEF ReturnKept
  <2>4. /\ LocalBufferSize' = LocalBufferSize - b /\ pc' = "idle"
        /\ \A i \in 1..(LocalBufferSize - b) : LocalBuffer'[i] = LocalBuffer[b + i]
    BY <1>1, <1>10, <2>2, <2>3, KeptFacts
  <2>5. arrived' = arrived
    BY <1>10 DEF ReturnKept, Undefined
  <2>6. PICK a \in Nat, k \in Nat : a = arrived /\ k = LocalBufferSize
    BY <1>5
  <2>7. k <= a /\ b \in 2..k /\ k - b <= a /\ a - (k - b) = a - k + b
    BY <1>4, <2>2, <2>6
  <2>8. ASSUME NEW i \in 1..(k - b) PROVE LocalBuffer'[i] = a - (k - b) + i
    <3>1. b + i \in 1..k /\ a - k + (b + i) = a - (k - b) + i
      BY <2>7
    <3>2. LocalBuffer'[i] = LocalBuffer[b + i]
      BY <2>4, <2>6
    <3>3. LocalBuffer[b + i] = a - k + (b + i)
      BY <1>4, <2>6, <3>1
    <3> QED
      BY <3>1, <3>2, <3>3
  <2>9. Boundary(a - (k - b))
    BY <1>7, <2>1, <2>2, <2>6, <2>7
  <2> QED
    BY <1>2, <1>4, <2>4, <2>5, <2>6, <2>7, <2>8, <2>9 DEF WholeInv, Boundary
<1>11. CASE TakePartial
  BY <1>7, <1>11 DEF TakePartial
<1>12. CASE StartEmpty
  BY <1>2, <1>4, <1>12 DEF StartEmpty, WholeInv, Boundary
<1>13. ASSUME NEW n \in RecordSizes, Read(n) PROVE WholeInv'
  <2>1. LocalBufferSize = 0 /\ Received = 0 /\ pc = "reading"
    BY <1>4, <1>13 DEF Read
  <2>2. n \in 1..MaxRecord /\ n \in Nat /\ arrived + n <= Len(text) /\ text[arrived + n] = "LF"
    BY <1>3, <1>5 DEF RecordSizes
  <2>3. Received + n = n /\ n <= BufferSize /\ n \in 1..BufferSize
    BY <1>5, <2>1, <2>2
  <2>4. Filled(n) \in [1..BufferSize -> 0..Len(text)] /\ \A i \in 1..n : Filled(n)[i] = arrived + i
    <3>1. \A i \in 1..n : Filled(n)[Received + i] = arrived + i
      BY <1>1, <2>3, FilledFacts
    <3>2. \A i \in 1..n : Received + i = i
      BY <2>1
    <3> QED
      BY <1>1, <2>3, <3>1, <3>2, FilledFacts DEF Memory
  <2>5. /\ HasLine(Filled(n)) /\ Position(Filled(n)) \in 2..n
        /\ Boundary(arrived + Position(Filled(n))) /\ Boundary(arrived + n)
    <3>1. Boundary(arrived + n)
      BY <2>2 DEF Boundary
    <3> QED
      BY <1>1, <1>4, <1>5, <2>2, <2>3, <2>4, <3>1, WholeLineThere
  <2>6. PICK e \in 2..n : e = Position(Filled(n))
    BY <2>5
  <2>7. ~Unterminated(Filled(n)) /\ ~(Received + n > BufferSize)
    BY <1>5, <2>2, <2>3, <2>5 DEF Unterminated
  <2>8. Spare(n) /\ arrived' = arrived + n /\ pc' = "idle"
    BY <1>13, <2>5, <2>7 DEF Read
  <2>9. PICK a \in Nat : a = arrived
    BY <1>5
  <2>10. CASE n > e
    <3>1. /\ LocalBufferSize' = n - e
          /\ \A i \in 1..(n - e) : LocalBuffer'[i] = Filled(n)[e + i]
      <4>1. Received + n > Position(Filled(n)) /\ Received + n <= BufferSize
        BY <2>3, <2>6, <2>10
      <4>2. /\ LocalBufferSize' = Received + n - Position(Filled(n))
            /\ \A i \in 1..(Received + n - Position(Filled(n))) :
                    LocalBuffer'[i] = Filled(n)[Position(Filled(n)) + i]
        BY <1>1, <2>5, <2>8, <4>1, SpareFacts
      <4>3. Received + n - Position(Filled(n)) = n - e
        BY <2>1, <2>2, <2>6
      <4> QED
        BY <2>6, <4>2, <4>3
    <3>2. n - e <= a + n /\ (a + n) - (n - e) = a + e
      BY <2>2, <2>10
    <3>3. ASSUME NEW i \in 1..(n - e) PROVE LocalBuffer'[i] = (a + n) - (n - e) + i
      <4>1. e + i \in 1..n /\ a + (e + i) = (a + n) - (n - e) + i
        BY <2>2, <2>10
      <4>2. LocalBuffer'[i] = a + (e + i)
        BY <2>4, <2>9, <3>1, <4>1
      <4> QED
        BY <4>1, <4>2
    <3>4. Boundary(a + n) /\ Boundary((a + n) - (n - e))
      BY <2>5, <2>6, <2>9, <3>2
    <3> QED
      BY <1>2, <2>8, <2>9, <3>1, <3>2, <3>3, <3>4 DEF WholeInv, Boundary
  <2>11. CASE ~(n > e)
    <3>1. LocalBufferSize' = 0
      BY <1>1, <2>1, <2>3, <2>6, <2>8, <2>11, SpareFacts
    <3>2. 0 <= a + n /\ (a + n) - 0 = a + n
      BY <2>2
    <3> QED
      BY <1>2, <2>5, <2>8, <2>9, <3>1, <3>2 DEF WholeInv, Boundary
  <2> QED
    BY <2>10, <2>11
<1>14. CASE ReadFails
  BY <1>2, <1>4, <1>14 DEF ReadFails, WholeInv, Boundary
<1>15. CASE UNCHANGED vars
  BY <1>2, <1>4, <1>15 DEF vars, WholeInv, Boundary
<1> QED
  BY <1>8, <1>9, <1>10, <1>11, <1>12, <1>13, <1>14, <1>15 DEF Next, Reads

-------------------------------------------------------------------------------
(* Lines that are returned *)

\* Memory starts with the text from a place to the end of the line there.
LineAt(size, memory, place, e) ==
    /\ size \in Nat /\ memory \in [1..size -> 0..Len(text)] /\ place \in Nat \ {0} /\ e \in 2..size
    /\ \A i \in 1..e : memory[i] = place + i - 1
    /\ place + e - 1 \in Ends
    /\ \A f \in Ends : f >= place => f >= place + e - 1

\* That part of it is that line.
LEMMA LineFacts ==
    ASSUME TypeOK, NEW size, NEW memory, NEW place, NEW e, LineAt(size, memory, place, e)
    PROVE  SubSeq(memory, 1, e) = LineFrom(place)
<1>0. /\ size \in Nat /\ memory \in [1..size -> 0..Len(text)] /\ place \in Nat /\ e \in 2..size
      /\ \A i \in 1..e : memory[i] = place + i - 1
      /\ place + e - 1 \in Ends
      /\ \A f \in Ends : f >= place => f >= place + e - 1
  BY DEF LineAt
<1>1. Ends \subseteq Nat /\ place + e - 1 >= place
  BY <1>0, Sizes, SMTT(30) DEF Ends
<1>2. PICK P : P = {f \in Ends : f >= place}
  OBVIOUS
<1>3. P \subseteq Nat /\ place + e - 1 \in P /\ \A f \in P : f >= place + e - 1
  BY <1>0, <1>1, <1>2
<1>4. Min(P) \in P /\ \A f \in P : Min(P) <= f
  BY <1>3, MinFacts
<1>5. PICK g \in Nat : g = Min(P) /\ g >= place + e - 1 /\ g <= place + e - 1
  BY <1>3, <1>4
<1>6. g = place + e - 1
  BY <1>0, <1>5
<1>7. g - place + 1 = e
  BY <1>0, <1>6
<1>8. LineFrom(place) = [i \in 1..e |-> place + i - 1]
  BY <1>2, <1>5, <1>7 DEF LineFrom
<1>9. memory \in Seq(0..Len(text)) /\ Len(memory) = size
  BY <1>0, MemoryFacts
<1>10. e \in Nat /\ 0 + e <= Len(memory) /\ 0 + 1 = 1 /\ 0 + e = e /\ \A i \in 1..e : 0 + i = i
  BY <1>0, <1>9
<1>11. /\ SubSeq(memory, 0 + 1, 0 + e) \in Seq(0..Len(text))
       /\ Len(SubSeq(memory, 0 + 1, 0 + e)) = e
       /\ \A i \in 1..e : SubSeq(memory, 0 + 1, 0 + e)[i] = memory[0 + i]
  BY <1>9, <1>10, PartFacts
<1>12. /\ SubSeq(memory, 1, e) \in Seq(0..Len(text)) /\ Len(SubSeq(memory, 1, e)) = e
       /\ \A i \in 1..e : SubSeq(memory, 1, e)[i] = place + i - 1
  BY <1>0, <1>10, <1>11
<1>13. SubSeq(memory, 1, e) = [i \in 1..e |-> SubSeq(memory, 1, e)[i]]
  BY <1>12
<1> QED
  BY <1>8, <1>12, <1>13

-------------------------------------------------------------------------------
(* The queue of lines *)

\* Those in the set from a place on.
From(s, set, f) ==
    /\ f \in [1..(Len(s) + 1) -> Seq(Nat)]
    /\ f[Len(s) + 1] = <<>>
    /\ \A i \in 1..Len(s) : f[i] = (IF s[i] \in set THEN <<s[i]>> ELSE <<>>) \o f[i + 1]
    /\ Only(s, set) = f[1]

\* Only is such a function's value at the first place.
LEMMA OnlyFrom ==
    ASSUME NEW set, NEW s \in Seq(Nat)
    PROVE  \E f : From(s, set, f)
<1>1. Len(s) \in Nat
  OBVIOUS
<1> DEFINE last == Len(s) + 1
           D == 1..last
           V == Seq(Nat)
           base == {last}
           given == [i \in D |-> <<>>]
           next == [i \in D |-> IF i > Len(s) THEN i ELSE i + 1]
           step == [i \in D |-> [v \in V |-> IF i <= Len(s) /\ s[i] \in set THEN <<s[i]>> \o v ELSE v]]
           Body(f, i) == CASE i > Len(s)                   -> <<>>
                           [] i <= Len(s) /\ s[i] \in set -> <<s[i]>> \o f[i + 1]
                           [] OTHER                        -> f[i + 1]
           Choice == CHOOSE f : f = [i \in D |-> Body(f, i)]
<1>2. \E f \in [D -> V] : f = [i \in D |-> Body(f, i)]
  <2>1. given \in [D -> V]
    OBVIOUS
  <2>2. next \in [D -> D] /\ \A i \in D : i \in base \/ next[i] > i
    BY <1>1
  <2>3. step \in [D -> [V -> V]]
    <3>1. ASSUME NEW i \in D, NEW v \in V, i <= Len(s) PROVE <<s[i]>> \o v \in V
      <4>1. i \in 1..Len(s)
        BY <1>1, <3>1
      <4>2. s[i] \in Nat
        BY <4>1, ElementOfSeq
      <4> QED
        BY <4>2
    <3> QED
      BY <3>1
  <2>4. 1 \in Nat /\ last \in Nat
    BY <1>1
  <2>5. ASSUME NEW i \in D, NEW f \in [D -> V]
        PROVE  (IF i \in base THEN given[i] ELSE step[i][f[next[i]]]) = Body(f, i)
    <3>1. CASE i > Len(s)
      BY <1>1, <3>1
    <3>2. CASE ~(i > Len(s))
      <4>1. i \notin base /\ next[i] = i + 1 /\ i <= Len(s)
        BY <1>1, <3>2
      <4>2. f[next[i]] \in V
        <5> HIDE DEF V, next
        <5> QED
          BY <2>2
      <4> QED
        BY <3>2, <4>1, <4>2
    <3> QED
      BY <3>1, <3>2
  <2> HIDE DEF base, given, next, step, Body, last, V
  <2>6. PICK f \in [D -> V] : \A i \in D : f[i] = IF i \in base THEN given[i] ELSE step[i][f[next[i]]]
    <3>1. Recursion(1, last, V, base, given, next, step)
      BY <2>1, <2>2, <2>3, <2>4 DEF Recursion
    <3> QED
      BY <3>1, RecursiveFunction
  <2>7. f = [i \in D |-> Body(f, i)]
    BY <2>5, <2>6
  <2> QED
    BY <2>7
<1>3. Only(s, set) = Choice[1]
  BY DEF Only
<1>4. Choice = [i \in D |-> Body(Choice, i)]
  BY <1>2
<1> HIDE DEF Choice
<1>5. \A i \in D : Choice[i] = Body(Choice, i)
  BY <1>4
<1>6. \A i \in D : Choice[i] \in V
  <2> DEFINE T == {k \in Nat : \E i \in D : k = last - i /\ Choice[i] \notin V}
  <2>1. SUFFICES ASSUME NEW i \in D, Choice[i] \notin V PROVE FALSE
    OBVIOUS
  <2>2. last - i \in T
    BY <1>1, <2>1
  <2>3. T \subseteq Nat /\ T # {}
    BY <2>2
  <2>4. PICK k \in T : \A j \in T : k <= j
    BY <2>3, LeastNumber
  <2>5. PICK r \in D : k = last - r /\ Choice[r] \notin V
    OBVIOUS
  <2>6. CASE r > Len(s)
    <3>1. Choice[r] = <<>>
      <4>1. ~(r <= Len(s))
        BY <1>1, <2>6
      <4>2. Choice[r] = Body(Choice, r)
        <5> HIDE DEF Body
        <5> QED
          BY <1>5
      <4> QED
        BY <2>6, <4>1, <4>2
    <3>2. <<>> \in V
      OBVIOUS
    <3> QED
      BY <2>5, <3>1, <3>2
  <2>7. CASE ~(r > Len(s))
    <3>1. r + 1 \in D /\ r \in 1..Len(s) /\ r <= Len(s) /\ last - (r + 1) \in Nat
          /\ ~(k <= last - (r + 1))
      BY <1>1, <2>5, <2>7
    <3>2. Choice[r + 1] \in V
      BY <2>4, <3>1
    <3>3. s[r] \in Nat
      BY <3>1, ElementOfSeq
    <3>4. Choice[r] = IF s[r] \in set THEN <<s[r]>> \o Choice[r + 1] ELSE Choice[r + 1]
      BY <1>5, <2>7, <3>1
    <3> QED
      BY <2>5, <3>2, <3>3, <3>4
  <2> QED
    BY <2>6, <2>7
<1>7. Choice \in [D -> V]
  BY <1>4, <1>6
<1>8. Choice[last] = <<>>
  <2>1. last \in D /\ last > Len(s) /\ ~(last <= Len(s))
    BY <1>1
  <2>2. Choice[last] = Body(Choice, last)
    BY <1>5, <2>1
  <2> HIDE DEF last
  <2> QED
    BY <2>1, <2>2
<1>9. ASSUME NEW i \in 1..Len(s)
      PROVE  Choice[i] = (IF s[i] \in set THEN <<s[i]>> ELSE <<>>) \o Choice[i + 1]
  <2>1. i \in D /\ i + 1 \in D /\ ~(i > Len(s)) /\ i <= Len(s)
    BY <1>1
  <2>2. Choice[i + 1] \in Seq(Nat)
    BY <1>6, <2>1
  <2>3. Choice[i] = IF s[i] \in set THEN <<s[i]>> \o Choice[i + 1] ELSE Choice[i + 1]
    BY <1>5, <2>1
  <2> QED
    BY <2>2, <2>3, ConcatEmptySeq
<1> QED
  BY <1>3, <1>7, <1>8, <1>9 DEF From

\* Concatenation is associative.
LEMMA ThreeConcat ==
    ASSUME NEW s \in Seq(Nat), NEW t \in Seq(Nat), NEW u \in Seq(Nat)
    PROVE  (s \o t) \o u = s \o (t \o u)
BY SMTT(30)

\* Of two sequences one after the other.
LEMMA OnlyConcat ==
    ASSUME NEW set, NEW s \in Seq(Nat), NEW t \in Seq(Nat)
    PROVE  Only(s \o t, set) = Only(s, set) \o Only(t, set)
<1>1. PICK f : From(s, set, f)
  BY OnlyFrom
<1>2. PICK g : From(t, set, g)
  BY OnlyFrom
<1>3. s \o t \in Seq(Nat) /\ Len(s \o t) = Len(s) + Len(t)
  OBVIOUS
<1>4. PICK h : From(s \o t, set, h)
  BY <1>3, OnlyFrom
<1>5. PICK m \in Nat, n \in Nat : m = Len(s) /\ n = Len(t)
  OBVIOUS
<1>6. /\ f \in [1..(m + 1) -> Seq(Nat)] /\ f[m + 1] = <<>> /\ Only(s, set) = f[1]
      /\ \A i \in 1..m : f[i] = (IF s[i] \in set THEN <<s[i]>> ELSE <<>>) \o f[i + 1]
  BY <1>1, <1>5 DEF From
<1>7. /\ g \in [1..(n + 1) -> Seq(Nat)] /\ g[n + 1] = <<>> /\ Only(t, set) = g[1]
      /\ \A i \in 1..n : g[i] = (IF t[i] \in set THEN <<t[i]>> ELSE <<>>) \o g[i + 1]
  BY <1>2, <1>5 DEF From
<1>8. /\ h \in [1..(m + n + 1) -> Seq(Nat)] /\ h[m + n + 1] = <<>> /\ Only(s \o t, set) = h[1]
      /\ \A i \in 1..(m + n) :
            h[i] = (IF (s \o t)[i] \in set THEN <<(s \o t)[i]>> ELSE <<>>) \o h[i + 1]
  BY <1>3, <1>4, <1>5 DEF From
<1>9. \A i \in 1..m : (s \o t)[i] = s[i] /\ s[i] \in Nat
  BY <1>5, ElementOfSeq
<1>10. \A i \in 1..n : (s \o t)[m + i] = t[i]
  BY <1>5
\* In the second they are those of the second.
<1>11. \A j \in 1..(n + 1) : h[m + j] = g[j]
  <2> DEFINE T == {k \in Nat : \E j \in 1..(n + 1) : k = n + 1 - j /\ h[m + j] # g[j]}
  <2>1. SUFFICES ASSUME NEW j \in 1..(n + 1), h[m + j] # g[j] PROVE FALSE
    OBVIOUS
  <2>2. n + 1 - j \in T
    BY <2>1
  <2>3. T \subseteq Nat /\ T # {}
    BY <2>2
  <2>4. PICK k \in T : \A l \in T : k <= l
    BY <2>3, LeastNumber
  <2>5. PICK r \in 1..(n + 1) : k = n + 1 - r /\ h[m + r] # g[r]
    OBVIOUS
  <2>6. r # n + 1
    <3>1. m + (n + 1) = m + n + 1
      OBVIOUS
    <3> QED
      BY <1>7, <1>8, <2>5, <3>1
  <2>7. /\ r \in 1..n /\ r + 1 \in 1..(n + 1) /\ m + r \in 1..(m + n) /\ m + (r + 1) = (m + r) + 1
        /\ n + 1 - (r + 1) \in Nat /\ ~(k <= n + 1 - (r + 1))
    BY <2>5, <2>6
  <2>8. h[m + (r + 1)] = g[r + 1]
    BY <2>4, <2>7
  <2>9. h[m + r] = (IF t[r] \in set THEN <<t[r]>> ELSE <<>>) \o h[m + (r + 1)]
    BY <1>8, <1>10, <2>7
  <2> QED
    BY <1>7, <2>5, <2>7, <2>8, <2>9
\* In the first they are those of the first with those behind.
<1>12. \A i \in 1..(m + 1) : h[i] = f[i] \o g[1]
  <2>1. g[1] \in Seq(Nat)
    BY <1>7
  <2> DEFINE both == [i \in 1..(m + 1) |-> f[i] \o g[1]]
             T == {k \in Nat : \E i \in 1..(m + 1) : k = m + 1 - i /\ h[i] # both[i]}
  <2>0. \A i \in 1..(m + 1) : both[i] = f[i] \o g[1]
    OBVIOUS
  <2> HIDE DEF both
  <2>2. SUFFICES ASSUME NEW i \in 1..(m + 1), h[i] # both[i] PROVE FALSE
    BY <2>0
  <2>3. m + 1 - i \in T
    BY <2>2
  <2>4. T \subseteq Nat /\ T # {}
    BY <2>3
  <2>5. PICK k \in T : \A l \in T : k <= l
    BY <2>4, LeastNumber
  <2>6. PICK r \in 1..(m + 1) : k = m + 1 - r /\ h[r] # both[r]
    OBVIOUS
  <2>7. r # m + 1
    <3>1. h[m + 1] = g[1]
      BY <1>11
    <3>2. f[m + 1] \o g[1] = g[1]
      BY <1>6, <2>1, ConcatEmptySeq
    <3>3. m + 1 \in 1..(m + 1)
      OBVIOUS
    <3> QED
      BY <2>0, <2>6, <3>1, <3>2, <3>3
  <2>8. /\ r \in 1..m /\ r + 1 \in 1..(m + 1) /\ r \in 1..(m + n)
        /\ m + 1 - (r + 1) \in Nat /\ ~(k <= m + 1 - (r + 1))
    BY <2>6, <2>7
  <2>9. h[r + 1] = f[r + 1] \o g[1]
    BY <2>0, <2>5, <2>8
  <2>10. PICK head \in Seq(Nat) : head = IF s[r] \in set THEN <<s[r]>> ELSE <<>>
    <3>1. s[r] \in Nat
      BY <1>9, <2>8
    <3>2. <<s[r]>> \in Seq(Nat) /\ <<>> \in Seq(Nat)
      BY <3>1
    <3> QED
      BY <3>2
  <2>11. h[r] = head \o h[r + 1] /\ f[r] = head \o f[r + 1] /\ f[r + 1] \in Seq(Nat)
    BY <1>6, <1>8, <1>9, <2>8, <2>10
  <2>12. PICK tail \in Seq(Nat), rest \in Seq(Nat) : tail = f[r + 1] /\ rest = g[1]
    BY <2>1, <2>11
  <2>13. (head \o tail) \o rest = head \o (tail \o rest)
    BY ThreeConcat, ZenonT(40)
  <2> QED
    BY <2>0, <2>6, <2>9, <2>11, <2>12, <2>13
<1>13. 1 \in 1..(m + 1)
  OBVIOUS
<1> QED
  BY <1>6, <1>7, <1>8, <1>12, <1>13

\* Of numbers only numbers are left.
LEMMA OnlyKind ==
    ASSUME NEW set, NEW s \in Seq(Nat)
    PROVE  Only(s, set) \in Seq(Nat)
<1>1. PICK f : From(s, set, f)
  BY OnlyFrom
<1>2. 1 \in 1..(Len(s) + 1)
  OBVIOUS
<1> QED
  BY <1>1, <1>2 DEF From

\* Of a sequence none of which are in the set.
LEMMA OnlyNone ==
    ASSUME NEW set, NEW s \in Seq(Nat), \A i \in 1..Len(s) : s[i] \notin set
    PROVE  Only(s, set) = <<>>
<1>1. PICK f : From(s, set, f)
  BY OnlyFrom
<1>2. PICK m \in Nat : m = Len(s)
  OBVIOUS
<1>3. /\ f \in [1..(m + 1) -> Seq(Nat)] /\ f[m + 1] = <<>> /\ Only(s, set) = f[1]
      /\ \A i \in 1..m : f[i] = <<>> \o f[i + 1]
  BY <1>1, <1>2 DEF From
<1>4. \A i \in 1..(m + 1) : f[i] = <<>>
  <2> DEFINE T == {k \in Nat : \E i \in 1..(m + 1) : k = m + 1 - i /\ f[i] # <<>>}
  <2>1. SUFFICES ASSUME NEW i \in 1..(m + 1), f[i] # <<>> PROVE FALSE
    OBVIOUS
  <2>2. m + 1 - i \in T
    BY <2>1
  <2>3. T \subseteq Nat /\ T # {}
    BY <2>2
  <2>4. PICK k \in T : \A l \in T : k <= l
    BY <2>3, LeastNumber
  <2>5. PICK r \in 1..(m + 1) : k = m + 1 - r /\ f[r] # <<>>
    OBVIOUS
  <2>6. r # m + 1
    BY <1>3, <2>5
  <2>7. r \in 1..m /\ r + 1 \in 1..(m + 1) /\ m + 1 - (r + 1) \in Nat /\ ~(k <= m + 1 - (r + 1))
    BY <2>5, <2>6
  <2>8. f[r + 1] = <<>>
    BY <2>4, <2>7
  <2>9. f[r] = <<>> \o f[r + 1]
    BY <1>3, <2>7
  <2> QED
    BY <2>5, <2>8, <2>9
<1>5. 1 \in 1..(m + 1)
  OBVIOUS
<1> QED
  BY <1>3, <1>4, <1>5

\* Of one that is.
LEMMA OnlyOne ==
    ASSUME NEW set, NEW p \in Nat, p \in set
    PROVE  Only(<<p>>, set) = <<p>>
<1>1. <<p>> \in Seq(Nat) /\ Len(<<p>>) = 1 /\ <<p>>[1] = p
  OBVIOUS
<1>2. PICK f : From(<<p>>, set, f)
  BY <1>1, OnlyFrom
<1>3. 1 \in 1..Len(<<p>>) /\ Len(<<p>>) + 1 = 2 /\ 1 + 1 = 2
  BY <1>1
<1>4. f[1] = <<p>> \o f[2] /\ f[2] = <<>> /\ Only(<<p>>, set) = f[1]
  BY <1>1, <1>2, <1>3 DEF From
<1> QED
  BY <1>1, <1>4, ConcatEmptySeq

\* The places behind a place.
Places(a, n) == [i \in 1..n |-> a + i]

\* They follow each other.
LEMMA PlacesFacts ==
    ASSUME NEW a \in Nat, NEW m \in Nat, NEW n \in Nat
    PROVE  /\ Places(a, m) \in Seq(Nat) /\ Len(Places(a, m)) = m
           /\ \A i \in 1..m : Places(a, m)[i] = a + i
           /\ Places(a, m + n) = Places(a, m) \o Places(a + m, n)
<1>1. \A b \in Nat, k \in Nat : /\ Places(b, k) \in Seq(Nat) /\ Len(Places(b, k)) = k
                                /\ \A i \in 1..k : Places(b, k)[i] = b + i
  BY DEF Places
<1>2. a + m \in Nat /\ m + n \in Nat
  OBVIOUS
<1>3. PICK s \in Seq(Nat), t \in Seq(Nat), u \in Seq(Nat) :
         /\ s = Places(a, m) /\ t = Places(a + m, n) /\ u = Places(a, m + n)
  BY <1>1, <1>2
<1>4. /\ Len(s) = m /\ Len(t) = n /\ Len(u) = m + n
      /\ \A i \in 1..m : s[i] = a + i
      /\ \A i \in 1..n : t[i] = (a + m) + i
      /\ \A i \in 1..(m + n) : u[i] = a + i
  BY <1>1, <1>2, <1>3
<1>5. s \o t \in Seq(Nat) /\ Len(s \o t) = m + n
  <2>1. Len(s) = m /\ Len(t) = n
    BY <1>4
  <2> QED
    BY <2>1, ConcatProperties
<1>6. ASSUME NEW i \in 1..(m + n) PROVE (s \o t)[i] = u[i]
  <2>1. CASE i <= m
    <3>1. i \in 1..m
      BY <2>1
    <3>2. (s \o t)[i] = s[i]
      BY <1>4, <3>1
    <3> QED
      BY <1>4, <3>1, <3>2
  <2>2. CASE ~(i <= m)
    <3>1. i - m \in 1..n /\ (a + m) + (i - m) = a + i
      BY <2>2
    <3>2. (s \o t)[i] = t[i - m]
      <4>1. Len(s) = m /\ Len(t) = n /\ i \in 1..(m + n) /\ ~(i <= m)
        BY <1>4, <2>2
      <4> QED
        BY <4>1, SMTT(30)
    <3> QED
      BY <1>4, <3>1, <3>2
  <2> QED
    BY <2>1, <2>2
<1>7. s \o t = u
  BY <1>4, <1>5, <1>6, SeqEqual
<1> QED
  BY <1>3, <1>4, <1>7

\* The end of the line in memory that starts with it.
LEMMA LineAtPosition ==
    ASSUME TypeOK, NEW size, NEW memory, NEW place, NEW e, LineAt(size, memory, place, e)
    PROVE  HasLine(memory) /\ Position(memory) = e
<1>1. /\ size \in Nat /\ memory \in [1..size -> 0..Len(text)] /\ place \in Nat /\ 1 <= place
      /\ e \in 2..size
      /\ \A i \in 1..e : memory[i] = place + i - 1
      /\ place + e - 1 \in Ends
      /\ \A f \in Ends : f >= place => f >= place + e - 1
      /\ Len(text) \in Nat
  BY Sizes DEF LineAt
<1>2. \A j \in 1..e : memory[j] # 0 /\ memory[j] \in 1..Len(text)
  <2>1. \A j \in 1..e : place + j - 1 # 0 /\ j \in 1..size
    BY <1>1
  <2>2. ASSUME NEW j \in 1..e PROVE memory[j] # 0 /\ memory[j] \in 1..Len(text)
    <3>1. memory[j] = place + j - 1 /\ place + j - 1 # 0 /\ memory[j] \in 0..Len(text)
      BY <1>1, <2>1
    <3> QED
      BY <1>1, <3>1
  <2> QED
    BY <2>2
<1>3. Is(memory[e - 1], "CR") /\ Is(memory[e], "LF")
  <2>1. e - 1 \in 1..e /\ e \in 1..e /\ (place + e - 1) - 1 = place + (e - 1) - 1
    BY <1>1
  <2>2. text[(place + e - 1) - 1] = "CR" /\ text[place + e - 1] = "LF"
    BY <1>1 DEF Ends
  <2>3. memory[e - 1] = place + (e - 1) - 1 /\ memory[e] = place + e - 1
    BY <1>1, <2>1
  <2> QED
    BY <1>2, <2>1, <2>2, <2>3 DEF Is
<1>4. ASSUME NEW i \in 2..e, Is(memory[i - 1], "CR"), Is(memory[i], "LF") PROVE i = e
  <2>1. i - 1 \in 1..e /\ i \in 1..e /\ (place + i - 1) - 1 = place + (i - 1) - 1
    BY <1>1
  <2>2. memory[i - 1] = place + (i - 1) - 1 /\ memory[i] = place + i - 1
    BY <1>1, <2>1
  <2>3. PICK f \in Nat : f = place + i - 1
    BY <1>1
  <2>4. f \in 2..Len(text) /\ text[f] = "LF" /\ text[f - 1] = "CR"
    <3>1. f \in 1..Len(text) /\ f - 1 \in 1..Len(text)
      BY <1>2, <2>1, <2>2, <2>3
    <3>2. f \in 2..Len(text)
      BY <1>1, <3>1
    <3> QED
      BY <1>4, <2>1, <2>2, <2>3, <3>2 DEF Is
  <2>5. f \in Ends /\ f >= place
    BY <1>1, <2>3, <2>4 DEF Ends
  <2>6. f >= place + e - 1
    BY <1>1, <2>5
  <2> QED
    BY <1>1, <2>3, <2>6
<1> QED
  BY <1>1, <1>2, <1>3, <1>4, PositionIs

\* Memory that starts with the text from one end of a line to another starts with
\* a line.
LEMMA WholeLineAt ==
    ASSUME TypeOK, NEW size \in Nat, NEW memory \in [1..size -> 0..Len(text)],
           NEW from \in Nat, NEW k \in 1..size, from + k <= Len(text),
           \A i \in 1..k : memory[i] = from + i,
           Boundary(from), Boundary(from + k)
    PROVE  Position(memory) \in 2..k /\ LineAt(size, memory, from + 1, Position(memory))
<1>1. HasLine(memory) /\ Position(memory) \in 2..k
  BY WholeLineThere
<1>2. PICK e \in 2..k : e = Position(memory)
  BY <1>1
<1>3. /\ e \in 2..size /\ k \in Nat /\ Len(text) \in Nat /\ from + 1 \in Nat \ {0}
  BY Sizes
<1>4. ASSUME NEW i \in 1..e PROVE memory[i] = (from + 1) + i - 1 /\ memory[i] = from + i
  <2>1. i \in 1..k /\ (from + 1) + i - 1 = from + i
    BY <1>3
  <2> QED
    BY <2>1
<1>5. /\ Is(memory[e - 1], "CR") /\ Is(memory[e], "LF")
      /\ \A f \in LineEnds(memory) : e <= f
      /\ \A j \in 1..e : memory[j] # 0
  BY <1>1, <1>2, PositionFacts
<1>6. (from + 1) + e - 1 \in Ends
  <2>1. e - 1 \in 1..e /\ e \in 1..e /\ from + (e - 1) = (from + e) - 1 /\ (from + 1) + e - 1 = from + e
        /\ from + e \in 2..Len(text)
    BY <1>3
  <2>2. memory[e - 1] = (from + e) - 1 /\ memory[e] = from + e
    BY <1>4, <2>1
  <2> QED
    BY <1>5, <2>1, <2>2 DEF Is, Ends
<1>7. ASSUME NEW f \in Ends, f >= from + 1 PROVE f >= (from + 1) + e - 1
  <2>1. SUFFICES ASSUME ~(f >= from + e) PROVE FALSE
    BY <1>3 DEF Ends
  <2>2. f \in Nat /\ f \in 2..Len(text) /\ text[f - 1] = "CR" /\ text[f] = "LF"
    BY <1>3 DEF Ends
  <2>3. PICK i \in 1..(e - 1) : f = from + i
    <3>1. f - from \in 1..(e - 1) /\ f = from + (f - from)
      BY <1>3, <1>7, <2>1, <2>2
    <3> QED
      BY <3>1
  <2>4. CASE i = 1
    <3>1. f - 1 = from /\ from # 0
      BY <2>2, <2>3, <2>4
    <3> QED
      BY <2>2, <3>1 DEF Boundary
  <2>5. CASE i # 1
    <3>1. /\ i \in 2..size /\ i \in 1..e /\ i - 1 \in 1..e /\ from + (i - 1) = f - 1 /\ ~(e <= i)
          /\ \A j \in 1..(i - 2) : j \in 1..e
      BY <1>3, <2>3, <2>5
    <3>2. memory[i - 1] = f - 1 /\ memory[i] = f /\ f # 0 /\ f - 1 # 0
      BY <1>4, <2>2, <2>3, <3>1
    <3>3. Is(memory[i - 1], "CR") /\ Is(memory[i], "LF")
      BY <2>2, <3>2 DEF Is
    <3>4. Len(memory) = size
      BY MemoryFacts
    <3>5. i \in LineEnds(memory)
      BY <1>5, <3>1, <3>3, <3>4 DEF LineEnds
    <3> QED
      BY <1>5, <3>1, <3>5
  <2> QED
    BY <2>4, <2>5
<1>8. LineAt(size, memory, from + 1, e)
  BY <1>3, <1>4, <1>6, <1>7 DEF LineAt
<1> QED
  BY <1>2, <1>8

\* The line in a buffer, as WholeLine has it.
WholeLineIn(memory) ==
    IF HasLine(memory) /\ memory[1] # 0 /\ SubSeq(memory, 1, Position(memory)) = LineFrom(memory[1])
    THEN memory[Position(memory)] ELSE 0

\* It is the one the buffer starts with, and the only one up to its end.
LEMMA LineNames ==
    ASSUME TypeOK, NEW size, NEW memory, NEW a \in Nat, NEW e, LineAt(size, memory, a + 1, e)
    PROVE  WholeLineIn(memory) = a + e /\ Lines(Places(a, e)) = <<a + e>>
<1>1. /\ e \in Nat /\ 2 <= e
      /\ \A i \in 1..e : memory[i] = (a + 1) + i - 1
      /\ (a + 1) + e - 1 \in Ends
      /\ \A f \in Ends : f >= a + 1 => f >= (a + 1) + e - 1
  BY DEF LineAt
<1>2. HasLine(memory) /\ Position(memory) = e
  BY LineAtPosition
<1>3. SubSeq(memory, 1, e) = LineFrom(a + 1)
  BY LineFacts
<1>4. memory[1] = a + 1 /\ memory[e] = a + e /\ a + 1 # 0 /\ (a + 1) + e - 1 = a + e
  <2>1. 1 \in 1..e /\ e \in 1..e /\ (a + 1) + 1 - 1 = a + 1 /\ (a + 1) + e - 1 = a + e /\ a + 1 # 0
    BY <1>1
  <2> QED
    BY <1>1, <2>1
<1>5. WholeLineIn(memory) = a + e
  BY <1>2, <1>3, <1>4 DEF WholeLineIn
<1>6. PICK d \in Nat : e = d + 1
  <2>1. e - 1 \in Nat /\ e = (e - 1) + 1
    BY <1>1
  <2> QED
    BY <2>1
<1>7. Places(a, e) = Places(a, d) \o Places(a + d, 1) /\ Places(a, d) \in Seq(Nat)
      /\ Len(Places(a, d)) = d /\ \A i \in 1..d : Places(a, d)[i] = a + i
  <2>1. 1 \in Nat
    OBVIOUS
  <2> QED
    BY <1>6, <2>1, PlacesFacts
<1>8. Places(a + d, 1) = <<a + e>> /\ a + e \in Nat
  BY <1>6 DEF Places
<1>9. \A i \in 1..d : a + i \notin Ends
  <2>1. \A i \in 1..d : a + i >= a + 1 /\ ~(a + i >= (a + 1) + e - 1)
    BY <1>6
  <2> QED
    BY <1>1, <2>1
<1>10. Only(Places(a, d), Ends) = <<>>
  BY <1>7, <1>9, OnlyNone
<1>11. Only(<<a + e>>, Ends) = <<a + e>>
  BY <1>1, <1>4, <1>8, OnlyOne
<1>12. <<a + e>> \in Seq(Nat)
  BY <1>8
<1>13. Only(Places(a, e), Ends) = <<>> \o <<a + e>>
  <2>1. Only(Places(a, d) \o <<a + e>>, Ends) = Only(Places(a, d), Ends) \o Only(<<a + e>>, Ends)
    BY <1>7, <1>12, OnlyConcat
  <2> QED
    BY <1>7, <1>8, <1>10, <1>11, <2>1
<1>14. <<>> \o <<a + e>> = <<a + e>>
  BY <1>12, ConcatEmptySeq
<1> QED
  BY <1>5, <1>13, <1>14 DEF Lines

\* A line, those behind it and the rest, one after the other.
LEMMA ThreeParts ==
    ASSUME NEW h \in Nat, NEW K \in Seq(Nat), NEW C \in Seq(Nat), NEW s, s = <<h>> \o (K \o C)
    PROVE  /\ Head(s) = h /\ Len(K) + 1 \in 1..Len(s)
           /\ SubSeq(s, 2, Len(K) + 1) = K
           /\ SubSeq(s, (Len(K) + 1) + 1, Len(s)) = C
<1>1. PICK k \in Nat, c \in Nat : k = Len(K) /\ c = Len(C)
  OBVIOUS
<1>2. /\ K \o C \in Seq(Nat) /\ Len(K \o C) = k + c
      /\ \A i \in 1..k : (K \o C)[i] = K[i]
      /\ \A i \in 1..c : (K \o C)[k + i] = C[i]
  BY <1>1
<1>3. PICK t \in Seq(Nat) : t = K \o C
  BY <1>2
<1>4. s \in Seq(Nat) /\ Len(s) = 1 + (k + c) /\ s[1] = h /\ \A i \in 1..(k + c) : s[1 + i] = t[i]
  <2>1. s = <<h>> \o t /\ Len(t) = k + c /\ <<h>> \in Seq(Nat) /\ Len(<<h>>) = 1 /\ <<h>>[1] = h
    BY <1>2, <1>3
  <2>2. s \in Seq(Nat) /\ Len(s) = 1 + (k + c)
    BY <2>1, ConcatProperties
  <2>3. s[1] = h
    BY <2>1
  <2>4. ASSUME NEW i \in 1..(k + c) PROVE s[1 + i] = t[i]
    <3>1. PICK u \in Seq(Nat) : u = <<h>> /\ s = u \o t /\ Len(u) = 1
      BY <2>1
    <3>2. i \in 1..Len(t)
      BY <2>1
    <3>3. (u \o t)[Len(u) + i] = t[i]
      BY <3>2
    <3> QED
      BY <3>1, <3>3
  <2> QED
    BY <2>2, <2>3, <2>4
<1>5. Head(s) = h /\ k + 1 \in 1..Len(s)
  BY <1>4
<1>6. SubSeq(s, 2, k + 1) = K
  <2>1. 1 \in Nat /\ 1 + k <= Len(s) /\ 1 + 1 = 2 /\ 1 + k = k + 1
    BY <1>4
  <2>2. /\ SubSeq(s, 2, k + 1) \in Seq(Nat) /\ Len(SubSeq(s, 2, k + 1)) = k
        /\ \A i \in 1..k : SubSeq(s, 2, k + 1)[i] = s[1 + i]
    <3>1. PICK a \in Nat, q \in Seq(Nat) : a = 1 /\ q = s
      BY <1>4
    <3>2. a + k <= Len(q) /\ a + 1 = 2 /\ a + k = k + 1
      BY <2>1, <3>1
    <3>3. a + k <= Len(q)
      BY <3>2
    <3>4. /\ SubSeq(q, a + 1, a + k) \in Seq(Nat) /\ Len(SubSeq(q, a + 1, a + k)) = k
          /\ \A i \in 1..k : SubSeq(q, a + 1, a + k)[i] = q[a + i]
      BY <3>3, PartFacts
    <3> QED
      BY <3>1, <3>2, <3>4
  <2>3. \A i \in 1..k : s[1 + i] = K[i]
    <3>1. \A i \in 1..k : i \in 1..(k + c)
      OBVIOUS
    <3> QED
      BY <1>2, <1>3, <1>4, <3>1
  <2> QED
    BY <1>1, <2>2, <2>3, SeqEqual
<1>7. SubSeq(s, (k + 1) + 1, Len(s)) = C
  <2>1. k + 1 \in Nat /\ (k + 1) + c <= Len(s) /\ (k + 1) + c = Len(s)
    BY <1>4
  <2>2. /\ SubSeq(s, (k + 1) + 1, Len(s)) \in Seq(Nat) /\ Len(SubSeq(s, (k + 1) + 1, Len(s))) = c
        /\ \A i \in 1..c : SubSeq(s, (k + 1) + 1, Len(s))[i] = s[(k + 1) + i]
    <3>1. PICK a \in Nat, q \in Seq(Nat) : a = k + 1 /\ q = s
      <4>1. s \in Seq(Nat)
        BY <1>4
      <4>2. k + 1 \in Nat
        OBVIOUS
      <4> QED
        BY <4>1, <4>2, Zenon
    <3>2. a + c <= Len(q) /\ a + c = Len(q)
      BY <2>1, <3>1
    <3>3. /\ SubSeq(q, a + 1, a + c) \in Seq(Nat) /\ Len(SubSeq(q, a + 1, a + c)) = c
          /\ \A i \in 1..c : SubSeq(q, a + 1, a + c)[i] = q[a + i]
      BY <3>2, PartFacts
    <3> QED
      BY <3>1, <3>2, <3>3
  <2>3. \A i \in 1..c : s[(k + 1) + i] = C[i]
    <3>1. \A i \in 1..c : k + i \in 1..(k + c) /\ (k + 1) + i = 1 + (k + i)
      OBVIOUS
    <3> QED
      BY <1>2, <1>3, <1>4, <3>1
  <2> QED
    BY <1>1, <2>2, <2>3, SeqEqual
<1> QED
  BY <1>1, <1>5, <1>6, <1>7

\* Memory starts with that many bytes of the text behind a place.
HoldsText(V, size, memory, from, k) ==
    /\ size \in Nat /\ memory \in [1..size -> V] /\ k \in 0..size /\ from \in Nat
    /\ \A i \in 1..k : memory[i] = from + i

\* What it holds of the text.
LEMMA KeptPlaces ==
    ASSUME NEW V, NEW size, NEW memory, NEW k, NEW from, HoldsText(V, size, memory, from, k)
    PROVE  SubSeq(memory, 1, k) = Places(from, k)
<1>0. /\ size \in Nat /\ memory \in [1..size -> V] /\ k \in 0..size /\ from \in Nat
      /\ \A i \in 1..k : memory[i] = from + i
  BY DEF HoldsText
<1>1. memory \in Seq(V) /\ Len(memory) = size
  BY <1>0, MemoryFacts
<1>2. k \in Nat /\ 0 + k <= Len(memory) /\ 0 + 1 = 1 /\ 0 + k = k /\ \A i \in 1..k : 0 + i = i
  BY <1>0, <1>1
<1>3. /\ SubSeq(memory, 0 + 1, 0 + k) \in Seq(V) /\ Len(SubSeq(memory, 0 + 1, 0 + k)) = k
      /\ \A i \in 1..k : SubSeq(memory, 0 + 1, 0 + k)[i] = memory[0 + i]
  BY <1>1, <1>2, PartFacts
<1>4. /\ SubSeq(memory, 1, k) \in Seq(V) /\ Len(SubSeq(memory, 1, k)) = k
      /\ \A i \in 1..k : SubSeq(memory, 1, k)[i] = from + i
  BY <1>0, <1>2, <1>3
<1>5. SubSeq(memory, 1, k) = [i \in 1..k |-> SubSeq(memory, 1, k)[i]]
  BY <1>4
<1> QED
  BY <1>4, <1>5 DEF Places

\* No places, no lines.
LEMMA NoPlaces ==
    ASSUME NEW a, NEW set
    PROVE  Only(Places(a, 0), set) = <<>>
<1>1. Places(a, 0) = <<>>
  BY DEF Places
<1>2. <<>> \in Seq(Nat) /\ Len(<<>>) = 0 /\ 1..0 = {}
  OBVIOUS
<1>3. \A i \in 1..Len(<<>>) : <<>>[i] \notin set
  BY <1>2
<1> QED
  BY <1>1, <1>2, <1>3, OnlyNone

\* The variables of the queue.
Coming == IF wholeLines THEN Lines([i \in 1..(Len(text) - arrived) |-> arrived + i]) ELSE <<>>
Kept == IF wholeLines THEN Lines(SubSeq(LocalBuffer, 1, LocalBufferSize)) ELSE <<>>
Line == IF wholeLines THEN WholeLine ELSE 0

\* What they are in terms of the text.
LEMMA QueueFacts ==
    ASSUME TypeOK, WholeInv, wholeLines
    PROVE  /\ Coming = Only(Places(arrived, Len(text) - arrived), Ends)
           /\ Kept = Only(Places(arrived - LocalBufferSize, LocalBufferSize), Ends)
           /\ Line = WholeLineIn(Buffer)
<1>1. /\ LocalBuffer \in [1..LocalSize -> 0..Len(text)] /\ LocalSize \in Nat
      /\ LocalBufferSize \in 0..LocalSize /\ arrived - LocalBufferSize \in Nat
      /\ \A i \in 1..LocalBufferSize : LocalBuffer[i] = (arrived - LocalBufferSize) + i
  BY Sizes DEF TypeOK, Memory, WholeInv
<1>2. SubSeq(LocalBuffer, 1, LocalBufferSize) = Places(arrived - LocalBufferSize, LocalBufferSize)
  <2>1. PICK k \in 0..LocalSize, from \in Nat : k = LocalBufferSize /\ from = arrived - LocalBufferSize
    BY <1>1
  <2>2. HoldsText(0..Len(text), LocalSize, LocalBuffer, from, k)
    BY <1>1, <2>1 DEF HoldsText
  <2>3. SubSeq(LocalBuffer, 1, k) = Places(from, k)
    BY <2>2, KeptPlaces
  <2> QED
    BY <2>1, <2>3
<1> QED
  BY <1>2 DEF Coming, Kept, Line, Lines, Places, WholeLine, WholeLineIn, Returned

\* The same after a step.
LEMMA NextQueue ==
    ASSUME text' = text
    PROVE  /\ WholeLineIn(Buffer)' = WholeLineIn(Buffer') /\ Ends' = Ends
           /\ Len(text)' = Len(text)
<1>1. LineEnds(Buffer)' = LineEnds(Buffer') /\ Ends' = Ends
  BY DEF LineEnds, Is, Ends
<1>2. LineFrom(Buffer[1])' = LineFrom(Buffer'[1])
  BY <1>1 DEF LineFrom
<1> QED
  BY <1>1, <1>2 DEF WholeLineIn, HasLine, Position

\* The variables of the queue after a step.
LEMMA NextQueueFacts ==
    IInv' /\ wholeLines' /\ text' = text =>
        /\ Coming' = Only(Places(arrived', Len(text) - arrived'), Ends)
        /\ Kept' = Only(Places(arrived' - LocalBufferSize', LocalBufferSize'), Ends)
        /\ Line' = WholeLineIn(Buffer')
<1>1. IInv /\ wholeLines =>
        /\ Coming = Only(Places(arrived, Len(text) - arrived), Ends)
        /\ Kept = Only(Places(arrived - LocalBufferSize, LocalBufferSize), Ends)
        /\ Line = WholeLineIn(Buffer)
  BY QueueFacts DEF IInv
<1>2. IInv' /\ wholeLines' =>
       (/\ Coming = Only(Places(arrived, Len(text) - arrived), Ends)
        /\ Kept = Only(Places(arrived - LocalBufferSize, LocalBufferSize), Ends)
        /\ Line = WholeLineIn(Buffer))'
  BY <1>1, PTL
<1> QED
  BY <1>2, NextQueue

\* The first line of those in memory, and the others.
LEMMA FirstLine ==
    ASSUME NEW x \in Nat, NEW y \in Nat, NEW z \in Nat, Only(Places(x, y), Ends) = <<x + y>>
    PROVE  Only(Places(x, y + z), Ends) = <<x + y>> \o Only(Places(x + y, z), Ends)
<1>1. Places(x, y + z) = Places(x, y) \o Places(x + y, z)
  BY PlacesFacts
<1>2. Places(x, y) \in Seq(Nat) /\ Places(x + y, z) \in Seq(Nat)
  <2>1. x + y \in Nat
    OBVIOUS
  <2> QED
    BY <2>1, PlacesFacts
<1>3. Only(Places(x, y) \o Places(x + y, z), Ends) = Only(Places(x, y), Ends) \o Only(Places(x + y, z), Ends)
  BY <1>2, OnlyConcat
<1> QED
  BY <1>1, <1>3

\* The first line is y bytes long; behind it come the lines of two more pieces.
IsFirst(x, y) == Only(Places(x, y), Ends) = <<x + y>>
ThreeLines(x, y, z, w) ==
    \E K \in Seq(Nat), C \in Seq(Nat) :
       /\ K = Only(Places(x + y, z), Ends) /\ C = Only(Places((x + y) + z, w), Ends)
       /\ Only(Places(x, y + (z + w)), Ends) = <<x + y>> \o (K \o C)

\* ... and what comes behind the first line is those of any two pieces.
LEMMA FirstAndRest ==
    \A x \in Nat, y \in Nat, z \in Nat, w \in Nat : IsFirst(x, y) => ThreeLines(x, y, z, w)
<1> SUFFICES ASSUME NEW x \in Nat, NEW y \in Nat, NEW z \in Nat, NEW w \in Nat, IsFirst(x, y)
             PROVE  ThreeLines(x, y, z, w)
  OBVIOUS
<1>1. PICK r \in Nat : r = z + w
  OBVIOUS
<1>2. Only(Places(x, y + r), Ends) = <<x + y>> \o Only(Places(x + y, r), Ends)
  BY FirstLine, ZenonT(40) DEF IsFirst
<1>3. PICK b \in Nat, c \in Nat : b = x + y /\ c = b + z
  OBVIOUS
<1>4. Places(b, z + w) = Places(b, z) \o Places(c, w)
  <2>1. Places(b, z + w) = Places(b, z) \o Places(b + z, w)
    BY PlacesFacts, ZenonT(40)
  <2> QED
    BY <1>3, <2>1
<1>5. Places(b, z) \in Seq(Nat) /\ Places(c, w) \in Seq(Nat)
  BY PlacesFacts
<1>6. Only(Places(b, z) \o Places(c, w), Ends) = Only(Places(b, z), Ends) \o Only(Places(c, w), Ends)
  BY <1>5, OnlyConcat
<1>7. Only(Places(b, z), Ends) \in Seq(Nat) /\ Only(Places(c, w), Ends) \in Seq(Nat)
  BY <1>5, OnlyKind
<1> QED
  BY <1>1, <1>2, <1>3, <1>4, <1>6, <1>7 DEF ThreeLines

\* Every step is one of the queue or changes nothing of it.
LEMMA RefinementStep == IInv /\ [Next]_vars /\ IInv' => [Queue!Next]_Queue!queueVars
<1> SUFFICES ASSUME IInv, [Next]_vars, IInv' PROVE [Queue!Next]_Queue!queueVars
  OBVIOUS
<1>1. TypeOK /\ WholeInv /\ TypeOK' /\ WholeInv'
  BY DEF IInv
<1>2. text' = text /\ wholeLines' = wholeLines
  BY DEF Next, NewCall, NextRead, ReturnKept, TakePartial, StartEmpty, Reads, Read, ReadFails,
         Undefined, serverVars, vars
<1>3. /\ UNCHANGED <<Coming, Kept, Line>> => UNCHANGED Queue!queueVars
      /\ Kept' = <<>> /\ Line' = 0 /\ Coming' = Coming => Queue!NewCall
      /\ Kept # <<>> /\ Line' = Head(Kept) /\ Kept' = Tail(Kept) /\ Coming' = Coming => Queue!ReadKept
  BY DEF Coming, Kept, Line, Queue!queueVars, Queue!NewCall, Queue!ReadKept
<1>4. ASSUME NEW n \in 1..Len(Coming), Kept = <<>>, Line' = Head(Coming),
             Kept' = SubSeq(Coming, 2, n), Coming' = SubSeq(Coming, n + 1, Len(Coming))
      PROVE  Queue!Receive
  BY <1>4 DEF Coming, Kept, Line, Queue!Receive
<1>5. CASE ~wholeLines
  <2>1. UNCHANGED <<Coming, Kept, Line>>
    BY <1>2, <1>5 DEF Coming, Kept, Line
  <2> QED
    BY <1>3, <2>1
<1>6. SUFFICES ASSUME wholeLines PROVE [Queue!Next]_Queue!queueVars
  BY <1>5
<1>7. /\ Coming = Only(Places(arrived, Len(text) - arrived), Ends)
      /\ Kept = Only(Places(arrived - LocalBufferSize, LocalBufferSize), Ends)
      /\ Line = WholeLineIn(Buffer)
  BY <1>1, <1>6, QueueFacts
<1>8. /\ Coming' = Only(Places(arrived', Len(text) - arrived'), Ends)
      /\ Kept' = Only(Places(arrived' - LocalBufferSize', LocalBufferSize'), Ends)
      /\ Line' = WholeLineIn(Buffer')
  BY <1>2, <1>6, NextQueueFacts
<1>9. /\ Len(text) \in Nat /\ BufferSize \in Nat /\ LocalSize \in Nat /\ MaxRecord \in Nat
      /\ arrived \in Nat /\ LocalBufferSize \in Nat /\ arrived <= Len(text)
      /\ 1 <= MaxRecord /\ MaxRecord < BufferSize /\ BufferSize < LocalSize
      /\ Buffer \in [1..BufferSize -> 0..Len(text)]
      /\ LocalBuffer \in [1..LocalSize -> 0..Len(text)]
      /\ LocalBufferSize <= LocalSize
  BY <1>1, Sizes, SMTT(30) DEF TypeOK, Memory
<1>10. /\ Boundary(arrived)
       /\ LocalBufferSize <= arrived /\ Boundary(arrived - LocalBufferSize)
       /\ \A i \in 1..LocalBufferSize : LocalBuffer[i] = arrived - LocalBufferSize + i
       /\ pc = "reading" => LocalBufferSize = 0 /\ Received = 0
       /\ pc # "undefined" /\ pc' # "undefined"
  BY <1>1, <1>2, <1>6 DEF WholeInv
\* What is in memory of the text from the end of a line to another starts with a line.
<1>11. PICK f \in Nat, k \in 0..LocalSize :
          f = arrived - LocalBufferSize /\ k = LocalBufferSize /\ f + k = arrived
  <2>1. arrived - LocalBufferSize \in Nat
    BY <1>9, <1>10
  <2> QED
    BY <1>9, <2>1
<1>12. ASSUME LocalBufferSize > 0
       PROVE  Position(LocalBuffer) \in 2..k /\ LineAt(LocalSize, LocalBuffer, f + 1, Position(LocalBuffer))
  <2>1. k \in 1..LocalSize /\ f + k <= Len(text) /\ \A i \in 1..k : LocalBuffer[i] = f + i
    BY <1>9, <1>10, <1>11, <1>12
  <2>2. Boundary(f) /\ Boundary(f + k)
    BY <1>10, <1>11
  <2> QED
    BY <1>1, <1>9, <2>1, <2>2, WholeLineAt
<1>13. CASE NewCall
  <2>1. arrived' = arrived /\ LocalBufferSize' = 0 /\ Buffer' = Zeros(BufferSize)
    BY <1>13 DEF NewCall
  <2>2. Kept' = <<>> /\ Coming' = Coming
    BY <1>7, <1>8, <2>1, NoPlaces
  <2>3. Zeros(BufferSize)[1] = 0
    <3>1. 1 \in 1..BufferSize
      BY <1>9
    <3> QED
      BY <3>1 DEF Zeros
  <2>4. Line' = 0
    BY <1>8, <2>1, <2>3 DEF WholeLineIn
  <2> QED
    BY <1>3, <2>2, <2>4 DEF Queue!Next
\* Steps that leave the buffers alone.
<1>14. ASSUME UNCHANGED <<arrived, LocalBufferSize, LocalBuffer, Buffer>>
       PROVE  [Queue!Next]_Queue!queueVars
  <2>1. UNCHANGED <<Coming, Kept, Line>>
    BY <1>7, <1>8, <1>14
  <2> QED
    BY <1>3, <2>1
<1>15. CASE NextRead
  BY <1>14, <1>15 DEF NextRead
<1>16. CASE StartEmpty
  BY <1>14, <1>16 DEF StartEmpty
<1>17. CASE ReadFails
  BY <1>14, <1>17 DEF ReadFails
<1>18. CASE UNCHANGED vars
  BY <1>14, <1>18 DEF vars
<1>19. CASE TakePartial
  <2>1. LocalBufferSize > 0 /\ ~HasLine(LocalBuffer)
    BY <1>19 DEF TakePartial
  <2>2. HasLine(LocalBuffer)
    BY <1>1, <1>12, <2>1, LineAtPosition
  <2> QED
    BY <2>1, <2>2
<1>20. CASE ReturnKept
  <2>1. LocalBufferSize > 0
    BY <1>20 DEF ReturnKept
  <2>2. PICK b \in 2..k : b = Position(LocalBuffer) /\ LineAt(LocalSize, LocalBuffer, f + 1, b)
    BY <1>12, <2>1
  <2>3. /\ b < BufferSize /\ LocalBufferSize' = k - b
        /\ Buffer' \in [1..BufferSize -> 0..Len(text')]
        /\ \A i \in 1..b : Buffer'[i] = LocalBuffer[i]
    BY <1>1, <1>10, <1>11, <1>20, <2>2, KeptFacts DEF TypeOK, Memory
  <2>4. LineAt(BufferSize, Buffer', f + 1, b)
    <3>1. b \in 2..BufferSize
      BY <1>9, <2>2, <2>3
    <3>2. /\ f + 1 \in Nat \ {0} /\ \A i \in 1..b : LocalBuffer[i] = (f + 1) + i - 1
          /\ (f + 1) + b - 1 \in Ends
          /\ \A g \in Ends : g >= f + 1 => g >= (f + 1) + b - 1
      BY <2>2 DEF LineAt
    <3>3. \A i \in 1..b : Buffer'[i] = (f + 1) + i - 1
      BY <2>3, <3>2
    <3> QED
      BY <1>2, <1>9, <2>3, <3>1, <3>2, <3>3 DEF LineAt
  <2>5. Line' = f + b
    BY <1>1, <1>8, <2>4, LineNames
  <2>6. arrived' = arrived
    BY <1>20 DEF ReturnKept, Undefined
  <2>7. b \in Nat /\ k \in Nat /\ b <= k /\ arrived - (k - b) = f + b
    BY <1>9, <1>11, <2>2
  <2>8. PICK rest \in Seq(Nat) : rest = Only(Places(f + b, k - b), Ends)
    <3>1. f + b \in Nat /\ k - b \in Nat
      BY <2>7
    <3>2. Places(f + b, k - b) \in Seq(Nat)
      BY <3>1, PlacesFacts
    <3> QED
      BY <3>2, OnlyKind
  <2>9. Kept = <<f + b>> \o rest
    <3>1. Kept = Only(Places(f, k), Ends)
      BY <1>7, <1>11
    <3>2. Only(Places(f, k), Ends) = <<f + b>> \o Only(Places(f + b, k - b), Ends)
      <4>1. Only(Places(f, b), Ends) = <<f + b>>
        BY <1>1, <2>4, LineNames DEF Lines
      <4>2. PICK d \in Nat : d = k - b /\ b + d = k
        BY <2>7
      <4>3. Only(Places(f, b + d), Ends) = <<f + b>> \o Only(Places(f + b, d), Ends)
        BY <2>7, <4>1, FirstLine
      <4> QED
        BY <4>2, <4>3
    <3> QED
      BY <2>8, <3>1, <3>2
  <2>10. Kept' = rest
    BY <1>8, <2>3, <2>6, <2>7, <2>8
  <2>11. Kept # <<>> /\ Head(Kept) = f + b /\ Tail(Kept) = rest
    <3>1. PICK h \in Nat : h = f + b
      BY <2>7
    <3>2. <<h>> \o rest # <<>> /\ Head(<<h>> \o rest) = h /\ Tail(<<h>> \o rest) = rest
      OBVIOUS
    <3> QED
      BY <2>9, <3>1, <3>2
  <2>12. Coming' = Coming
    BY <1>7, <1>8, <2>6
  <2> QED
    BY <1>3, <2>5, <2>10, <2>11, <2>12 DEF Queue!Next
<1>21. ASSUME NEW n \in RecordSizes, Read(n) PROVE Queue!Next
  <2>1. LocalBufferSize = 0 /\ Received = 0 /\ pc = "reading"
    BY <1>10, <1>21 DEF Read
  <2>2. n \in 1..MaxRecord /\ n \in Nat /\ arrived + n <= Len(text) /\ text[arrived + n] = "LF"
    BY <1>6, <1>9 DEF RecordSizes
  <2>3. Received + n = n /\ n <= BufferSize /\ n \in 1..BufferSize
    BY <1>9, <2>1, <2>2
  <2>4. Filled(n) \in [1..BufferSize -> 0..Len(text)] /\ \A i \in 1..n : Filled(n)[i] = arrived + i
    <3>1. \A i \in 1..n : Filled(n)[Received + i] = arrived + i
      BY <1>1, <2>3, FilledFacts
    <3>2. \A i \in 1..n : Received + i = i
      BY <2>1
    <3> QED
      BY <1>1, <2>3, <3>1, <3>2, FilledFacts DEF Memory
  <2>5. PICK e \in 2..n : e = Position(Filled(n)) /\ LineAt(BufferSize, Filled(n), arrived + 1, e)
    <3>1. Boundary(arrived + n)
      BY <2>2 DEF Boundary
    <3> QED
      BY <1>1, <1>9, <1>10, <2>2, <2>3, <2>4, <3>1, WholeLineAt
  <2>6. HasLine(Filled(n))
    BY <1>1, <2>5, LineAtPosition
  <2>7. Spare(n) /\ arrived' = arrived + n
    BY <1>10, <1>21 DEF Read, Undefined
  <2>8. \A i \in 1..e : Buffer'[i] = Filled(n)[i]
    BY <1>1, <2>3, <2>5, <2>7, SpareFacts
  <2>9. LocalBufferSize' = n - e
    <3>1. CASE n > e
      <4>1. Received + n > Position(Filled(n)) /\ Received + n - Position(Filled(n)) = n - e
        BY <2>1, <2>2, <2>5, <3>1
      <4> QED
        BY <1>1, <2>3, <2>6, <2>7, <4>1, SpareFacts
    <3>2. CASE ~(n > e)
      <4>1. ~(Received + n > Position(Filled(n))) /\ n - e = 0
        BY <2>2, <2>3, <2>5, <3>2
      <4> QED
        BY <1>1, <2>1, <2>3, <2>7, <4>1, SpareFacts
    <3> QED
      BY <3>1, <3>2
  <2>10. PICK a \in Nat, e1 \in Nat, d \in Nat, m \in Nat, l \in Nat :
            /\ a = arrived /\ e1 = e /\ d = n - e /\ m = (Len(text) - arrived) - n /\ l = Len(text) - arrived
            /\ l = e1 + (d + m) /\ (a + n) - d = a + e1 /\ (a + e1) + d = a + n /\ n - e = d
            /\ e1 <= l /\ l - e1 = d + m /\ Len(text) - (a + n) = m
    <3>1. PICK a \in Nat, N \in Nat : a = arrived /\ N = Len(text)
      BY <1>9
    <3>2. e \in Nat /\ e <= n /\ a + n <= N
      BY <2>2, <2>5, <3>1
    <3>3. n - e \in Nat /\ (N - a) - n \in Nat /\ N - a \in Nat
      BY <2>2, <3>2
    <3>4. /\ N - a = e + ((n - e) + ((N - a) - n)) /\ (a + n) - (n - e) = a + e /\ (a + e) + (n - e) = a + n
          /\ e <= N - a /\ (N - a) - e = (n - e) + ((N - a) - n) /\ N - (a + n) = (N - a) - n
      BY <2>2, <3>2
    <3> QED
      BY <3>1, <3>2, <3>3, <3>4, ZenonT(40)
  <2>11. LineAt(BufferSize, Buffer', a + 1, e1)
    <3>1. Buffer' \in [1..BufferSize -> 0..Len(text)]
      BY <1>1, <1>2 DEF TypeOK, Memory
    <3> QED
      BY <2>5, <2>8, <2>10, <3>1 DEF LineAt
  <2>12. Line' = a + e1
    BY <1>1, <1>8, <2>11, LineNames
  <2>13. PICK K \in Seq(Nat), C \in Seq(Nat) :
            /\ K = Only(Places(a + e1, d), Ends) /\ C = Only(Places((a + e1) + d, m), Ends)
            /\ Only(Places(a, e1 + (d + m)), Ends) = <<a + e1>> \o (K \o C)
    <3>1. IsFirst(a, e1)
      BY <1>1, <2>11, LineNames DEF Lines, IsFirst
    <3>2. ThreeLines(a, e1, d, m)
      BY <3>1, FirstAndRest
    <3> QED
      BY <3>2 DEF ThreeLines
  <2>14. Coming = <<a + e1>> \o (K \o C)
    BY <1>7, <2>10, <2>13
  <2>15. /\ Head(Coming) = a + e1 /\ Len(K) + 1 \in 1..Len(Coming)
         /\ SubSeq(Coming, 2, Len(K) + 1) = K
         /\ SubSeq(Coming, (Len(K) + 1) + 1, Len(Coming)) = C
    <3>1. PICK h \in Nat : h = a + e1
      OBVIOUS
    <3>2. Coming = <<h>> \o (K \o C)
      BY <2>14, <3>1
    <3> QED
      BY <3>1, <3>2, ThreeParts
  <2>16. Kept' = K /\ Coming' = C
    BY <1>8, <2>7, <2>9, <2>10, <2>13
  <2>17. Kept = <<>>
    BY <1>7, <2>1, NoPlaces
  <2> QED
    BY <1>4, <2>12, <2>15, <2>16, <2>17 DEF Queue!Next
<1> QED
  BY <1>13, <1>15, <1>16, <1>17, <1>18, <1>19, <1>20, <1>21 DEF Next, Reads

-------------------------------------------------------------------------------
(* The theorems *)

\* Nothing has arrived at the start.
LEMMA InitInvariant == Init => IInv
<1> SUFFICES ASSUME Init PROVE IInv
  OBVIOUS
<1>1. Len(text) \in Nat /\ text \in Texts /\ wholeLines \in BOOLEAN
  BY TextsAssumption, WholeLinesAssumption DEF Init
<1>2. /\ BufferSize \in Nat /\ LocalSize \in Nat /\ 0 < BufferSize
      /\ 0 \in 0..Len(text) /\ 0 \in 0..LocalSize /\ 0 \in 0..BufferSize /\ 0 \in 0..(Len(text) + 1)
  BY <1>1, SizesAssumption
<1>3. Buffer \in Memory(BufferSize) /\ LocalBuffer \in Memory(LocalSize)
  BY <1>2 DEF Init, Zeros, Memory
<1>4. TypeOK
  BY <1>1, <1>2, <1>3 DEF Init, TypeOK
<1>5. WholeInv
  BY DEF Init, WholeInv, Boundary
<1> QED
  BY <1>2, <1>4, <1>5 DEF Init, IInv, FreshInv

\* The strengthened invariant holds throughout.
LEMMA Invariance == Spec => []IInv
<1>1. IInv /\ [Next]_vars => IInv'
  <2> SUFFICES ASSUME IInv, [Next]_vars PROVE IInv'
    OBVIOUS
  <2> QED
    BY TypeStep, FreshStep, WholeStep DEF IInv
<1> QED
  BY <1>1, InitInvariant, PTL DEF Spec

\* The variables have their types: counts and copies stay within both buffers
\* as long as the reads do.
THEOREM TypeCorrect == Spec => []TypeOK
<1>1. IInv => TypeOK
  BY DEF IInv
<1> QED
  BY <1>1, Invariance, PTL

\* A first read that starts where a line does returns that line, in however
\* many records it came (imap_client.c:97-137).
THEOREM FirstReadReturnsLine == Spec => []FirstReadExact
<1>1. IInv => FirstReadExact
  <2> SUFFICES ASSUME IInv, pc = "idle", fresh, origin = 1 \/ origin - 1 \in Ends
               PROVE  HasLine(Buffer) /\ Returned = LineFrom(origin)
    BY DEF FirstReadExact
  <2>1. TypeOK /\ LineRead /\ origin \in 1..(Len(text) + 1)
    BY DEF IInv, FreshInv
  <2>2. PICK e \in 2..BufferSize :
          /\ HasLine(Buffer) /\ Position(Buffer) = e
          /\ \A i \in 1..e : Buffer[i] = origin + i - 1
          /\ origin + e - 1 \in Ends
          /\ \A f \in Ends : f > origin => f >= origin + e - 1
    BY <2>1 DEF LineRead
  <2>3. BufferSize \in Nat /\ Len(text) \in Nat /\ origin \in Nat
    BY <2>1, Sizes
  <2>4. origin \notin Ends
    <3>1. SUFFICES ASSUME origin \in Ends PROVE FALSE
      OBVIOUS
    <3>2. text[origin - 1] = "CR" /\ origin # 1
      BY <2>3, <3>1 DEF Ends
    <3>3. text[origin - 1] = "LF"
      BY <3>2 DEF Ends
    <3> QED
      BY <3>2, <3>3
  <2>5. \A f \in Ends : f >= origin => f >= origin + e - 1
    <3>1. SUFFICES ASSUME NEW f \in Ends, f >= origin PROVE f >= origin + e - 1
      OBVIOUS
    <3>2. f \in Nat
      BY <2>3 DEF Ends
    <3>3. f > origin
      BY <2>3, <2>4, <3>1, <3>2
    <3> QED
      BY <2>2, <3>3
  <2>6. Buffer \in [1..BufferSize -> 0..Len(text)]
    BY <2>1 DEF TypeOK, Memory
  <2>7. SubSeq(Buffer, 1, e) = LineFrom(origin)
    <3>1. origin \in Nat \ {0}
      BY <2>1, <2>3
    <3>2. LineAt(BufferSize, Buffer, origin, e)
      BY <2>2, <2>3, <2>5, <2>6, <3>1 DEF LineAt
    <3> QED
      BY <2>1, <3>2, LineFacts
  <2> QED
    BY <2>2, <2>7 DEF Returned
<1> QED
  BY <1>1, Invariance, PTL

\* A first read stays within its buffers when the longest line and a record fit
\* in one together (imap_client.c:100-102), and when records end with lines all
\* reads do, those that find bytes of earlier lines in them, too
\* (imap_client.c:66-95).
THEOREM ReadsStayInBounds == Spec => []InBounds
<1>1. IInv => FirstReadInBounds
  BY DEF IInv, FreshInv, FirstReadInBounds
<1>2. IInv => WholeLinesInBounds
  BY DEF IInv, WholeInv, WholeLinesInBounds
<1>3. IInv => InBounds
  BY <1>1, <1>2 DEF InBounds
<1> QED
  BY <1>3, Invariance, PTL

\* When records end with lines, the reads of every call are those of the queue
\* of lines that the client's calls are written for, whatever the two buffers
\* still hold of earlier ones (imap_client.c:54-140).
THEOREM ReadsLineQueue == Spec => ImplementsLineQueue
<1>1. Init => Queue!Init
  <2> SUFFICES ASSUME Init PROVE Queue!Init
    OBVIOUS
  <2>1. TypeOK /\ WholeInv /\ arrived = 0 /\ LocalBufferSize = 0 /\ Buffer = Zeros(BufferSize)
    BY InitInvariant DEF Init, IInv
  <2>2. BufferSize \in Nat /\ 0 < BufferSize /\ Len(text) \in Nat
    BY <2>1, Sizes
  <2>3. Coming \in Seq(Nat) /\ Kept = <<>> /\ Line = 0
    <3>1. CASE wholeLines
      <4>1. Coming = Only(Places(0, Len(text)), Ends)
        BY <2>1, <2>2, <3>1, QueueFacts
      <4>2. Places(0, Len(text)) \in Seq(Nat)
        BY <2>2, PlacesFacts
      <4>3. Coming \in Seq(Nat)
        BY <4>1, <4>2, OnlyKind
      <4>4. Kept = <<>>
        BY <2>1, <3>1, QueueFacts, NoPlaces
      <4>5. Buffer[1] = 0
        BY <2>1, <2>2 DEF Zeros
      <4>6. Line = 0
        BY <2>1, <3>1, <4>5, QueueFacts DEF WholeLineIn
      <4> QED
        BY <4>3, <4>4, <4>6
    <3>2. CASE ~wholeLines
      BY <3>2 DEF Coming, Kept, Line
    <3> QED
      BY <3>1, <3>2
  <2> QED
    BY <2>3 DEF Queue!Init, Coming, Kept, Line
<1>2. IInv /\ [Next]_vars /\ IInv' => [Queue!Next]_Queue!queueVars
  BY RefinementStep
<1> QED
  BY <1>1, <1>2, Invariance, PTL DEF Spec, ImplementsLineQueue, Queue!Spec
=============================================================================
