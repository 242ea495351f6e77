--------------------------- MODULE TlsConnectProofs ---------------------------
(***************************************************************************)
(* Theorems about TlsConnect for any server, any length of the handshake,  *)
(* any cut of its messages into what recv returns and any faults.  HeldInv *)
(* says what is acquired at each point of the call, and ProgressInv which  *)
(* part of the stream the handshake has reached, and with which part of it *)
(* in the buffer.                                                          *)
(***************************************************************************)
EXTENDS TlsConnect, DataLemmas

\* What is acquired at each point of the call.
HeldInv ==
    /\ pc \in {"wsa", "failed", "closed"} => held = {}
    /\ pc = "socket" => held = {"wsa"}
    /\ pc \in {"connect", "credentials"} => held = {"wsa", "socket"}
    /\ pc = "first" => held = {"wsa", "socket", "credentials"}
    /\ pc \in {"token", "room", "recv", "step", "again", "connected", "hungUp"} => held = Resource

\* The bytes of the stream that have left the buffer, taken or dropped.
front == arrived - received

\* The buffer holds the part of the stream behind them.
Window == received <= arrived /\ \A i \in 1..received : incoming[i] = stream[front + i]

\* The security context has taken the last byte of a flight.
EndOfFlight(c) == stream[c].at = stream[c].of /\ stream[c].final /\ stream[c].flight = tokens

\* A flight is complete that is not the last one, or none was asked for yet.
Flushed ==
    /\ tokens < LastFlight
    /\ consumed = front
    /\ IF consumed = 0 THEN tokens = 0 ELSE EndOfFlight(consumed)

\* All that has left the buffer was taken, and a message follows that belongs
\* to the answer to the last token.
Intact ==
    /\ consumed = front
    /\ front < Len(stream) => stream[front + 1].at = 1 /\ stream[front + 1].flight = tokens

\* The first part of a message was dropped.  The handshake cannot be completed.
Broken == front < Len(stream) /\ stream[front + 1].at # 1

ProgressInv ==
    /\ pc \in Setup \cup {"first"} =>
          arrived = 0 /\ consumed = 0 /\ tokens = 0 /\ incoming = <<>>
    /\ pc \in {"token", "again"} => Flushed /\ received < BufferSize
    /\ pc \in {"room", "recv", "step"} => Intact \/ Broken
    /\ pc = "step" => received > 0
    /\ RoomLeft
    /\ LeftoverKept

IInv == TypeOK /\ Window /\ HeldInv /\ ProgressInv

\* Nothing goes wrong, and no handshake message comes in pieces.
Undisturbed == faults = {} /\ ~anyCut

\* What was taken ends with a message, and the last one is yet to come.
Unfinished ==
    consumed # 0 =>
        /\ stream[consumed].at = stream[consumed].of /\ stream[consumed].flight <= tokens
        /\ ~(stream[consumed].final /\ stream[consumed].flight = LastFlight)

\* What was received ends with a message that the server was asked for, or in
\* the data behind the handshake.
WholeReceived ==
    /\ stream[arrived].at = stream[arrived].of \/ stream[arrived].flight > LastFlight
    /\ tokens < LastFlight => stream[arrived].flight <= tokens

\* Then each flight is taken as a whole, and nothing but it is received.
ServedInv ==
    Undisturbed =>
        /\ socket = "open"
        /\ pc \notin {"again", "failed", "hungUp"}
        /\ pc \in {"token", "room", "recv"} => received = 0
        /\ pc \in {"room", "recv", "step"} => Intact /\ Unfinished
        /\ pc = "step" => WholeReceived

-------------------------------------------------------------------------------
(* Streams and the buffer *)

\* A byte of a stream, and the message it belongs to.
LEMMA SymbolFacts ==
    ASSUME NEW s, Sequenced(s), NEW p \in 1..Len(s)
    PROVE  /\ s \in Seq(Symbol) /\ s[p] \in Symbol
           /\ s[p].at \in Nat /\ s[p].of \in Nat /\ s[p].flight \in Nat /\ s[p].final \in BOOLEAN
           /\ s[p].at >= 1 /\ s[p].at <= s[p].of /\ s[p].of <= BufferSize
           /\ s[p].flight >= 1 /\ s[p].flight <= LastFlight + 1
           /\ \A q \in p..Len(s) : s[p].flight <= s[q].flight
<1>1. s \in Seq(Symbol) /\ s[p] \in Symbol
  BY ElementOfSeq DEF Sequenced
<1>2. s[p].at \in Nat /\ s[p].of \in Nat /\ s[p].flight \in Nat /\ s[p].final \in BOOLEAN
  BY <1>1 DEF Symbol
<1>3. /\ s[p].at \in 1..s[p].of /\ s[p].of <= BufferSize
      /\ s[p].flight \in 1..(LastFlight + 1)
      /\ \A q \in p..Len(s) : s[p].flight <= s[q].flight
  BY DEF Sequenced
<1> QED
  BY <1>1, <1>2, <1>3

\* A stream begins with the first byte of the first flight.
LEMMA FirstByte ==
    ASSUME NEW s, Sequenced(s), 1 <= Len(s)
    PROVE  s[1].at = 1 /\ s[1].flight = 1
<1>1. 1 \in 1..Len(s)
  BY DEF Sequenced
<1>2. s[1].at \in Nat /\ s[1].at >= 1
  BY <1>1, SymbolFacts
<1>3. 1 - s[1].at >= 0 /\ (1 - s[1].at = 0 => s[1].flight = 1)
  BY <1>1 DEF Sequenced
<1> QED
  BY <1>2, <1>3

\* Behind the last byte of a message is the first byte of the next one.
LEMMA NextMessage ==
    ASSUME NEW s, Sequenced(s), NEW q \in Nat, 1 <= q, q < Len(s), s[q].at = s[q].of
    PROVE  /\ s[q + 1].at = 1
           /\ s[q + 1].flight = s[q].flight + (IF s[q].final THEN 1 ELSE 0)
<1>1. PICK p \in 1..Len(s) : p = q + 1 /\ q \in 1..Len(s)
  BY DEF Sequenced
<1>2. PICK at \in Nat : at = s[p].at /\ at >= 1 /\ at <= s[p].of /\ s[p].of \in Nat
  BY SymbolFacts
<1>3. at = 1
  <2>1. SUFFICES ASSUME at # 1 PROVE FALSE
    OBVIOUS
  <2>2. \A i \in 1..s[p].of : s[(p - at) + i] = [s[p] EXCEPT !.at = i]
    BY <1>2 DEF Sequenced
  <2>3. at - 1 \in 1..s[p].of /\ (p - at) + (at - 1) = q
    BY <1>1, <1>2, <2>1
  <2>4. s[q] = [s[p] EXCEPT !.at = at - 1]
    BY <2>2, <2>3
  <2>5. s[p] \in Symbol
    BY SymbolFacts
  <2>6. s[q].at = at - 1 /\ s[q].of = s[p].of
    BY <2>4, <2>5 DEF Symbol
  <2>7. at - 1 = s[p].of
    BY <2>6
  <2> QED
    BY <1>2, <2>7
<1>4. s[p].flight = s[q].flight + (IF s[q].final THEN 1 ELSE 0)
  <2>1. p - s[p].at = q /\ q # 0
    BY <1>1, <1>2, <1>3
  <2> QED
    BY <2>1 DEF Sequenced
<1> QED
  BY <1>1, <1>2, <1>3, <1>4

\* A message that starts at byte p ends in the stream, all its bytes agree on
\* what it is.
LEMMA MessageFacts ==
    ASSUME NEW s, Sequenced(s), NEW p \in 1..Len(s), s[p].at = 1, NEW of, of = s[p].of
    PROVE  /\ of \in Nat /\ of >= 1 /\ of <= BufferSize /\ p + of - 1 <= Len(s)
           /\ s[p + of - 1].at = of /\ s[p + of - 1].of = of
           /\ s[p + of - 1].flight = s[p].flight
<1>1. s[p] \in Symbol /\ of \in Nat /\ of >= 1 /\ of <= BufferSize
  BY SymbolFacts
<1>2. /\ (p - 1) + of <= Len(s)
      /\ \A i \in 1..of : s[(p - 1) + i] = [s[p] EXCEPT !.at = i]
  BY DEF Sequenced
<1>3. (p - 1) + of = p + of - 1 /\ of \in 1..of /\ p + of - 1 <= Len(s)
  <2>1. p \in Nat /\ Len(s) \in Nat /\ of <= Len(s) - (p - 1)
    <3>1. p \in Nat /\ Len(s) \in Nat
      BY DEF Sequenced
    <3> QED
      BY <1>1, <1>2, <3>1
  <2> QED
    BY <1>1, <1>2, <2>1
<1>4. s[p + of - 1] = [s[p] EXCEPT !.at = of]
  <2>1. s[(p - 1) + of] = [s[p] EXCEPT !.at = of]
    BY <1>2, <1>3
  <2> QED
    BY <1>3, <2>1
<1> QED
  BY <1>1, <1>3, <1>4 DEF Symbol

\* What is in the buffer is in the stream.
LEMMA BufferFacts ==
    ASSUME TypeOK, Window
    PROVE  /\ Sequenced(stream) /\ Len(stream) \in Nat
           /\ received \in Nat /\ arrived \in Nat /\ consumed \in Nat /\ front \in Nat
           /\ front + received = arrived /\ arrived <= Len(stream) /\ consumed <= front
           /\ received <= BufferSize /\ BufferSize \in Nat
           /\ \A i \in 1..received : /\ front + i \in 1..Len(stream)
                                     /\ incoming[i] = stream[front + i]
                                     /\ incoming[i] \in Symbol
<1>1. Sequenced(stream) /\ Len(stream) \in Nat /\ stream \in Seq(Symbol)
  BY DEF TypeOK, Sequenced
<1>2. /\ received \in Nat /\ arrived \in Nat /\ consumed \in Nat
      /\ consumed + received <= arrived /\ arrived <= Len(stream) /\ received <= BufferSize
      /\ BufferSize \in Nat
  BY SizesAssumption DEF TypeOK, received
<1>3. /\ arrived \in Nat /\ consumed \in Nat /\ front \in Nat
      /\ front + received = arrived /\ consumed <= front
  BY <1>1, <1>2 DEF front
<1>4. ASSUME NEW i \in 1..received
      PROVE  front + i \in 1..Len(stream) /\ incoming[i] = stream[front + i] /\ incoming[i] \in Symbol
  <2>1. front + i \in 1..Len(stream) /\ incoming[i] = stream[front + i]
    BY <1>1, <1>2, <1>3 DEF Window
  <2> QED
    BY <1>1, <2>1, SymbolFacts
<1> QED
  BY <1>1, <1>2, <1>3, <1>4

-------------------------------------------------------------------------------
(* What a step does to the buffer: nothing, or it empties it, takes something *)
(* out of it, or puts something behind what it holds.                         *)

KeepsBuffer == UNCHANGED <<stream, incoming, arrived, consumed>>
EmptiesBuffer == incoming' = <<>> /\ UNCHANGED <<stream, arrived, consumed>>
TakesFromBuffer(k) == Keep(k) /\ UNCHANGED <<stream, arrived, tokens>>

\* There is no other step.
LEMMA BufferSteps ==
    ASSUME [Next]_vars
    PROVE  KeepsBuffer \/ EmptiesBuffer \/ (\E k \in Takes : TakesFromBuffer(k)) \/ Receive
<1>1. CASE UNCHANGED vars
  BY <1>1 DEF vars, KeepsBuffer
<1>2. CASE Acquire \/ AcquireFails \/ SendToken \/ SendFails \/ Block \/ HungUp \/ ReceiveFails
           \/ NoCertificate \/ Disconnect \/ SocketEnds
  BY <1>2 DEF Acquire, AcquireFails, SendToken, SendFails, Block, HungUp, ReceiveFails,
              NoCertificate, Disconnect, SocketEnds, KeepsBuffer, handshakeVars
<1>3. CASE FirstToken \/ FirstTokenFails \/ WantsCertificateAgain \/ StepIncomplete \/ StepFails
  BY <1>3 DEF FirstToken, FirstTokenFails, WantsCertificateAgain, StepIncomplete, StepFails,
              EmptiesBuffer
<1>4. CASE StepDone \/ StepContinue \/ StepWantsCertificate
  BY <1>4 DEF StepDone, StepContinue, StepWantsCertificate, TakesFromBuffer
<1> QED
  BY <1>1, <1>2, <1>3, <1>4 DEF Next, Step, Connecting

\* What is taken out is whole messages of the flight at hand.
LEMMA TakeFacts ==
    ASSUME TypeOK, Window, NEW k \in Takes, TakesFromBuffer(k)
    PROVE  /\ k \in 1..received
           /\ incoming' \in Seq(Symbol)
           /\ received' \in Nat /\ received' = received - k
           /\ front' = front + k /\ consumed' = consumed + k
           /\ stream[front + k] = incoming[k] /\ front + k \in 1..Len(stream)
           /\ incoming[k].at = incoming[k].of /\ incoming[k].flight = tokens
           /\ Window'
<1>1. /\ k \in 1..received /\ incoming[k].at = incoming[k].of /\ incoming[k].flight = tokens
      /\ received \in Nat
  BY BufferFacts DEF Takes
<1>2. PICK n \in Nat : n = received
  BY <1>1
<1>3. incoming \in Seq(Symbol) /\ incoming' = SubSeq(incoming, k + 1, n)
  BY <1>2 DEF TypeOK, TakesFromBuffer, Keep
<1>4. /\ incoming' \in Seq(Symbol) /\ Len(incoming') = n - k
      /\ \A i \in 1..(n - k) : incoming'[i] = incoming[k + i]
  <2>1. k + 1 \in 1..(n + 1) /\ k \in Nat /\ n = Len(incoming)
    BY <1>1, <1>2 DEF received
  <2>2. /\ incoming' \in Seq(Symbol) /\ Len(incoming') = n - k
    BY <1>3, <2>1
  <2>3. ASSUME NEW i \in 1..(n - k) PROVE incoming'[i] = incoming[k + i]
    <3>1. incoming'[i] = incoming[(k + 1) + i - 1]
      BY <1>3, <2>1
    <3>2. (k + 1) + i - 1 = k + i
      BY <2>1
    <3> QED
      BY <3>1, <3>2
  <2> QED
    BY <2>2, <2>3
<1>5. received' = received - k /\ received' \in Nat
  BY <1>1, <1>2, <1>4 DEF received
<1>6. front' = front + k /\ consumed' = consumed + k /\ arrived' = arrived /\ stream' = stream
  BY <1>1, <1>5, BufferFacts DEF front, TakesFromBuffer, Keep
<1>7. Window'
  <2>1. received' <= arrived'
    BY <1>1, <1>5, <1>6, BufferFacts
  <2>2. ASSUME NEW i \in 1..received' PROVE incoming'[i] = stream[front' + i]
    <3>1. PICK j \in 1..received : j = k + i /\ front + j = front' + i
      BY <1>1, <1>5, <1>6, BufferFacts
    <3>2. incoming'[i] = incoming[j]
      BY <1>2, <1>4, <1>5, <3>1
    <3> QED
      BY <3>1, <3>2, BufferFacts
  <2> QED
    BY <1>6, <2>1, <2>2 DEF Window
<1> QED
  BY <1>1, <1>4, <1>5, <1>6, <1>7, BufferFacts

\* What recv returns follows in the stream on what is in the buffer.
LEMMA ReceiveFacts ==
    ASSUME TypeOK, Window, Receive
    PROVE  /\ incoming' \in Seq(Symbol)
           /\ received' \in Nat /\ received' > 0 /\ received' <= BufferSize
           /\ arrived' \in 0..Len(stream) /\ arrived' > arrived
           /\ stream' = stream /\ consumed' = consumed /\ tokens' = tokens
           /\ front' = front
           /\ Window'
<1>1. PICK p \in 1..Len(stream) :
          /\ p > arrived /\ p - arrived <= BufferSize - received
          /\ arrived' = p
          /\ incoming' = incoming \o SubSeq(stream, arrived + 1, p)
  BY DEF Receive, Sent
<1>2. stream' = stream /\ consumed' = consumed /\ tokens' = tokens
  BY DEF Receive
<1>3. PICK m \in Nat, n \in Nat : m = arrived /\ n = received
  BY BufferFacts
<1>4. PICK new : new = SubSeq(stream, m + 1, p)
  OBVIOUS
<1>5. Len(stream) \in Nat /\ stream \in Seq(Symbol) /\ p \in Nat
  BY BufferFacts DEF Sequenced
<1>6. new \in Seq(Symbol) /\ Len(new) = p - m /\ \A i \in 1..(p - m) : new[i] = stream[m + i]
  <2>1. m + 1 \in 1..(Len(stream) + 1) /\ p \in m..Len(stream)
    BY <1>1, <1>3, <1>5
  <2>2. new \in Seq(Symbol) /\ Len(new) = p - m
    BY <1>4, <1>5, <2>1
  <2>3. ASSUME NEW i \in 1..(p - m) PROVE new[i] = stream[m + i]
    <3>1. new[i] = stream[(m + 1) + i - 1]
      BY <1>4, <1>5, <2>1
    <3>2. (m + 1) + i - 1 = m + i
      BY <1>5
    <3> QED
      BY <3>1, <3>2
  <2> QED
    BY <2>2, <2>3
<1>7. incoming \in Seq(Symbol) /\ Len(incoming) = n /\ incoming' = incoming \o new
  BY <1>1, <1>3, <1>4 DEF TypeOK, received
<1>8. /\ incoming' \in Seq(Symbol) /\ Len(incoming') = n + (p - m)
      /\ \A i \in 1..(n + (p - m)) : incoming'[i] = IF i <= n THEN incoming[i] ELSE new[i - n]
  <2>1. Len(incoming) + Len(new) = n + (p - m)
    BY <1>6, <1>7
  <2>2. /\ incoming \o new \in Seq(Symbol) /\ Len(incoming \o new) = Len(incoming) + Len(new)
        /\ \A i \in 1..Len(incoming) + Len(new) :
              (incoming \o new)[i] = IF i <= Len(incoming) THEN incoming[i]
                                     ELSE new[i - Len(incoming)]
    BY <1>6, <1>7, ConcatProperties
  <2> QED
    BY <1>7, <2>1, <2>2
<1>9. /\ received' = n + (p - m) /\ received' \in Nat /\ received' > 0 /\ received' <= BufferSize
  BY <1>1, <1>3, <1>5, <1>8, BufferFacts DEF received
<1>10. front' = front /\ received' <= arrived' /\ front + n = m /\ front \in Nat
  <2>1. front + n = m /\ front \in Nat /\ n <= m
    BY <1>3, BufferFacts
  <2>2. front' = p - (n + (p - m)) /\ front = m - n /\ arrived' = p
    BY <1>1, <1>3, <1>9 DEF front
  <2> QED
    BY <1>1, <1>3, <1>5, <1>9, <2>1, <2>2
<1>11. ASSUME NEW i \in 1..received' PROVE incoming'[i] = stream[front + i]
  <2>1. i \in 1..(n + (p - m)) /\ i \in Nat
    BY <1>5, <1>9
  <2>2. CASE i <= n
    <3>1. i \in 1..received
      BY <1>3, <2>1, <2>2
    <3> QED
      BY <1>8, <2>1, <2>2, <3>1, BufferFacts
  <2>3. CASE ~(i <= n)
    <3>1. i - n \in 1..(p - m) /\ m + (i - n) = front + i
      BY <1>5, <1>10, <2>1, <2>3
    <3> QED
      BY <1>6, <1>8, <2>1, <2>3, <3>1
  <2> QED
    BY <2>2, <2>3
<1>12. Window'
  BY <1>2, <1>10, <1>11 DEF Window
<1> QED
  BY <1>1, <1>2, <1>5, <1>8, <1>9, <1>10, <1>12

-------------------------------------------------------------------------------
(* The steps *)

\* An emptied buffer holds nothing of the stream.
LEMMA EmptyFacts ==
    ASSUME TypeOK, Window, EmptiesBuffer
    PROVE  received' = 0 /\ front' = arrived /\ stream' = stream /\ Window' /\ incoming' \in Seq(Symbol)
<1>1. received' = 0 /\ arrived' = arrived /\ stream' = stream /\ arrived \in Nat
  BY BufferFacts DEF EmptiesBuffer, received
<1> QED
  BY <1>1 DEF EmptiesBuffer, Window, front

\* The buffer stays a part of the stream.
LEMMA WindowStep ==
    ASSUME TypeOK, Window, [Next]_vars
    PROVE  Window'
<1>1. CASE KeepsBuffer
  BY <1>1 DEF KeepsBuffer, Window, front, received
<1>2. CASE EmptiesBuffer
  BY <1>2, EmptyFacts
<1>3. CASE \E k \in Takes : TakesFromBuffer(k)
  BY <1>3, TakeFacts
<1>4. CASE Receive
  BY <1>4, ReceiveFacts
<1> QED
  BY <1>1, <1>2, <1>3, <1>4, BufferSteps

\* The type invariant is kept.
LEMMA TypeStep ==
    ASSUME TypeOK, Window, ProgressInv, [Next]_vars
    PROVE  TypeOK'
<1> USE DEF handshakeVars
<1>1. stream' = stream
  <2>1. CASE KeepsBuffer \/ EmptiesBuffer
    BY <2>1 DEF KeepsBuffer, EmptiesBuffer
  <2>2. CASE \E k \in Takes : TakesFromBuffer(k)
    BY <2>2 DEF TakesFromBuffer
  <2>3. CASE Receive
    BY <2>3 DEF Receive
  <2> QED
    BY <2>1, <2>2, <2>3, BufferSteps
<1>2. pc' \in State
  BY DEF TypeOK, State, Setup, Next, vars, Step, Connecting, Acquire, After, AcquireFails, HandshakeFails,
         FirstToken, FirstTokenFails, SendToken, SendFails, Block, Receive, HungUp, ReceiveFails,
         StepDone, StepContinue, StepWantsCertificate, NoCertificate, WantsCertificateAgain,
         StepIncomplete, StepFails, Disconnect, SocketEnds
<1>3. held' \subseteq Resource
  BY DEF TypeOK, Resource, Next, vars, Step, Connecting, Acquire, AcquireFails, HandshakeFails,
         FirstToken, FirstTokenFails, SendToken, SendFails, Block, Receive, HungUp, ReceiveFails,
         StepDone, StepContinue, StepWantsCertificate, NoCertificate, WantsCertificateAgain,
         StepIncomplete, StepFails, Disconnect, SocketEnds
<1>4. /\ incoming' \in Seq(Symbol) /\ received' <= BufferSize
      /\ arrived' \in 0..Len(stream)
      /\ consumed' \in Nat /\ consumed' + received' <= arrived'
  <2>1. CASE KeepsBuffer
    BY <2>1 DEF KeepsBuffer, TypeOK, received
  <2>2. CASE EmptiesBuffer
    <3>1. consumed <= arrived
      BY BufferFacts
    <3> QED
      BY <2>2, <3>1, EmptyFacts, BufferFacts DEF EmptiesBuffer, TypeOK
  <2>3. ASSUME NEW k \in Takes, TakesFromBuffer(k)
        PROVE  /\ incoming' \in Seq(Symbol) /\ received' <= BufferSize
               /\ arrived' \in 0..Len(stream)
               /\ consumed' \in Nat /\ consumed' + received' <= arrived'
    <3>1. arrived' = arrived /\ arrived \in 0..Len(stream)
      BY <2>3 DEF TakesFromBuffer, TypeOK
    <3>2. /\ incoming' \in Seq(Symbol) /\ received' = received - k /\ k \in 1..received
          /\ consumed' = consumed + k
      BY <2>3, TakeFacts
    <3> QED
      BY <3>1, <3>2, BufferFacts
  <2>4. CASE Receive
    <3>1. front' = front /\ consumed' = consumed /\ arrived' \in 0..Len(stream) /\ received' \in Nat
      BY <2>4, ReceiveFacts
    <3>2. arrived' - received' = front
      BY <3>1 DEF front
    <3>3. consumed' + received' <= arrived'
      BY <3>1, <3>2, BufferFacts, SMTT(30)
    <3> QED
      BY <2>4, <3>1, <3>3, BufferFacts, ReceiveFacts
  <2> QED
    BY <2>1, <2>2, <2>3, <2>4, BufferSteps
<1>5. tokens' \in 0..LastFlight
  <2>1. CASE SendToken
    <3>1. tokens' = tokens + 1 /\ tokens \in Nat /\ tokens < LastFlight
      BY <2>1 DEF SendToken, ProgressInv, Flushed, TypeOK
    <3> QED
      BY <3>1, SizesAssumption
  <2>2. CASE tokens' = tokens
    BY <2>2 DEF TypeOK
  <2> QED
    BY <2>1, <2>2 DEF Next, vars, Step, Connecting, Acquire, AcquireFails, FirstToken, FirstTokenFails,
         SendFails, Block, Receive, HungUp, ReceiveFails, StepDone, StepContinue,
         StepWantsCertificate, NoCertificate, WantsCertificateAgain, StepIncomplete, StepFails,
         Disconnect, SocketEnds
<1>6. wants' \in BOOLEAN /\ socket' \in {"open", "closed", "error"}
  BY DEF TypeOK, Next, vars, Step, Connecting, Acquire, AcquireFails, FirstToken, FirstTokenFails, SendToken,
         SendFails, Block, Receive, HungUp, ReceiveFails, StepDone, StepContinue,
         StepWantsCertificate, NoCertificate, WantsCertificateAgain, StepIncomplete, StepFails,
         Disconnect, SocketEnds
<1> QED
  BY <1>1, <1>2, <1>3, <1>4, <1>5, <1>6 DEF TypeOK, received

\* Every path acquires and releases what it should.
LEMMA HeldStep ==
    ASSUME TypeOK, HeldInv, [Next]_vars
    PROVE  HeldInv'
<1> USE DEF handshakeVars
<1>1. CASE Acquire \/ AcquireFails
  <2>1. CASE Acquire
    <3>1. pc \in Setup /\ pc' = After[pc] /\ held' = held \cup ({pc} \cap Resource)
      BY <2>1 DEF Acquire
    <3>2. CASE pc = "wsa"
      BY <3>1, <3>2 DEF HeldInv, After, Resource
    <3>3. CASE pc = "socket"
      BY <3>1, <3>3 DEF HeldInv, After, Resource
    <3>4. CASE pc = "connect"
      BY <3>1, <3>4 DEF HeldInv, After, Resource
    <3>5. CASE pc = "credentials"
      BY <3>1, <3>5 DEF HeldInv, After, Resource
    <3> QED
      BY <3>1, <3>2, <3>3, <3>4, <3>5 DEF Setup
  <2>2. CASE AcquireFails
    <3>1. pc \in Setup /\ pc' = "failed" /\ held' = held \ Release[pc]
      BY <2>2 DEF AcquireFails
    <3>2. held' = {}
      BY <3>1 DEF HeldInv, Setup, Release
    <3> QED
      BY <3>1, <3>2 DEF HeldInv
  <2> QED
    BY <1>1, <2>1, <2>2
<1>2. CASE FirstToken
  BY <1>2 DEF FirstToken, HeldInv, Resource
<1>3. CASE HandshakeFails \/ Disconnect
  BY <1>3 DEF HandshakeFails, Disconnect, HeldInv, TypeOK, Resource
<1>4. CASE /\ UNCHANGED held
           /\ pc \in {"token", "room", "recv", "step", "again"}
           /\ pc' \in {"token", "room", "recv", "step", "again", "connected", "hungUp"}
  BY <1>4 DEF HeldInv
<1>5. CASE UNCHANGED <<pc, held>>
  BY <1>5 DEF HeldInv
<1> QED
  BY <1>1, <1>2, <1>3, <1>4, <1>5 DEF Next, vars, Step, Connecting, FirstTokenFails, SendToken, SendFails,
         Block, Receive, HungUp, ReceiveFails, StepDone, StepContinue, StepWantsCertificate,
         NoCertificate, WantsCertificateAgain, StepIncomplete, StepFails, SocketEnds

\* What can be taken starts with a message: nothing was dropped.
LEMMA TakesIntact ==
    ASSUME TypeOK, Window, ProgressInv, pc = "step", incoming[1].at = 1
    PROVE  /\ Intact /\ front < Len(stream)
           /\ incoming[1] = stream[front + 1] /\ front + 1 \in 1..Len(stream)
           /\ incoming[1].flight = tokens
<1>1. received > 0 /\ (Intact \/ Broken)
  BY DEF ProgressInv
<1>2. 1 \in 1..received
  BY <1>1, BufferFacts
<1>3. front + 1 \in 1..Len(stream) /\ incoming[1] = stream[front + 1]
  BY <1>2, BufferFacts
<1>4. ~Broken
  BY <1>3 DEF Broken
<1>5. front < Len(stream)
  BY <1>3, BufferFacts
<1> QED
  BY <1>1, <1>3, <1>4, <1>5 DEF Intact

\* When nothing can be taken, what is in the buffer is the first part of a
\* message: dropped, it leaves the stream in the middle of one.
LEMMA DropBreaks ==
    ASSUME TypeOK, Window, ProgressInv, pc = "step", incoming[1].at = 1, Takes = {}
    PROVE  /\ arrived < Len(stream) /\ stream[arrived + 1].at # 1
           /\ stream[arrived].at # stream[arrived].of /\ stream[arrived].flight = tokens
<1>1. /\ front < Len(stream) /\ front + 1 \in 1..Len(stream)
      /\ incoming[1] = stream[front + 1] /\ incoming[1].flight = tokens /\ received > 0
  BY TakesIntact DEF ProgressInv
<1>2. PICK of : of = stream[front + 1].of
  OBVIOUS
<1>3. PICK p \in 1..Len(stream) : p = front + 1
  BY <1>1
<1>4. /\ of \in Nat /\ of >= 1 /\ p + of - 1 <= Len(stream)
      /\ stream[p + of - 1].at = of /\ stream[p + of - 1].of = of
      /\ stream[p + of - 1].flight = tokens
  BY <1>1, <1>2, <1>3, MessageFacts, BufferFacts, SMTT(30)
<1> DEFINE Ends == {j \in 1..received : incoming[j].flight = tokens /\ incoming[j].at = incoming[j].of}
<1>5. Ends = {}
  <2>1. SUFFICES ASSUME Ends # {} PROVE FALSE
    OBVIOUS
  <2>2. PICK n \in Nat : n = received
    BY BufferFacts
  <2> DEFINE T == {d \in 0..n : n - d \in Ends}
  <2>3. T # {} /\ T \subseteq Nat
    <3>1. PICK j \in Ends : TRUE
      BY <2>1
    <3>2. n - j \in 0..n /\ n - (n - j) = j
      BY <2>2, <3>1
    <3> QED
      BY <3>1, <3>2
  <2>4. PICK d \in T : \A e \in T : d <= e
    BY <2>3, LeastNumber
  <2>5. PICK k \in Ends : k = n - d
    BY <2>4
  <2>6. ASSUME NEW j \in Ends PROVE j <= k
    <3>1. n - j \in T
      BY <2>2
    <3>2. d <= n - j
      BY <2>4, <3>1
    <3>3. j \in Nat /\ d \in Nat
      BY <2>2
    <3> QED
      BY <2>5, <3>2, <3>3
  <2>7. k \in Takes
    BY <2>6 DEF Takes
  <2> QED
    BY <2>7
<1>6. received < of
  <2>1. SUFFICES ASSUME ~(received < of) PROVE FALSE
    OBVIOUS
  <2>2. of \in 1..received /\ front + of = p + of - 1
    <3>1. PICK f \in Nat, n \in Nat : f = front /\ n = received
      BY BufferFacts
    <3>2. of \in 1..n /\ f + of = (f + 1) + of - 1
      BY <1>4, <2>1, <3>1
    <3> QED
      BY <1>3, <3>1, <3>2
  <2>3. incoming[of] = stream[p + of - 1]
    <3>1. \A i \in 1..received : incoming[i] = stream[front + i]
      BY BufferFacts
    <3>2. incoming[of] = stream[front + of]
      BY <2>2, <3>1
    <3> QED
      BY <2>2, <3>2
  <2> QED
    BY <1>4, <1>5, <2>2, <2>3
<1>7. arrived < Len(stream)
  BY <1>3, <1>4, <1>6, BufferFacts
<1>8. stream[arrived + 1] = [stream[p] EXCEPT !.at = received + 1]
  <2>1. \A i \in 1..of : stream[(p - 1) + i] = [stream[p] EXCEPT !.at = i]
    <3>1. stream[p].at = 1 /\ stream[p].of = of
      BY <1>1, <1>2, <1>3
    <3>2. \A i \in 1..stream[p].of : stream[(p - stream[p].at) + i] = [stream[p] EXCEPT !.at = i]
      BY BufferFacts DEF Sequenced
    <3> QED
      BY <3>1, <3>2
  <2>2. received + 1 \in 1..of /\ (p - 1) + (received + 1) = arrived + 1
    <3>1. received \in Nat /\ front \in Nat /\ front + received = arrived
      BY BufferFacts
    <3>2. received + 1 \in 1..of
      BY <1>4, <1>6, <3>1
    <3>3. p = front + 1
      BY <1>3
    <3> QED
      BY <3>1, <3>2, <3>3
  <2> QED
    BY <2>1, <2>2
<1>9. stream[p] \in Symbol
  BY SymbolFacts, BufferFacts
<1>10. stream[arrived + 1].at = received + 1
  BY <1>8, <1>9 DEF Symbol
<1>11. stream[arrived].at # stream[arrived].of /\ stream[arrived].flight = tokens
  <2>1. \A i \in 1..stream[p].of : stream[(p - stream[p].at) + i] = [stream[p] EXCEPT !.at = i]
    BY BufferFacts DEF Sequenced
  <2>2. stream[p].at = 1 /\ stream[p].of = of /\ stream[p].flight = tokens
    BY <1>1, <1>2, <1>3
  <2>3. received \in 1..of /\ (p - 1) + received = arrived /\ received # of
    <3>1. received \in Nat /\ front \in Nat /\ front + received = arrived
      BY BufferFacts
    <3>2. p = front + 1
      BY <1>3
    <3> QED
      BY <1>1, <1>4, <1>6, <3>1, <3>2
  <2>4. stream[arrived] = [stream[p] EXCEPT !.at = received]
    BY <2>1, <2>2, <2>3
  <2> QED
    BY <1>9, <2>2, <2>3, <2>4 DEF Symbol
<1> QED
  BY <1>1, <1>7, <1>10, <1>11, BufferFacts

\* Where the handshake is after a part of a flight, or a whole one, is taken.
LEMMA TakeProgress ==
    ASSUME TypeOK, Window, ProgressInv, pc = "step", NEW k \in Takes, TakesFromBuffer(k)
    PROVE  /\ ~incoming[k].final => Intact'
           /\ incoming[k].final => consumed' = front' /\ consumed' # 0 /\ EndOfFlight(consumed)'
           /\ received' < BufferSize
<1>1. incoming[1].at = 1
  BY DEF Takes
<1>2. consumed = front
  BY <1>1, TakesIntact DEF Intact
<1>3. /\ k \in 1..received /\ received' \in Nat /\ received' = received - k
      /\ front' = front + k /\ consumed' = consumed + k
      /\ stream[front + k] = incoming[k] /\ front + k \in 1..Len(stream)
      /\ incoming[k].at = incoming[k].of /\ incoming[k].flight = tokens
  BY TakeFacts
<1>4. stream' = stream /\ tokens' = tokens
  BY DEF TakesFromBuffer
<1>5. PICK q \in Nat : q = front + k /\ q >= 1
  BY <1>3
<1>6. consumed' = q /\ front' = q
  BY <1>2, <1>3, <1>5
<1>7. ASSUME ~incoming[k].final PROVE Intact'
  <2>1. ASSUME q < Len(stream) PROVE stream[q + 1].at = 1 /\ stream[q + 1].flight = tokens
    <3>1. stream[q].at = stream[q].of /\ ~stream[q].final /\ stream[q].flight = tokens
      BY <1>3, <1>5, <1>7
    <3>2. stream[q + 1].at = 1 /\ stream[q + 1].flight = stream[q].flight + 0
      BY <1>5, <2>1, <3>1, NextMessage, BufferFacts
    <3>3. tokens \in Nat
      BY SizesAssumption DEF TypeOK
    <3> QED
      BY <3>1, <3>2, <3>3
  <2> QED
    BY <1>4, <1>6, <2>1 DEF Intact
<1>8. ASSUME incoming[k].final PROVE consumed' # 0 /\ EndOfFlight(consumed)'
  BY <1>3, <1>4, <1>5, <1>6, <1>8 DEF EndOfFlight
<1>9. received' < BufferSize
  BY <1>3, BufferFacts, SMTT(30)
<1> QED
  BY <1>6, <1>7, <1>8, <1>9

\* Behind a flight that is complete comes the answer to the next token.
LEMMA TokenSent ==
    ASSUME TypeOK, Window, ProgressInv, SendToken
    PROVE  Intact'
<1>1. /\ pc = "token" /\ tokens' = tokens + 1 /\ UNCHANGED <<stream, incoming, arrived, consumed>>
  BY DEF SendToken
<1>2. Flushed
  BY <1>1 DEF ProgressInv
<1>3. PICK q \in Nat : q = front /\ q = consumed
  BY <1>2, BufferFacts DEF Flushed
<1>4. ASSUME q < Len(stream) PROVE stream[q + 1].at = 1 /\ stream[q + 1].flight = tokens + 1
  <2>1. CASE q = 0
    <3>1. tokens = 0 /\ 1 <= Len(stream) /\ q + 1 = 1
      BY <1>2, <1>3, <1>4, <2>1, BufferFacts DEF Flushed
    <3> QED
      BY <3>1, FirstByte, BufferFacts
  <2>2. CASE q # 0
    <3>1. stream[q].at = stream[q].of /\ stream[q].final /\ stream[q].flight = tokens
      BY <1>2, <1>3, <2>2 DEF Flushed, EndOfFlight
    <3> QED
      BY <1>4, <2>2, <3>1, NextMessage, BufferFacts
  <2> QED
    BY <2>1, <2>2
<1> QED
  BY <1>1, <1>3, <1>4 DEF Intact, front, received

\* The handshake goes on without loss, or not at all.
LEMMA ProgressStep ==
    ASSUME TypeOK, Window, ProgressInv, Next
    PROVE  ProgressInv'
<1> USE DEF handshakeVars
<1>1. CASE pc' \in {"failed", "hungUp", "closed"}
  BY <1>1 DEF ProgressInv, RoomLeft, LeftoverKept, Setup
<1>2. CASE Acquire
  BY <1>2 DEF Acquire, After, Setup, ProgressInv, RoomLeft, LeftoverKept
<1>3. CASE FirstToken
  <2>1. /\ pc' = "token" /\ consumed' = 0 /\ tokens' = 0 /\ arrived' = 0 /\ incoming' = <<>>
    BY <1>3 DEF FirstToken, ProgressInv, Setup
  <2>2. Flushed' /\ received' < BufferSize
    <3>1. received' = 0 /\ BufferSize > 0 /\ LastFlight > 0
      BY <2>1, SizesAssumption DEF received
    <3>2. front' = 0
      BY <2>1, <3>1 DEF front
    <3> QED
      BY <2>1, <3>1, <3>2, SizesAssumption DEF Flushed
  <2> QED
    BY <2>1, <2>2 DEF ProgressInv, RoomLeft, LeftoverKept, Setup
<1>4. CASE SendToken
  <2>1. /\ pc = "token" /\ pc' = "room" /\ tokens' = tokens + 1
        /\ UNCHANGED <<stream, incoming, arrived, consumed>>
    BY <1>4 DEF SendToken
  <2>2. received' < BufferSize
    BY <2>1 DEF received, ProgressInv
  <2>3. Intact'
    BY <1>4, TokenSent
  <2> QED
    BY <2>1, <2>2, <2>3 DEF ProgressInv, RoomLeft, LeftoverKept, Setup
<1>5. CASE Block
  <2>1. /\ pc = "room" /\ pc' = "recv" /\ UNCHANGED <<stream, incoming, arrived, consumed, tokens>>
    BY <1>5 DEF Block
  <2>2. Intact' \/ Broken'
    BY <2>1 DEF ProgressInv, Intact, Broken, front, received
  <2> QED
    BY <2>1, <2>2 DEF ProgressInv, RoomLeft, LeftoverKept, Setup
<1>6. CASE Receive
  <2>1. pc = "recv" /\ pc' = "step"
    BY <1>6 DEF Receive
  <2>2. /\ front' = front /\ stream' = stream /\ consumed' = consumed /\ tokens' = tokens
        /\ received' > 0
    BY <1>6, ReceiveFacts
  <2>3. Intact' \/ Broken'
    BY <2>1, <2>2 DEF ProgressInv, Intact, Broken
  <2> QED
    BY <2>1, <2>2, <2>3 DEF ProgressInv, RoomLeft, LeftoverKept, Setup
<1>7. CASE StepDone
  <2>1. PICK k \in Takes : incoming[k].final /\ tokens = LastFlight /\ TakesFromBuffer(k)
    BY <1>7 DEF StepDone, TakesFromBuffer
  <2>2. pc = "step" /\ pc' = "connected" /\ stream' = stream /\ arrived' = arrived
    BY <1>7 DEF StepDone
  <2>3. consumed' = front' /\ consumed' # 0 /\ EndOfFlight(consumed)' /\ tokens' = LastFlight
    BY <2>1, <2>2, TakeProgress DEF TakesFromBuffer
  <2>4. incoming' \in Seq(Symbol) /\ Window' /\ received' \in Nat
    BY <2>1, TakeFacts
  <2>5. LeftoverKept'
    <3>1. PICK c \in Nat : c = front' /\ c = consumed' /\ c \in 1..Len(stream)
      BY <2>1, <2>3, TakeFacts
    <3>2. stream[c].at = stream[c].of /\ stream[c].final /\ stream[c].flight = LastFlight
      BY <2>2, <2>3, <3>1 DEF EndOfFlight
    <3>3. ASSUME NEW p \in 1..Len(stream) PROVE stream[p].flight <= LastFlight <=> p <= c
      <4>1. ASSUME p <= c PROVE stream[p].flight <= LastFlight
        <5>1. c \in p..Len(stream)
          BY <3>1, <4>1
        <5> QED
          BY <3>2, <5>1, SymbolFacts, BufferFacts
      <4>2. ASSUME ~(p <= c) PROVE ~(stream[p].flight <= LastFlight)
        <5>1. c < Len(stream) /\ 1 <= c /\ c + 1 \in 1..Len(stream) /\ p \in (c + 1)..Len(stream)
          <6>1. PICK n \in Nat : n = Len(stream)
            BY BufferFacts
          <6>2. c \in Nat /\ p \in Nat /\ c < p /\ p <= n /\ 1 <= c
            BY <3>1, <4>2, <6>1
          <6> QED
            BY <6>1, <6>2
        <5>2. stream[c + 1].flight = LastFlight + 1
          BY <3>1, <3>2, <5>1, NextMessage, BufferFacts
        <5>3. PICK n \in 1..Len(stream) : n = c + 1
          BY <5>1
        <5>4. stream[n].flight <= stream[p].flight /\ stream[p].flight \in Nat
          BY <5>1, <5>3, SymbolFacts, BufferFacts
        <5> QED
          BY <5>2, <5>3, <5>4, SizesAssumption
      <4> QED
        BY <4>1, <4>2
    <3>4. incoming' = SubSeq(stream, c + 1, arrived)
      <4>1. PICK a \in Nat, n \in Nat : /\ a = arrived /\ n = received' /\ a = c + n
                                       /\ a <= Len(stream)
        <5>1. arrived \in 0..Len(stream) /\ arrived' - received' = c
          BY <3>1 DEF TypeOK, front
        <5>2. arrived \in Nat /\ received' \in Nat /\ arrived <= Len(stream)
          BY <2>4, BufferFacts
        <5>3. PICK a \in Nat, n \in Nat : a = arrived /\ n = received'
          BY <5>2
        <5>4. a - n = c
          BY <2>2, <5>1, <5>3
        <5>5. a = c + n
          BY <5>4
        <5> QED
          BY <5>2, <5>3, <5>5
      <4>2. PICK rest : rest = SubSeq(stream, c + 1, a)
        OBVIOUS
      <4>3. /\ stream \in Seq(Symbol) /\ c + 1 \in 1..(Len(stream) + 1) /\ a \in c..Len(stream)
            /\ Len(stream) \in Nat
        BY <3>1, <4>1, BufferFacts DEF Sequenced
      <4>4. /\ rest \in Seq(Symbol) /\ Len(rest) = n
            /\ \A i \in 1..n : rest[i] = stream[(c + 1) + i - 1]
        <5>0. a = c + n
          BY <4>1
        <5>1. c <= a /\ a - (c + 1) + 1 = n
          BY <5>0
        <5>2. /\ rest \in Seq(Symbol) /\ Len(rest) = a - (c + 1) + 1
              /\ \A i \in 1..(a - (c + 1) + 1) : rest[i] = stream[(c + 1) + i - 1]
          <6>0. c + 1 \in Nat
            OBVIOUS
          <6>1. PICK b \in Nat : b = c + 1
            BY <6>0
          <6>2. a <= Len(stream) /\ b >= 1
            BY <4>3, <6>1
          <6>3. (IF b <= a THEN a - b + 1 ELSE 0) = a - b + 1
            BY <5>0, <6>1
          <6>4. \A i \in b..a : stream[i] \in Symbol
            <7>1. \A i \in b..a : i \in 1..Len(stream)
              BY <4>3, <6>2
            <7> QED
              BY <4>3, <7>1
          <6>5. /\ SubSeq(stream, b, a) \in Seq(Symbol)
                /\ Len(SubSeq(stream, b, a)) = IF b <= a THEN a - b + 1 ELSE 0
                /\ \A i \in 1..(a - b + 1) : SubSeq(stream, b, a)[i] = stream[b + i - 1]
            BY <6>4, SubSeqProperties
          <6> QED
            BY <4>2, <6>1, <6>3, <6>5
        <5> QED
          BY <5>1, <5>2
      <4>5. \A i \in 1..n : incoming'[i] = stream[c + i]
        BY <2>2, <2>4, <3>1, <4>1 DEF Window
      <4>6. ASSUME NEW i \in 1..n PROVE rest[i] = stream[c + i]
        <5>1. rest[i] = stream[(c + 1) + i - 1]
          BY <4>4
        <5>2. (c + 1) + i - 1 = c + i
          BY <3>1
        <5> QED
          BY <5>1, <5>2
      <4>7. Len(incoming') = n
        BY <4>1 DEF received
      <4> QED
        BY <2>4, <4>1, <4>2, <4>4, <4>5, <4>6, <4>7, SeqEqual
    <3> QED
      BY <2>2, <3>1, <3>3, <3>4 DEF LeftoverKept
  <2> QED
    BY <2>2, <2>5 DEF ProgressInv, RoomLeft, Setup
<1>8. CASE StepContinue
  <2>1. PICK k \in Takes : /\ ~(incoming[k].final /\ tokens = LastFlight)
                           /\ TakesFromBuffer(k)
                           /\ pc' = IF incoming[k].final THEN "token" ELSE "room"
    BY <1>8 DEF StepContinue, TakesFromBuffer
  <2>2. pc = "step"
    BY <1>8 DEF StepContinue
  <2>3. received' < BufferSize
    BY <2>1, <2>2, TakeProgress
  <2>4. CASE ~incoming[k].final
    <3>1. Intact'
      BY <2>1, <2>2, <2>4, TakeProgress
    <3> QED
      BY <2>1, <2>3, <2>4, <3>1 DEF ProgressInv, RoomLeft, LeftoverKept, Setup
  <2>5. CASE incoming[k].final
    <3>1. consumed' = front' /\ consumed' # 0 /\ EndOfFlight(consumed)'
      BY <2>1, <2>2, <2>5, TakeProgress
    <3>2. tokens' < LastFlight
      BY <2>1, <2>5, SizesAssumption DEF TypeOK, TakesFromBuffer
    <3> QED
      BY <2>1, <2>3, <2>5, <3>1, <3>2 DEF ProgressInv, Flushed, RoomLeft, LeftoverKept, Setup
  <2> QED
    BY <2>4, <2>5
<1>9. CASE StepWantsCertificate
  <2>1. PICK k \in Takes : incoming[k].final /\ tokens < LastFlight /\ TakesFromBuffer(k)
    BY <1>9 DEF StepWantsCertificate, TakesFromBuffer
  <2>2. pc = "step" /\ pc' = "again" /\ tokens' = tokens
    BY <1>9 DEF StepWantsCertificate
  <2>3. consumed' = front' /\ consumed' # 0 /\ EndOfFlight(consumed)' /\ received' < BufferSize
    BY <2>1, <2>2, TakeProgress
  <2> QED
    BY <2>1, <2>2, <2>3 DEF ProgressInv, Flushed, RoomLeft, LeftoverKept, Setup
<1>10. CASE NoCertificate
  <2>1. /\ pc = "again" /\ pc' = "token"
        /\ UNCHANGED <<stream, incoming, arrived, consumed, tokens>>
    BY <1>10 DEF NoCertificate
  <2>2. Flushed' /\ received' < BufferSize
    BY <2>1 DEF ProgressInv, Flushed, EndOfFlight, front, received
  <2> QED
    BY <2>1, <2>2 DEF ProgressInv, RoomLeft, LeftoverKept, Setup
<1>11. CASE StepIncomplete
  <2>1. /\ pc = "step" /\ incoming[1].at = 1 /\ Takes = {} /\ pc' = "room" /\ EmptiesBuffer
    BY <1>11 DEF StepIncomplete, EmptiesBuffer
  <2>2. received' = 0 /\ front' = arrived /\ stream' = stream
    BY <2>1, EmptyFacts
  <2>3. Broken' /\ received' < BufferSize
    BY <2>1, <2>2, DropBreaks, SizesAssumption DEF Broken
  <2> QED
    BY <2>1, <2>3 DEF ProgressInv, RoomLeft, LeftoverKept, Setup
<1>12. CASE SocketEnds
  <2>1. UNCHANGED <<pc, stream, incoming, arrived, consumed, tokens>>
    BY <1>12 DEF SocketEnds
  <2> QED
    BY <2>1 DEF ProgressInv, RoomLeft, LeftoverKept, Flushed, EndOfFlight, Intact, Broken, front, received
<1> QED
  BY <1>1, <1>2, <1>3, <1>4, <1>5, <1>6, <1>7, <1>8, <1>9, <1>10, <1>11, <1>12
     DEF Next, Step, Connecting, AcquireFails, HandshakeFails, FirstTokenFails, SendFails, HungUp,
         ReceiveFails, WantsCertificateAgain, StepFails, Disconnect

-------------------------------------------------------------------------------
(* A server in service *)

\* Taking the messages of a flight leaves nothing of what was received whole,
\* but the data behind the handshake.
LEMMA NothingLeft ==
    ASSUME TypeOK, Window, ProgressInv, pc = "step", WholeReceived, Intact,
           NEW k \in Takes, TakesFromBuffer(k), ~(incoming[k].final /\ tokens = LastFlight)
    PROVE  received' = 0
<1>1. /\ k \in 1..received /\ received' = received - k /\ stream[front + k] = incoming[k]
      /\ front + k \in 1..Len(stream) /\ incoming[k].at = incoming[k].of /\ incoming[k].flight = tokens
  BY TakeFacts
<1>2. PICK a \in Nat, n \in Nat, f \in Nat : a = arrived /\ n = received /\ f = front /\ f + n = a
  BY BufferFacts
<1>3. PICK c \in Nat : c = f + k /\ c \in 1..Len(stream)
  BY <1>1, <1>2
<1>4. SUFFICES ASSUME c < a PROVE FALSE
  <2>1. c <= a /\ n - k \in Nat /\ (n - k > 0 => c < a)
    BY <1>1, <1>2, <1>3
  <2> QED
    BY <1>1, <1>2, <2>1
<1>5. a <= Len(stream) /\ Len(stream) \in Nat /\ Sequenced(stream)
  BY <1>2, BufferFacts
<1>6. PICK p \in 1..Len(stream) : p = c + 1 /\ a \in p..Len(stream) /\ a \in 1..Len(stream)
  BY <1>3, <1>4, <1>5
<1>7. stream[p].at = 1 /\ stream[p].flight = tokens + (IF incoming[k].final THEN 1 ELSE 0)
  BY <1>1, <1>2, <1>3, <1>4, <1>5, <1>6, NextMessage
<1>8. /\ stream[p].flight <= stream[a].flight
      /\ stream[p].flight \in Nat /\ stream[a].flight \in Nat /\ tokens \in Nat /\ LastFlight \in Nat
      /\ tokens <= LastFlight
  BY <1>5, <1>6, SymbolFacts, SizesAssumption DEF TypeOK
<1>9. CASE incoming[k].final
  <2>1. tokens < LastFlight
    BY <1>8, <1>9
  <2>2. stream[a].flight <= tokens
    BY <1>2, <2>1 DEF WholeReceived
  <2> QED
    BY <1>7, <1>8, <1>9, <2>2
<1>10. CASE ~incoming[k].final
  <2>1. PICK of : of = stream[p].of
    OBVIOUS
  <2>2. /\ of \in Nat /\ of >= 1 /\ p + of - 1 <= Len(stream)
        /\ stream[p + of - 1].at = of /\ stream[p + of - 1].of = of
        /\ stream[p + of - 1].flight = stream[p].flight
    BY <1>5, <1>7, <2>1, MessageFacts
  <2>3. stream[p].flight = tokens
    BY <1>7, <1>8, <1>10
  <2>4. PICK e \in Nat : e = p + of - 1 /\ e >= p
    BY <2>2
  <2>5. CASE e <= a
    <3>1. PICK j \in 1..received : e = front + j /\ j > k
      <4>0. PICK m \in Nat : m = k /\ c = f + m
        BY <1>1, <1>2, <1>3
      <4>1. e - f \in 1..n /\ e - f > k /\ f + (e - f) = e
        <5>1. e >= c + 1 /\ f + n = a /\ c = f + m
          BY <1>2, <1>6, <2>4, <4>0
        <5>2. e - f \in 1..n /\ e - f > m /\ f + (e - f) = e
          BY <2>5, <5>1
        <5> QED
          BY <4>0, <5>2
      <4> QED
        BY <1>2, <4>1
    <3>2. incoming[j] = stream[e]
      BY <3>1, BufferFacts
    <3>3. incoming[j].flight = tokens /\ incoming[j].at = incoming[j].of
      BY <2>2, <2>3, <2>4, <3>2
    <3>4. j <= k
      BY <3>3 DEF Takes
    <3>5. j \in Nat /\ k \in Nat
      BY <1>1, <1>2
    <3> QED
      BY <3>1, <3>4, <3>5
  <2>6. CASE a < e
    <3>1. \A i \in 1..stream[p].of : stream[(p - stream[p].at) + i] = [stream[p] EXCEPT !.at = i]
      BY <1>5 DEF Sequenced
    <3>2. PICK i \in 1..of : (p - 1) + i = a /\ i # of
      <4>1. a - (p - 1) \in 1..of /\ (p - 1) + (a - (p - 1)) = a /\ a - (p - 1) # of
        BY <1>6, <2>2, <2>4, <2>6
      <4> QED
        BY <4>1
    <3>3. stream[a] = [stream[p] EXCEPT !.at = i] /\ stream[p] \in Symbol
      BY <1>5, <1>7, <2>1, <3>1, <3>2, SymbolFacts
    <3>4. stream[a].at = i /\ stream[a].of = of /\ stream[a].flight = tokens
      BY <2>1, <2>3, <3>3 DEF Symbol
    <3>5. stream[a].flight > LastFlight
      BY <1>2, <3>2, <3>4 DEF WholeReceived
    <3> QED
      BY <1>8, <3>4, <3>5
  <2> QED
    BY <1>6, <2>4, <2>5, <2>6
<1> QED
  BY <1>9, <1>10

\* A message of a flight that was asked for is taken when it was received.
LEMMA ServedTake ==
    ASSUME TypeOK, Window, ProgressInv, ServedInv, Undisturbed, pc = "step"
    PROVE  Takes # {} /\ incoming[1].at = 1
<1>1. Intact /\ WholeReceived /\ received > 0
  BY DEF ServedInv, ProgressInv
<1>2. 1 \in 1..received
  BY <1>1, BufferFacts
<1>3. front + 1 \in 1..Len(stream) /\ incoming[1] = stream[front + 1]
  BY <1>2, BufferFacts
<1>4. incoming[1].at = 1
  BY <1>1, <1>3, BufferFacts DEF Intact
<1>5. Takes # {}
  <2>1. SUFFICES ASSUME Takes = {} PROVE FALSE
    OBVIOUS
  <2>2. stream[arrived].at # stream[arrived].of /\ stream[arrived].flight = tokens
    BY <1>4, <2>1, DropBreaks
  <2>3. stream[arrived].flight > LastFlight
    BY <1>1, <2>2 DEF WholeReceived
  <2>4. tokens \in Nat /\ LastFlight \in Nat /\ tokens <= LastFlight
    BY SizesAssumption DEF TypeOK
  <2> QED
    BY <2>2, <2>3, <2>4
<1> QED
  BY <1>4, <1>5

\* What comes is a message that the server was asked for.
LEMMA ServedReceive ==
    ASSUME TypeOK, Window, ProgressInv, ServedInv, Undisturbed, Receive
    PROVE  Intact' /\ Unfinished' /\ WholeReceived'
<1>1. PICK p \in Sent : MayCut(p) /\ arrived' = p
  BY DEF Receive
<1>2. /\ front' = front /\ stream' = stream /\ consumed' = consumed /\ tokens' = tokens /\ pc = "recv"
  BY ReceiveFacts DEF Receive
<1>3. Intact /\ Unfinished
  BY <1>2 DEF ServedInv
<1>4. stream[p].at = stream[p].of \/ stream[p].flight > LastFlight
  BY <1>1 DEF MayCut, Undisturbed
<1>5. tokens < LastFlight => stream[p].flight <= tokens
  BY <1>1, SizesAssumption DEF Sent, TypeOK
<1> QED
  BY <1>1, <1>2, <1>3, <1>4, <1>5 DEF Intact, Unfinished, WholeReceived

\* A server in service is served.
LEMMA ServedStep ==
    ASSUME TypeOK, Window, ProgressInv, ServedInv, Next
    PROVE  ServedInv'
<1> USE DEF handshakeVars
<1>1. SUFFICES ASSUME Undisturbed PROVE ServedInv'
  BY DEF Next, lineVars, ServedInv, Undisturbed
<1>2. /\ socket = "open" /\ faults = {} /\ ~anyCut
      /\ pc \notin {"again", "failed", "hungUp"}
      /\ tokens \in Nat /\ LastFlight \in Nat /\ tokens <= LastFlight
  BY <1>1, SizesAssumption DEF ServedInv, Undisturbed, TypeOK
<1>3. ~AcquireFails /\ ~FirstTokenFails /\ ~SendFails /\ ~HungUp /\ ~ReceiveFails /\ ~SocketEnds
      /\ ~StepWantsCertificate /\ ~NoCertificate /\ ~WantsCertificateAgain
  BY <1>2 DEF AcquireFails, FirstTokenFails, SendFails, HungUp, ReceiveFails, SocketEnds,
              StepWantsCertificate, NoCertificate, WantsCertificateAgain
<1>4. ~StepIncomplete /\ ~StepFails
  BY <1>1, <1>2, ServedTake DEF StepIncomplete, StepFails
<1>5. CASE Acquire
  BY <1>2, <1>5 DEF Acquire, After, Setup, ServedInv
<1>6. CASE FirstToken
  <2>1. received' = 0
    BY <1>6 DEF FirstToken, received
  <2> QED
    BY <1>2, <1>6, <2>1 DEF FirstToken, ServedInv
<1>7. CASE SendToken
  <2>1. /\ pc = "token" /\ pc' = "room" /\ tokens' = tokens + 1 /\ socket' = socket
        /\ UNCHANGED <<stream, incoming, arrived, consumed>>
    BY <1>7 DEF SendToken
  <2>2. Intact'
    BY <1>7, TokenSent
  <2>3. received' = 0
    BY <1>1, <2>1 DEF ServedInv, received
  <2>4. Unfinished'
    <3>1. Flushed
      BY <2>1 DEF ProgressInv
    <3> QED
      BY <1>2, <2>1, <3>1 DEF Flushed, EndOfFlight, Unfinished
  <2> QED
    BY <1>2, <2>1, <2>2, <2>3, <2>4 DEF ServedInv
<1>8. CASE Block
  <2>1. /\ pc = "room" /\ pc' = "recv" /\ UNCHANGED <<stream, incoming, arrived, consumed, tokens, socket>>
    BY <1>8 DEF Block
  <2>2. Intact /\ Unfinished /\ received = 0
    BY <1>1, <2>1 DEF ServedInv
  <2> QED
    BY <1>2, <2>1, <2>2 DEF ServedInv, Intact, Unfinished, front, received
<1>9. CASE Receive
  <2>1. pc' = "step" /\ socket' = socket
    BY <1>9 DEF Receive
  <2> QED
    BY <1>1, <1>2, <1>9, <2>1, ServedReceive DEF ServedInv
<1>10. CASE StepDone \/ Disconnect
  BY <1>2, <1>10 DEF StepDone, Disconnect, ServedInv
<1>11. CASE StepContinue
  <2>1. PICK k \in Takes : /\ ~(incoming[k].final /\ tokens = LastFlight)
                           /\ TakesFromBuffer(k)
                           /\ pc' = IF incoming[k].final THEN "token" ELSE "room"
    BY <1>11 DEF StepContinue, TakesFromBuffer
  <2>2. pc = "step" /\ socket' = socket /\ stream' = stream /\ tokens' = tokens
    BY <1>11 DEF StepContinue
  <2>3. Intact /\ WholeReceived
    BY <1>1, <2>2 DEF ServedInv
  <2>4. received' = 0
    BY <2>1, <2>2, <2>3, NothingLeft
  <2>5. CASE incoming[k].final
    BY <1>2, <2>1, <2>2, <2>4, <2>5 DEF ServedInv
  <2>6. CASE ~incoming[k].final
    <3>1. Intact'
      BY <2>1, <2>2, <2>6, TakeProgress
    <3>2. /\ consumed' = front + k /\ stream[front + k] = incoming[k]
          /\ incoming[k].at = incoming[k].of /\ incoming[k].flight = tokens
      <4>1. consumed' = consumed + k /\ consumed = front
        BY <2>1, <2>3, TakeFacts DEF Intact
      <4> QED
        BY <2>1, <4>1, TakeFacts
    <3>3. Unfinished'
      BY <1>2, <2>2, <2>6, <3>2 DEF Unfinished
    <3> QED
      BY <1>2, <2>1, <2>2, <2>4, <2>6, <3>1, <3>3 DEF ServedInv
  <2> QED
    BY <2>5, <2>6
<1> QED
  BY <1>3, <1>4, <1>5, <1>6, <1>7, <1>8, <1>9, <1>10, <1>11 DEF Next, Step, Connecting

\* Where it reads, the next message of the flight is under way.
LEMMA MessageUnderWay ==
    ASSUME TypeOK, Window, ServedInv, Undisturbed, pc = "recv", CompleteHandshake(stream)
    PROVE  \E p \in Sent : p > arrived /\ p - arrived <= BufferSize - received /\ MayCut(p)
<1>1. Intact /\ Unfinished /\ received = 0
  BY DEF ServedInv
<1>2. /\ Sequenced(stream) /\ Len(stream) \in Nat /\ BufferSize \in Nat
      /\ tokens \in Nat /\ LastFlight \in Nat /\ tokens <= LastFlight
  BY BufferFacts, SizesAssumption DEF TypeOK
<1>3. PICK c \in Nat : c = consumed /\ c = front /\ c = arrived /\ c <= Len(stream)
  BY <1>1, BufferFacts DEF Intact
<1>4. c < Len(stream)
  <2>1. SUFFICES ASSUME c = Len(stream) PROVE FALSE
    BY <1>2, <1>3
  <2>2. PICK e \in 1..Len(stream) :
           stream[e].flight = LastFlight /\ stream[e].final /\ stream[e].at = stream[e].of
    BY DEF CompleteHandshake
  <2>3. e \in Nat /\ 1 <= e /\ e <= c /\ c # 0 /\ c \in e..Len(stream) /\ c \in 1..Len(stream)
    BY <1>2, <2>1
  <2>4. /\ stream[c].flight <= tokens
        /\ ~(stream[c].final /\ stream[c].flight = LastFlight)
    BY <1>1, <1>3, <2>3 DEF Unfinished
  <2>5. stream[c].flight = LastFlight
    <3>1. stream[e].flight <= stream[c].flight /\ stream[c].flight \in Nat
      BY <1>2, <2>3, SymbolFacts
    <3> QED
      BY <1>2, <2>2, <2>4, <3>1
  <2>6. e < c
    <3>1. e # c
      BY <2>2, <2>4, <2>5
    <3> QED
      BY <2>3, <3>1
  <2>7. PICK p \in 1..Len(stream) : p = e + 1 /\ c \in p..Len(stream)
    BY <1>2, <2>1, <2>3, <2>6
  <2>8. stream[p].flight = LastFlight + 1
    BY <1>2, <2>1, <2>2, <2>3, <2>6, <2>7, NextMessage
  <2>9. stream[p].flight <= stream[c].flight
    BY <1>2, <2>7, SymbolFacts
  <2> QED
    BY <1>2, <2>5, <2>8, <2>9
<1>5. PICK p \in 1..Len(stream) : p = c + 1
  BY <1>2, <1>4
<1>6. stream[p].at = 1 /\ stream[p].flight = tokens
  BY <1>1, <1>3, <1>4, <1>5 DEF Intact
<1>7. PICK of : of = stream[p].of
  OBVIOUS
<1>8. /\ of \in Nat /\ of >= 1 /\ of <= BufferSize /\ p + of - 1 <= Len(stream)
      /\ stream[p + of - 1].at = of /\ stream[p + of - 1].of = of
      /\ stream[p + of - 1].flight = tokens
  BY <1>2, <1>6, <1>7, MessageFacts
<1>9. PICK e \in 1..Len(stream) : e = p + of - 1 /\ e = c + of
  BY <1>2, <1>5, <1>8
<1>10. e > arrived /\ e - arrived <= BufferSize - received
  BY <1>1, <1>2, <1>3, <1>8, <1>9
<1>11. e \in Sent /\ MayCut(e)
  BY <1>2, <1>8, <1>9 DEF Sent, MayCut
<1> QED
  BY <1>10, <1>11

-------------------------------------------------------------------------------
(* The theorems *)

\* tls_connect begins with nothing.
LEMMA InitInv == Init => IInv
<1> SUFFICES ASSUME Init PROVE IInv
  OBVIOUS
<1>1. Sequenced(stream) /\ Len(stream) \in Nat
  BY StreamsAssumption DEF Init, Sequenced
<1>2. received = 0 /\ front = 0
  <2>1. received = 0
    BY DEF Init, received
  <2> QED
    BY <2>1 DEF Init, front
<1>3. TypeOK
  <2>1. /\ incoming \in Seq(Symbol) /\ received <= BufferSize
        /\ arrived \in 0..Len(stream)
        /\ consumed \in Nat /\ consumed + received <= arrived
    BY <1>1, <1>2, SizesAssumption DEF Init
  <2>2. tokens \in 0..LastFlight
    BY SizesAssumption DEF Init
  <2> QED
    BY <1>1, <2>1, <2>2 DEF Init, TypeOK, State, Setup
<1>4. Window
  BY <1>2 DEF Init, Window
<1>5. HeldInv /\ ProgressInv
  BY DEF Init, HeldInv, ProgressInv, Setup, RoomLeft, LeftoverKept
<1> QED
  BY <1>3, <1>4, <1>5 DEF IInv

\* The invariant holds in every state.
LEMMA Invariance == Spec => []IInv
<1>1. ASSUME IInv, UNCHANGED vars PROVE ProgressInv'
  BY <1>1 DEF vars, IInv, ProgressInv, RoomLeft, LeftoverKept, Flushed, EndOfFlight, Intact, Broken,
              front, received
<1>2. ASSUME IInv, [Next]_vars PROVE IInv'
  BY <1>1, <1>2, TypeStep, WindowStep, HeldStep, ProgressStep DEF IInv
<1> QED
  BY <1>2, InitInv, PTL DEF Spec

\* The buffer is never filled beyond its size, and no token is sent but in
\* answer to a flight.
THEOREM TypeCorrect == Spec => []TypeOK
<1>1. IInv => TypeOK
  BY DEF IInv
<1> QED
  BY <1>1, Invariance, PTL

\* Whatever fails, tls_connect has released everything when it returns an
\* error, and holds everything when it returns 0.
THEOREM ReleasesAll == Spec => []NothingLeaks
<1>1. IInv => NothingLeaks
  BY DEF IInv, HeldInv, NothingLeaks
<1> QED
  BY <1>1, Invariance, PTL

\* However the messages of the handshake are cut, a connection it made has
\* all of them, and the application data behind them is in the buffer.
THEOREM DataBehindHandshakeKept == Spec => []LeftoverKept
<1>1. IInv => LeftoverKept
  BY DEF IInv, ProgressInv
<1> QED
  BY <1>1, Invariance, PTL

\* The buffer is never full when more of the handshake is to be read: the
\* error for one that is stands for none whose messages each fit the buffer.
THEOREM BufferHasRoom == Spec => []RoomLeft
<1>1. IInv => RoomLeft
  BY DEF IInv, ProgressInv
<1> QED
  BY <1>1, Invariance, PTL

\* There is room whenever more is read, and as long as nothing goes wrong and no
\* handshake message comes in pieces, the call does not give up, and whenever it reads, a message that fits the buffer
\* is under way: it and a server never wait for each other, whatever flights
\* and messages the handshake has.
THEOREM ServerIsServed == Spec => []NeverStuck
<1>1. Init => ServedInv
  BY DEF Init, ServedInv
<1>2. IInv /\ ServedInv /\ [Next]_vars => ServedInv'
  <2>1. ASSUME ServedInv, UNCHANGED vars PROVE ServedInv'
    BY <2>1 DEF vars, lineVars, ServedInv, Undisturbed, Intact, Unfinished, WholeReceived, front, received
  <2> QED
    BY <2>1, ServedStep DEF IInv
<1>3. IInv /\ ServedInv => NeverStuck
  <2> SUFFICES ASSUME IInv, ServedInv, Undisturbed, CompleteHandshake(stream)
               PROVE  /\ pc \notin {"failed", "hungUp"}
                      /\ pc = "recv" => \E p \in Sent : /\ p > arrived /\ MayCut(p)
                                                       /\ p - arrived <= BufferSize - received
    <3>1. IInv => RoomLeft
      BY DEF IInv, ProgressInv
    <3> QED
      BY <3>1 DEF NeverStuck, Undisturbed
  <2>1. pc \notin {"failed", "hungUp"}
    BY DEF ServedInv
  <2> QED
    BY <2>1, MessageUnderWay DEF IInv
<1> QED
  BY <1>1, <1>2, <1>3, Invariance, PTL DEF Spec
=============================================================================
