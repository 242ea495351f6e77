-------------------------------- MODULE TlsRead --------------------------------
(***************************************************************************)
(* tls_read of src/tls.c (lines 302-415): plaintext out of a TLS           *)
(* connection, through the buffer "incoming" in which records are          *)
(* collected, decrypted in place and removed.                              *)
(*                                                                         *)
(* The server's ciphertext is a sequence of symbols, one for each byte,    *)
(* that say where in which record the byte stands.  One recv returns any   *)
(* piece of it.  DecryptMessage and recv are external.                     *)
(***************************************************************************)
EXTENDS Integers, Sequences

CONSTANTS
    BufferSize,     \* TLS_MAX_PACKET_SIZE, the size of "incoming"
    Header,         \* bytes of a record before its plaintext
    Trailer,        \* bytes of a record after its plaintext
    ReadSizes,      \* what callers pass as "size"
    Streams,        \* what a server may send, each a sequence of symbols
    Faults          \* what the socket may do: "close", "error"

\* "data": application data.  "close": the peer's close_notify.
\* "handshake": a renegotiation.  "junk": what DecryptMessage cannot read.
Kind == {"data", "close", "handshake", "junk"}

\* The byte "at" of a record that has "of" bytes, "before" which the stream
\* has that many bytes of plaintext.
Symbol == [kind : Kind, at : Nat, of : Nat, before : Nat]

\* The number of plaintext bytes in the record of a symbol.
Payload(s) == IF s.kind = "data" THEN s.of - Header - Trailer ELSE 0

\* The number of the plaintext byte a symbol turns into, 0 if into none.
Plaintext(s) ==
    IF s.at \in (Header + 1)..(Header + Payload(s)) THEN s.before + s.at - Header ELSE 0

\* A stream is whole records, of lengths the buffer is made for, one behind
\* the other, and nothing follows a close_notify.
Framed(s) ==
    /\ s \in Seq(Symbol)
    /\ \A p \in 1..Len(s) :
          LET start == p - s[p].at
          IN  /\ s[p].at \in 1..s[p].of
              /\ s[p].kind # "junk" => s[p].of <= BufferSize
              /\ s[p].kind = "data" => s[p].of >= Header + Trailer
              /\ s[p].kind = "close" => start + s[p].of = Len(s)
              /\ start >= 0 /\ start + s[p].of <= Len(s)
              /\ \A i \in 1..s[p].of : s[start + i] = [s[p] EXCEPT !.at = i]
              /\ s[p].before = IF start = 0 THEN 0 ELSE s[start].before + Payload(s[start])

\* All plaintext of a stream.
PlaintextLength(s) == IF s = <<>> THEN 0 ELSE s[Len(s)].before + Payload(s[Len(s)])

ASSUME SizesAssumption ==
    /\ BufferSize \in Nat \ {0}
    /\ Header \in Nat \ {0}
    /\ Trailer \in Nat
    /\ ReadSizes \subseteq Nat \ {0}
ASSUME StreamsAssumption == \A s \in Streams : Framed(s)
ASSUME FaultsAssumption == Faults \subseteq {"close", "error"}

VARIABLES
    stream,     \* the server's ciphertext, first byte to last
    arrived,    \* how many of its bytes recv has returned
    socket,     \* "open", "closed" by the peer, or in "error"
    incoming,   \* s->incoming, as far as s->received
    used,       \* s->used
    available,  \* s->available
    decrypted,  \* s->decrypted: an index into incoming, 0 for NULL
    pc,         \* "idle": no call; "loop": in its loop; "recv": blocked in recv
    size,       \* the room left in the caller's buffer
    copied,     \* what the call has copied; "result" is its length
    delivered,  \* all bytes that calls have returned
    status      \* what calls have told: bytes ("open"), 0, or a negative value

socketVars == <<stream, arrived, socket>>
tlsVars    == <<incoming, used, available, decrypted>>
callVars   == <<pc, size, copied, delivered, status>>
vars       == <<socketVars, tlsVars, callVars>>

received == Len(incoming)

Smaller(a, b) == IF a <= b THEN a ELSE b

\* tls_connect leaves in the buffer what came behind the handshake.
Init ==
    /\ stream \in Streams
    /\ arrived \in 0..Smaller(BufferSize, Len(stream))
    /\ incoming = SubSeq(stream, 1, arrived)
    /\ socket = "open"
    /\ used = 0 /\ available = 0 /\ decrypted = 0
    /\ pc = "idle"
    /\ size = 0
    /\ copied = <<>>
    /\ delivered = <<>>
    /\ status = "open"

-------------------------------------------------------------------------------
(* What DecryptMessage says of the buffer *)

StartsRecord == received > 0 /\ incoming[1].at = 1

Unreadable ==
    received > 0 /\ (~StartsRecord \/ (incoming[1].kind = "junk" /\ incoming[1].of <= BufferSize))

Complete == StartsRecord /\ ~Unreadable /\ incoming[1].of <= received

\* SEC_E_INCOMPLETE_MESSAGE: the first record is not all there.  Junk that
\* starts like a record too long for the buffer never is.
Incomplete == StartsRecord /\ ~Unreadable /\ incoming[1].of > received

-------------------------------------------------------------------------------
(* tls_read *)

\* A call of imap_read_line.
Call ==
    /\ pc = "idle"
    /\ size' \in ReadSizes
    /\ pc' = "loop"
    /\ UNCHANGED <<socketVars, tlsVars, copied, delivered, status>>

\* The call ends with the number of bytes it has copied.
ReturnBytes ==
    /\ pc' = "idle"
    /\ size' = 0
    /\ copied' = <<>>
    /\ delivered' = delivered \o copied
    /\ UNCHANGED status

\* The call ends with 0 or a negative value, whatever it has copied.
ReturnNone(told) ==
    /\ pc' = "idle"
    /\ size' = 0
    /\ copied' = <<>>
    /\ status' = told
    /\ UNCHANGED delivered

\* size = 0: the loop ends.
Filled ==
    /\ pc = "loop" /\ size = 0
    /\ ReturnBytes
    /\ UNCHANGED <<socketVars, tlsVars>>

\* "use" decrypted bytes are copied.
Copy(use) ==
    /\ pc = "loop" /\ size # 0 /\ decrypted # 0
    /\ copied' = copied \o [i \in 1..use |-> Plaintext(incoming[decrypted + i - 1])]
    /\ size' = size - use
    /\ UNCHANGED <<socketVars, pc, delivered, status>>

\* Mutant: an empty record is taken for a disconnect.
TakeAllEmptyEnds ==
    /\ available <= size
    /\ pc = "loop" /\ size # 0 /\ decrypted # 0
    /\ copied' = copied \o [i \in 1..available |-> Plaintext(incoming[decrypted + i - 1])]
    /\ size' = size - available
    /\ pc' = IF copied' = <<>> THEN "idle" ELSE pc
    /\ status' = IF copied' = <<>> THEN "ended" ELSE status
    /\ incoming' = SubSeq(incoming, used + 1, received)
    /\ used' = 0 /\ available' = 0 /\ decrypted' = 0
    /\ UNCHANGED <<socketVars, delivered>>

\* Lines 319-327: a record that is used up leaves the buffer.
TakeAll ==
    /\ available <= size
    /\ Copy(available)
    /\ incoming' = SubSeq(incoming, used + 1, received)
    /\ used' = 0 /\ available' = 0 /\ decrypted' = 0

\* Mutant: the subtraction is the wrong way round.
TakeSomeSwapped ==
    /\ available > size
    /\ Copy(size)
    /\ available' = size - available
    /\ decrypted' = decrypted + size
    /\ UNCHANGED <<incoming, used>>

\* Mutant: the record leaves the buffer although bytes of it are left.
TakeSomeDropsRest ==
    /\ available > size
    /\ Copy(size)
    /\ incoming' = SubSeq(incoming, used + 1, received)
    /\ used' = 0 /\ available' = 0 /\ decrypted' = 0

\* Mutant: the pointer is not moved past what was copied.
TakeSomeStays ==
    /\ available > size
    /\ Copy(size)
    /\ available' = available - size
    /\ UNCHANGED <<incoming, used, decrypted>>

\* Lines 328-332.
TakeSome ==
    /\ available > size
    /\ Copy(size)
    /\ available' = available - size
    /\ decrypted' = decrypted + size
    /\ UNCHANGED <<incoming, used>>

\* Nothing is decrypted, and the loop looks at the ciphertext.
AtCiphertext == pc = "loop" /\ size # 0 /\ decrypted = 0

\* SEC_E_OK, lines 352-364.
Decrypt ==
    /\ AtCiphertext
    /\ Complete /\ incoming[1].kind = "data"
    /\ decrypted' = Header + 1
    /\ available' = Payload(incoming[1])
    /\ used' = incoming[1].of
    /\ UNCHANGED <<socketVars, incoming, callVars>>

\* Mutant: 0 is returned although bytes were copied.
ContextExpiredReturnsZero ==
    /\ AtCiphertext
    /\ Complete /\ incoming[1].kind = "close"
    /\ incoming' = <<>>
    /\ ReturnNone("ended")
    /\ UNCHANGED <<socketVars, used, available, decrypted>>

\* SEC_I_CONTEXT_EXPIRED, lines 365-370.
ContextExpired ==
    /\ AtCiphertext
    /\ Complete /\ incoming[1].kind = "close"
    /\ incoming' = <<>>
    /\ \/ copied # <<>> /\ ReturnBytes
       \/ copied = <<>> /\ ReturnNone("ended")
    /\ UNCHANGED <<socketVars, used, available, decrypted>>

\* SEC_I_RENEGOTIATE and errors, lines 371-380.
DecryptFails ==
    /\ AtCiphertext
    /\ Unreadable \/ (Complete /\ incoming[1].kind = "handshake")
    /\ ReturnNone("failed")
    /\ UNCHANGED <<socketVars, tlsVars>>

AtRecv == AtCiphertext /\ (received = 0 \/ Incomplete)

\* Lines 385-389: what is copied is returned before recv could block.
ReturnBeforeRecv ==
    /\ AtRecv
    /\ copied # <<>>
    /\ ReturnBytes
    /\ UNCHANGED <<socketVars, tlsVars>>

\* Mutant: the last byte of the buffer is not used.
BufferFullEarly ==
    /\ AtRecv
    /\ copied = <<>>
    /\ received >= BufferSize - 1
    /\ ReturnNone("failed")
    /\ UNCHANGED <<socketVars, tlsVars>>

\* Lines 391-395.
BufferFull ==
    /\ AtRecv
    /\ copied = <<>>
    /\ received = BufferSize
    /\ ReturnNone("failed")
    /\ UNCHANGED <<socketVars, tlsVars>>

\* Mutant: the call waits until the caller's buffer is full.
BlockWithBytes ==
    /\ AtRecv
    /\ received # BufferSize
    /\ pc' = "recv"
    /\ UNCHANGED <<socketVars, tlsVars, size, copied, delivered, status>>

\* Lines 397-398.
Block ==
    /\ AtRecv
    /\ copied = <<>>
    /\ received # BufferSize
    /\ pc' = "recv"
    /\ UNCHANGED <<socketVars, tlsVars, size, copied, delivered, status>>

\* recv returns some of what is under way, as much as there is room for.
Receive ==
    /\ pc = "recv" /\ socket = "open"
    /\ arrived' \in (arrived + 1)..Smaller(Len(stream), arrived + BufferSize - received)
    /\ incoming' = incoming \o SubSeq(stream, arrived + 1, arrived')
    /\ pc' = "loop"
    /\ UNCHANGED <<stream, socket, used, available, decrypted, size, copied, delivered,
                   status>>

\* Lines 399-403: recv returned 0.
Disconnected ==
    /\ pc = "recv" /\ socket = "closed"
    /\ ReturnNone("ended")
    /\ UNCHANGED <<socketVars, tlsVars>>

\* Lines 404-409.
ReceiveFails ==
    /\ pc = "recv" /\ socket = "error"
    /\ ReturnNone("failed")
    /\ UNCHANGED <<socketVars, tlsVars>>

TlsRead ==
    \/ Filled \/ TakeAll \/ TakeSome
    \/ Decrypt \/ ContextExpired \/ DecryptFails
    \/ ReturnBeforeRecv \/ BufferFull \/ Block
    \/ Receive \/ Disconnected \/ ReceiveFails

-------------------------------------------------------------------------------
(* The peer hangs up, or the connection breaks, under a recv or between calls. *)

PeerCloses ==
    /\ "close" \in Faults /\ socket = "open"
    /\ socket' = "closed"
    /\ UNCHANGED <<stream, arrived, tlsVars, callVars>>

ConnectionBreaks ==
    /\ "error" \in Faults /\ socket # "error"
    /\ socket' = "error"
    /\ UNCHANGED <<stream, arrived, tlsVars, callVars>>

Next == Call \/ TlsRead \/ PeerCloses \/ ConnectionBreaks

Spec == Init /\ [][Next]_vars

\* A caller that reads on; what is under way arrives.
ReadingSpec == Spec /\ WF_vars(Call) /\ WF_vars(TlsRead)

-------------------------------------------------------------------------------
TypeOK ==
    /\ Framed(stream)
    /\ arrived \in 0..Len(stream)
    /\ socket \in {"open", "closed", "error"}
    /\ incoming \in Seq(Symbol) /\ received <= BufferSize
    /\ used \in Nat /\ available \in Nat /\ decrypted \in Nat
    /\ pc \in {"idle", "loop", "recv"}
    /\ size \in Nat
    /\ copied \in Seq(Nat) /\ delivered \in Seq(Nat)
    /\ status \in {"open", "ended", "failed"}

\* The decrypted bytes that are left lie inside the record at the front of
\* the buffer, up to its trailer, through any sequence of short reads
\* (tls.c:8-11, 319-332).
PointersInRecord ==
    decrypted # 0 =>
        /\ used <= received
        /\ incoming[1].at = 1 /\ incoming[1].of = used
        /\ decrypted > Header
        /\ decrypted + available + Trailer = used + 1

\* recv is only called when it is needed, and with room for an answer: nothing
\* is held back in the caller's buffer or decrypted in the other one, and calls
\* have returned every byte of the records that are here as a whole, so a peer
\* that has sent all it has to say is never waited for with an answer of it in
\* the buffer (tls.c:319-332, 387 "return that before blocking with recv").
BlocksOnlyForMore ==
    pc = "recv" =>
        /\ copied = <<>> /\ decrypted = 0 /\ received < BufferSize
        /\ status = "open" =>
              \A p \in 1..arrived :
                  stream[p].at = stream[p].of => stream[p].before + Payload(stream[p]) <= Len(delivered)

\* A call that tells of a disconnect has seen one: an empty record is none
\* (tls.c:303, 367, 401).
EndIsReal ==
    status = "ended" =>
        \/ socket # "open"
        \/ arrived = Len(stream) /\ stream[arrived].kind = "close"

\* A call only fails when the connection is broken or the server sent what
\* cannot be read: records of legal size always fit the buffer, whatever
\* piece of the next one came with them (tls.c:391-395).
FailureIsReal ==
    status = "failed" =>
        socket = "error" \/ \E p \in 1..Len(stream) : stream[p].kind \in {"handshake", "junk"}

\* What the calls return is the server's plaintext, in order, and nothing
\* comes after an end that was told.
B == INSTANCE ByteStream WITH data <- [i \in 1..PlaintextLength(stream) |-> i]
ImplementsByteStream == B!Spec

\* A caller that goes on reading gets all of it, unless the connection ends
\* or breaks (tls.c:303-413).
AllDelivered ==
    (\A p \in 1..Len(stream) : stream[p].kind \in {"data", "close"})
        => <>(Len(delivered) = PlaintextLength(stream) \/ socket # "open")
=============================================================================
