------------------------------- MODULE TlsWrite -------------------------------
(***************************************************************************)
(* tls_write of src/tls.c (lines 251-300): a message is cut into records   *)
(* of at most cbMaximumMessage bytes, and each record is sent in as many   *)
(* pieces as send takes.  The server decrypts the records it has all of.   *)
(* EncryptMessage and send are external.                                   *)
(***************************************************************************)
EXTENDS Integers, Sequences, FiniteSets

CONSTANTS
    MaximumMessage, \* sizes.cbMaximumMessage
    Header,         \* sizes.cbHeader
    Trailer,        \* sizes.cbTrailer
    MaxSize,        \* the longest message
    MaxCalls,       \* bound: how many messages are written
    Faults          \* what may fail: "encrypt", "send"

ASSUME WriteAssumption ==
    /\ MaximumMessage \in Nat \ {0}
    /\ Header \in Nat /\ Trailer \in Nat /\ Header + Trailer > 0
    /\ MaxSize \in Nat /\ MaxCalls \in Nat
    /\ Faults \subseteq {"encrypt", "send"}

VARIABLES
    pc,         \* "idle", "loop" or, in the inner loop, "send"
    calls,      \* how many calls there were
    said,       \* how many bytes the callers have passed in all
    size,       \* the bytes of this call that are not sent yet
    record,     \* the plaintext of the record in wbuffer: numbers of bytes
    sent,       \* how many of its bytes are sent
    wire,       \* the ciphertext the server has got
    status      \* "open" while calls return 0; "failed": one returned -1

vars == <<pc, calls, said, size, record, sent, wire, status>>

Init ==
    /\ pc = "idle"
    /\ calls = 0 /\ said = 0 /\ size = 0 /\ sent = 0
    /\ record = <<>>
    /\ wire = <<>>
    /\ status = "open"

\* imap_command writes a message; after an error it disconnects instead.
Call ==
    /\ pc = "idle" /\ status = "open" /\ calls < MaxCalls
    /\ calls' = calls + 1
    /\ size' \in 0..MaxSize
    /\ said' = said + size'
    /\ pc' = "loop"
    /\ UNCHANGED <<record, sent, wire, status>>

Return ==
    /\ pc = "loop" /\ size = 0
    /\ pc' = "idle"
    /\ UNCHANGED <<calls, said, size, record, sent, wire, status>>

\* Mutant: the whole rest of the message goes into one record.
EncryptAll ==
    /\ pc = "loop" /\ size # 0
    /\ record' = [i \in 1..size |-> said - size + i]
    /\ sent' = 0
    /\ pc' = "send"
    /\ UNCHANGED <<calls, said, size, wire, status>>

\* Mutant: the record is made of the end of the message.
EncryptEnd ==
    LET use == IF size <= MaximumMessage THEN size ELSE MaximumMessage
    IN  /\ pc = "loop" /\ size # 0
        /\ record' = [i \in 1..use |-> said - use + i]
        /\ sent' = 0
        /\ pc' = "send"
        /\ UNCHANGED <<calls, said, size, wire, status>>

\* Lines 256-283.
Encrypt ==
    LET use == IF size <= MaximumMessage THEN size ELSE MaximumMessage
    IN  /\ pc = "loop" /\ size # 0
        /\ record' = [i \in 1..use |-> said - size + i]
        /\ sent' = 0
        /\ pc' = "send"
        /\ UNCHANGED <<calls, said, size, wire, status>>

EncryptFails ==
    /\ "encrypt" \in Faults
    /\ pc = "loop" /\ size # 0
    /\ pc' = "idle"
    /\ status' = "failed"
    /\ UNCHANGED <<calls, said, size, record, sent, wire>>

total == Header + Len(record) + Trailer

Ciphertext ==
    [i \in 1..total |->
        [at |-> i, of |-> total,
         byte |-> IF i \in (Header + 1)..(Header + Len(record)) THEN record[i - Header] ELSE 0]]

\* Mutant: each send starts with the record's first byte.
SendFromStart ==
    /\ pc = "send" /\ sent # total
    /\ sent' \in (sent + 1)..total
    /\ wire' = wire \o SubSeq(Ciphertext, 1, sent' - sent)
    /\ UNCHANGED <<pc, calls, said, size, record, status>>

\* Lines 284-293: send takes some of what is left.
Send ==
    /\ pc = "send" /\ sent # total
    /\ sent' \in (sent + 1)..total
    /\ wire' = wire \o SubSeq(Ciphertext, sent + 1, sent')
    /\ UNCHANGED <<pc, calls, said, size, record, status>>

SendFails ==
    /\ "send" \in Faults
    /\ pc = "send" /\ sent # total
    /\ pc' = "idle"
    /\ status' = "failed"
    /\ UNCHANGED <<calls, said, size, record, sent, wire>>

\* Mutant: one send is taken to be enough.
RecordSentOnce ==
    /\ pc = "send" /\ sent > 0
    /\ size' = size - Len(record)
    /\ pc' = "loop"
    /\ UNCHANGED <<calls, said, record, sent, wire, status>>

\* Lines 295-296.
RecordSent ==
    /\ pc = "send" /\ sent = total
    /\ size' = size - Len(record)
    /\ pc' = "loop"
    /\ UNCHANGED <<calls, said, record, sent, wire, status>>

\* Everything is written, or the connection is given up.
Finished ==
    /\ pc = "idle" /\ (status = "failed" \/ calls = MaxCalls)
    /\ UNCHANGED vars

Next ==
    \/ Call \/ Return
    \/ Encrypt \/ EncryptFails
    \/ Send \/ SendFails \/ RecordSent
    \/ Finished

Spec == Init /\ [][Next]_vars

-------------------------------------------------------------------------------
TypeOK ==
    /\ pc \in {"idle", "loop", "send"}
    /\ calls \in 0..MaxCalls
    /\ said \in 0..(MaxCalls * MaxSize) /\ size \in 0..MaxSize
    /\ record \in Seq(Nat) /\ Len(record) <= MaximumMessage
    /\ sent \in 0..total
    /\ wire \in Seq([at : Nat, of : Nat, byte : Nat])
    /\ status \in {"open", "failed"}

\* Where on the wire plaintext is, in the records the server has all of.
Plain ==
    {p \in 1..Len(wire) :
        wire[p].byte # 0 /\ \E q \in p..Len(wire) : wire[q].at = wire[q].of}

\* The plaintext the server decrypts, in the order in which it comes.
Decrypted ==
    [i \in 1..Cardinality(Plain) |->
        wire[CHOOSE p \in Plain : Cardinality({q \in Plain : q <= p}) = i].byte]

\* What reaches the server is records behind each other, however send cut
\* them: each byte continues its record or starts the next one when that was
\* complete (tls.c:282-293).
WireFramed ==
    \A p \in 1..Len(wire) :
        IF p = 1 \/ wire[p - 1].at = wire[p - 1].of
        THEN wire[p].at = 1
        ELSE wire[p].at = wire[p - 1].at + 1 /\ wire[p].of = wire[p - 1].of

\* tls.c:251 "returns 0 on success": when no call has failed, the server has
\* got all that was said in the calls that returned.
ZeroMeansAllSent == pc = "idle" /\ status = "open" => Len(Decrypted) = said

\* The server gets the callers' bytes in order, none of them twice.
B == INSTANCE ByteStream WITH
        data <- [i \in 1..(MaxCalls * MaxSize) |-> i], delivered <- Decrypted
ImplementsByteStream == B!Spec
=============================================================================
