------------------------------ MODULE LineReader ------------------------------
(***************************************************************************)
(* imap_read_line of src/imap_client.c (lines 54-140) on its two buffers,  *)
(* byte by byte.  The first read of a call starts with both buffers        *)
(* zeroed; the reads that follow it in the same call find in the caller's  *)
(* buffer the line before, and in LocalBuffer what was left over.          *)
(*                                                                         *)
(* A byte is its place in the server's text, NUL is 0: so a stale byte is  *)
(* told from a fresh one.  A buffer is a sequence of such places.          *)
(***************************************************************************)
EXTENDS Integers, Sequences, FiniteSetsExt

CONSTANTS
    BufferSize,     \* IMAP_DEFAULT_READ_BUFFER_SIZE
    LocalSize,      \* IMAP_LOCAL_READ_BUFFER_SIZE
    MaxRecord,      \* the most bytes one tls_read returns: those of a record
    Texts,          \* what the server may send: sequences of "x", "CR", "LF"
    WholeLines      \* do records end with a line? TRUE, FALSE or both

ASSUME SizesAssumption ==
    /\ MaxRecord \in Nat \ {0}
    /\ BufferSize \in Nat /\ MaxRecord < BufferSize
    /\ LocalSize \in Nat /\ BufferSize < LocalSize
\* An IMAP server ends its lines with CR LF and sends no LF without CR.
ASSUME TextsAssumption ==
    \A t \in Texts : /\ t \in Seq({"x", "CR", "LF"})
                     /\ \A i \in 1..Len(t) : t[i] = "LF" => i > 1 /\ t[i - 1] = "CR"
ASSUME WholeLinesAssumption == WholeLines \subseteq BOOLEAN

VARIABLES
    text,               \* what the server sends
    wholeLines,         \* its records end with a line
    arrived,            \* how many bytes of it tls_read has returned
    pc,                 \* "idle", "entered", "reading", "undefined"
    Buffer,             \* the caller's Line
    LocalBuffer,
    LocalBufferSize,
    Received,
    fresh,              \* history: this is the first read of a call
    origin              \* history: the text from where a first read reads

serverVars == <<text, wholeLines>>
callerVars == <<fresh, origin>>
vars == <<serverVars, arrived, pc, Buffer, LocalBuffer, LocalBufferSize, Received, callerVars>>

Zeros(size) == [i \in 1..size |-> 0]

Init ==
    /\ text \in Texts
    /\ wholeLines \in WholeLines
    /\ arrived = 0
    /\ pc = "idle"
    /\ Buffer = Zeros(BufferSize)
    /\ LocalBuffer = Zeros(LocalSize)
    /\ LocalBufferSize = 0
    /\ Received = 0
    /\ fresh = FALSE
    /\ origin = 0

-----------------------------------------------------------------------------
(* memmove and StrStrA *)

\* memory with bytes copied to it from offset on.
Overlay(memory, offset, bytes) ==
    [i \in DOMAIN memory |-> IF i - offset \in 1..Len(bytes) THEN bytes[i - offset] ELSE memory[i]]

Is(byte, char) == byte # 0 /\ text[byte] = char

\* The places just after an end of line, in what a string in memory holds.
LineEnds(memory) ==
    {i \in 2..Len(memory) : /\ Is(memory[i - 1], "CR") /\ Is(memory[i], "LF")
                            /\ \A j \in 1..(i - 2) : memory[j] # 0}

HasLine(memory) == LineEnds(memory) # {}
Position(memory) == Min(LineEnds(memory))

\* StrStrA would read past the end of the memory.
Unterminated(memory) == ~HasLine(memory) /\ \A i \in DOMAIN memory : memory[i] # 0

-----------------------------------------------------------------------------
(* The calls *)

\* Mutant: the callers do not set Line to zero.
NewCallDirty ==
    /\ pc = "idle"
    /\ pc' = "entered"
    /\ LocalBuffer' = Zeros(LocalSize)
    /\ LocalBufferSize' = 0
    /\ fresh' = TRUE
    /\ origin' = arrived + 1
    /\ UNCHANGED <<serverVars, arrived, Buffer, Received>>

\* The first read of a call: Line is zeroed by the caller, and ClearBuffer
\* is TRUE.
NewCall ==
    /\ pc = "idle"
    /\ pc' = "entered"
    /\ Buffer' = Zeros(BufferSize)
    /\ LocalBuffer' = Zeros(LocalSize)
    /\ LocalBufferSize' = 0
    /\ fresh' = TRUE
    /\ origin' = arrived + 1
    /\ UNCHANGED <<serverVars, arrived, Received>>

\* A further one, in the loops of imap_login, imap_examine and imap_search.
NextRead ==
    /\ pc = "idle"
    /\ pc' = "entered"
    /\ fresh' = FALSE
    /\ origin' = 0
    /\ UNCHANGED <<serverVars, arrived, Buffer, LocalBuffer, LocalBufferSize, Received>>

Undefined ==
    /\ pc' = "undefined"
    /\ UNCHANGED <<serverVars, arrived, Buffer, LocalBuffer, LocalBufferSize, Received, callerVars>>

-----------------------------------------------------------------------------
(* imap_read_line before its loop *)

\* Mutant: the rest of the contents is not pushed back.
ReturnKeptInPlace ==
    /\ pc = "entered"
    /\ LocalBufferSize > 0
    /\ HasLine(LocalBuffer)
    /\ LET Bytes == Position(LocalBuffer) IN
          IF Bytes > LocalBufferSize \/ Bytes >= BufferSize
          THEN Undefined
          ELSE /\ Buffer' = Overlay(Buffer, 0, Append(SubSeq(LocalBuffer, 1, Bytes), 0))
               /\ LocalBufferSize' = LocalBufferSize - Bytes
               /\ Received' = Bytes
               /\ pc' = "idle"
               /\ UNCHANGED <<serverVars, arrived, LocalBuffer, callerVars>>

\* A line is taken from LocalBuffer, and the rest pushed back; what lies
\* behind the rest stays.  A negative count makes memmove run away.
ReturnKept ==
    /\ pc = "entered"
    /\ LocalBufferSize > 0
    /\ HasLine(LocalBuffer)
    /\ LET Bytes == Position(LocalBuffer) IN
          IF Bytes > LocalBufferSize \/ Bytes >= BufferSize
          THEN Undefined
          ELSE /\ Buffer' = Overlay(Buffer, 0, Append(SubSeq(LocalBuffer, 1, Bytes), 0))
               /\ LocalBuffer' = Overlay(LocalBuffer, 0,
                                         SubSeq(LocalBuffer, Bytes + 1, LocalBufferSize))
               /\ LocalBufferSize' = LocalBufferSize - Bytes
               /\ Received' = Bytes
               /\ pc' = "idle"
               /\ UNCHANGED <<serverVars, arrived, callerVars>>

\* The beginning of a line moves to the caller's buffer.
TakePartial ==
    /\ pc = "entered"
    /\ LocalBufferSize > 0
    /\ ~HasLine(LocalBuffer)
    /\ Buffer' = Overlay(Buffer, 0, Append(SubSeq(LocalBuffer, 1, LocalBufferSize), 0))
    /\ Received' = LocalBufferSize
    /\ LocalBufferSize' = 0
    /\ pc' = "reading"
    /\ UNCHANGED <<serverVars, arrived, LocalBuffer, callerVars>>

StartEmpty ==
    /\ pc = "entered"
    /\ LocalBufferSize = 0
    /\ Received' = 0
    /\ pc' = "reading"
    /\ UNCHANGED <<serverVars, arrived, Buffer, LocalBuffer, LocalBufferSize, callerVars>>

-----------------------------------------------------------------------------
(* The loop *)

\* The sizes of the next record.  tls_read is always offered BufferSize
\* bytes, from Buffer + Received on.
RecordSizes ==
    {n \in 1..MaxRecord : /\ arrived + n <= Len(text)
                          /\ wholeLines => text[arrived + n] = "LF"}

\* What a read of n bytes leaves in Buffer.
Filled(n) == Overlay(Buffer, Received, [i \in 1..n |-> arrived + i])

\* Mutant: the spare bytes are taken from one place too far.
SpareOffByOne(n) ==
    LET filled == Filled(n)
        end == Position(filled)
        total == Received + n
    IN IF HasLine(filled) /\ total > end
       THEN /\ Buffer' = [filled EXCEPT ![end + 1] = 0]
            /\ LocalBuffer' = Overlay(LocalBuffer, 0, SubSeq(filled, end + 2, total))
            /\ LocalBufferSize' = total - end
       ELSE /\ Buffer' = filled
            /\ UNCHANGED <<LocalBuffer, LocalBufferSize>>

\* Mutant: the count of the spare bytes is subtracted the wrong way round.
SpareSwapped(n) ==
    LET filled == Filled(n)
        end == Position(filled)
        total == Received + n
    IN IF HasLine(filled) /\ total > end
       THEN /\ Buffer' = [filled EXCEPT ![end + 1] = 0]
            /\ LocalBuffer' = Overlay(LocalBuffer, 0, SubSeq(filled, end + 1, total))
            /\ LocalBufferSize' = end - total
       ELSE /\ Buffer' = filled
            /\ UNCHANGED <<LocalBuffer, LocalBufferSize>>

\* The bytes behind the end of the line are kept for later.
Spare(n) ==
    LET filled == Filled(n)
        end == Position(filled)
        total == Received + n
    IN IF HasLine(filled) /\ total > end
       THEN /\ Buffer' = [filled EXCEPT ![end + 1] = 0]
            /\ LocalBuffer' = Overlay(LocalBuffer, 0, SubSeq(filled, end + 1, total))
            /\ LocalBufferSize' = total - end
       ELSE /\ Buffer' = filled
            /\ UNCHANGED <<LocalBuffer, LocalBufferSize>>

\* One tls_read; without an end of line in Buffer there is another one.
Read(n) ==
    /\ pc = "reading"
    /\ IF Received + n > BufferSize \/ Unterminated(Filled(n))
       THEN Undefined
       ELSE /\ Spare(n)
            /\ Received' = Received + n
            /\ arrived' = arrived + n
            /\ pc' = IF HasLine(Filled(n)) THEN "idle" ELSE "reading"
            /\ UNCHANGED <<serverVars, callerVars>>

\* tls_read reports an error or the end; the caller gives up, and the next
\* connection starts with a call to imap_init.
ReadFails ==
    /\ pc = "reading"
    /\ pc' = "failed"
    /\ UNCHANGED <<serverVars, arrived, Buffer, LocalBuffer, LocalBufferSize, Received, callerVars>>

Reads == \E n \in RecordSizes : Read(n)

Next ==
    \/ NewCall \/ NextRead
    \/ ReturnKept \/ TakePartial \/ StartEmpty
    \/ Reads \/ ReadFails

Spec == Init /\ [][Next]_vars

-----------------------------------------------------------------------------
Memory(size) == [1..size -> 0..Len(text)]

TypeOK ==
    /\ text \in Texts
    /\ wholeLines \in BOOLEAN
    /\ arrived \in 0..Len(text)
    /\ pc \in {"idle", "entered", "reading", "failed", "undefined"}
    /\ Buffer \in Memory(BufferSize)
    /\ LocalBuffer \in Memory(LocalSize)
    /\ LocalBufferSize \in 0..LocalSize
    /\ Received \in 0..BufferSize
    /\ fresh \in BOOLEAN
    /\ origin \in 0..(Len(text) + 1)

\* The ends of the lines of the text.
Ends == {i \in 2..Len(text) : text[i - 1] = "CR" /\ text[i] = "LF"}

\* The text from one place to the end of the line there.
LineFrom(place) == [i \in 1..(Min({e \in Ends : e >= place}) - place + 1) |-> place + i - 1]

\* The line the parser sees in the caller's buffer.
Returned == SubSeq(Buffer, 1, Position(Buffer))

\* A first read that starts where a line does returns that line, in however
\* many records it came and whatever came with it (imap_client.c:97-137).
FirstReadExact ==
    (pc = "idle" /\ fresh /\ (origin = 1 \/ origin - 1 \in Ends))
        => HasLine(Buffer) /\ Returned = LineFrom(origin)

\* Lines that fit in the buffer together with a record: in any run of more
\* bytes there is the end of one.
LinesFit ==
    LET room == BufferSize - MaxRecord
    IN \A i \in 1..(Len(text) - room) : \E e \in (i + 1)..(i + room) : e \in Ends

\* A first read stays within its buffers although each tls_read is offered
\* the size of the whole buffer, as long as the longest line and a record
\* fit in it together (imap_client.c:100-102).
FirstReadInBounds == LinesFit /\ pc = "undefined" => ~fresh

\* Those of a sequence that are in a set.
Only(s, set) ==
    LET from[i \in 1..(Len(s) + 1)] ==
            CASE i > Len(s)                    -> <<>>
              [] i <= Len(s) /\ s[i] \in set   -> <<s[i]>> \o from[i + 1]
              [] OTHER                         -> from[i + 1]
    IN from[1]

\* The lines as LineQueue has them: each by the place of its end.
Lines(places) == Only(places, Ends)
WholeLine == IF HasLine(Buffer) /\ Buffer[1] # 0 /\ Returned = LineFrom(Buffer[1])
             THEN Buffer[Position(Buffer)] ELSE 0

\* Only records that end with lines make a queue of lines.
Queue == INSTANCE LineQueue WITH
    coming <- IF wholeLines THEN Lines([i \in 1..(Len(text) - arrived) |-> arrived + i]) ELSE <<>>,
    kept   <- IF wholeLines THEN Lines(SubSeq(LocalBuffer, 1, LocalBufferSize)) ELSE <<>>,
    line   <- IF wholeLines THEN WholeLine ELSE 0

\* When records end with lines, the reads of every call are those of a queue
\* of lines, whatever the buffers still hold of earlier ones
\* (imap_client.c:54-140).
ImplementsLineQueue == Queue!Spec

\* ... and every read stays within its buffers (imap_client.c:66-95).
WholeLinesInBounds == wholeLines => pc # "undefined"

\* The only read that leaves the buffers is a further one of a call, after a
\* record that ended inside a line, or one of a text with a line too long for
\* the buffer and a record (imap_client.c:66-102).
InBounds == FirstReadInBounds /\ WholeLinesInBounds
=============================================================================
