------------------------------ MODULE MCTlsRead ------------------------------
(* Instances of TlsRead small enough for TLC. *)
EXTENDS TlsRead, SequencesExt

CONSTANTS
    Payloads,       \* the plaintext lengths of data records
    OtherKinds,     \* the kinds of the other records a stream may have
    MaxRecords      \* how many records a stream has

\* A record behind a stream.
WithRecord(s, kind, of) ==
    LET before == IF s = <<>> THEN 0
                  ELSE Last(s).before
                       + Payload(Last(s))
    IN  s \o [i \in 1..of |-> [kind |-> kind, at |-> i, of |-> of, before |-> before]]

Shapes == {<<"data", Header + n + Trailer>> : n \in Payloads} 
            \cup {<<kind, 1>> : kind \in OtherKinds}
            \cup {<<kind, BufferSize + 1>> : kind \in OtherKinds \cap {"junk"}}

\* A close_notify only as the last record.
Lists == {l \in BoundedSeq(Shapes, MaxRecords) :
            \A i \in 1..Len(l) : l[i][1] = "close" => i = Len(l)}

AllStreams == {FoldLeft(LAMBDA s, r : WithRecord(s, r[1], r[2]), <<>>, l) : l \in Lists}
=============================================================================
