----------------------------- MODULE MCTlsConnect -----------------------------
(* An instance of TlsConnect small enough for TLC. *)
EXTENDS TlsConnect, SequencesExt

CONSTANTS
    MaxMessages,    \* how many messages a flight has at most
    MaxLength,      \* how long a message is at most
    Greeting        \* the lengths of the application data behind the handshake

Flight == UNION {[1..n -> 1..MaxLength] : n \in 1..MaxMessages}

Bytes(flight, of, final) ==
    [i \in 1..of |-> [flight |-> flight, at |-> i, of |-> of, final |-> final]]

FlightBytes(flight, lengths) ==
    FlattenSeq([m \in DOMAIN lengths |-> Bytes(flight, lengths[m], m = Len(lengths))])

\* Two flights of any messages, and one record of data.
ServerStreams ==
    {FlightBytes(1, first) \o FlightBytes(2, second) \o Bytes(3, of, TRUE) :
        first \in Flight, second \in Flight, of \in Greeting}

\* A connection without any fault, or with all of them.
NoneOrAll == {{}, Fault}
=============================================================================
