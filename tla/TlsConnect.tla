------------------------------ MODULE TlsConnect ------------------------------
(***************************************************************************)
(* tls_connect and tls_disconnect of src/tls.c (lines 15-249): what they   *)
(* acquire and release, and the handshake with its buffer.                 *)
(*                                                                         *)
(* The server's side of the handshake is a sequence of flights, each sent  *)
(* when the client has sent the token it answers; behind the last one      *)
(* comes application data.  InitializeSecurityContext is external: it      *)
(* takes the complete messages at the front of its input as far as the     *)
(* flight it waits for, and calls what is left SECBUFFER_EXTRA.            *)
(***************************************************************************)
EXTENDS Integers, Sequences, FiniteSets

CONSTANTS
    BufferSize,     \* TLS_MAX_PACKET_SIZE
    Streams,        \* what servers have to send, each a sequence of symbols
    LastFlight,     \* the flight that completes the handshake
    AnyCuts,        \* may recv return a part of a handshake message?
    FaultSets       \* what may go wrong: sets of faults

\* Byte "at" of a message of "of" bytes; the message is the final one of its
\* flight or not.  Application data has the flight LastFlight + 1.
Symbol == [flight : Nat, at : Nat, of : Nat, final : BOOLEAN]

\* A resource, the first token or a send is refused; the server hangs up or
\* the connection breaks; it asks for a certificate; its messages are not
\* accepted (lines 164-167).
Fault == {"setup", "token", "send", "close", "error", "certificate", "message"}

ASSUME FaultsAssumption == FaultSets \subseteq SUBSET Fault /\ AnyCuts \subseteq BOOLEAN
ASSUME SizesAssumption == BufferSize \in Nat \ {0} /\ LastFlight \in Nat \ {0}

\* A stream is whole messages, each of which fits the buffer, one behind the
\* other.  The final message of a flight is followed by the next flight.
Sequenced(s) ==
    /\ s \in Seq(Symbol)
    /\ \A p \in 1..Len(s) :
          LET start == p - s[p].at
          IN  /\ s[p].at \in 1..s[p].of /\ s[p].of <= BufferSize
              /\ s[p].flight \in 1..(LastFlight + 1)
              /\ start >= 0 /\ start + s[p].of <= Len(s)
              /\ \A i \in 1..s[p].of : s[start + i] = [s[p] EXCEPT !.at = i]
              /\ s[p].flight = IF start = 0 THEN 1
                               ELSE s[start].flight + (IF s[start].final THEN 1 ELSE 0)
              /\ \A q \in p..Len(s) : s[p].flight <= s[q].flight

ASSUME StreamsAssumption == \A s \in Streams : Sequenced(s)

VARIABLES
    stream,     \* what this server has to send
    pc,         \* where tls_connect is, or how it ended
    held,       \* what is acquired and not released
    incoming,   \* s->incoming, as far as s->received
    arrived,    \* how many bytes of the stream recv has returned
    consumed,   \* how many the security context has taken
    tokens,     \* how many tokens the server has got
    wants,      \* wants_client_cert
    socket,     \* "open", "closed" by the server, or in "error"
    anyCut,     \* recv may return a part of a handshake message
    faults      \* what may go wrong in this run

lineVars == <<anyCut, faults>>
vars == <<stream, pc, held, incoming, arrived, consumed, tokens, wants, socket, lineVars>>

received == Len(incoming)

Resource == {"wsa", "socket", "credentials", "context"}

Setup == {"wsa", "socket", "connect", "credentials"}

\* "first": before the first InitializeSecurityContext; "token": its output
\* is sent; "room", "recv": more is read; "step", "again": it is called with
\* what was read, or without.
\* "connected", "hungUp": 0 was returned; "failed": -1 was.
State == Setup \cup {"first", "token", "room", "recv", "step", "again"}
               \cup {"connected", "hungUp", "failed", "closed"}

Init ==
    /\ stream \in Streams
    /\ pc = "wsa"
    /\ held = {}
    /\ incoming = <<>>
    /\ arrived = 0 /\ consumed = 0 /\ tokens = 0
    /\ wants = FALSE
    /\ socket = "open"
    /\ anyCut \in AnyCuts
    /\ faults \in FaultSets

handshakeVars == <<stream, incoming, arrived, consumed, tokens, wants>>

-------------------------------------------------------------------------------
(* Lines 18-61 *)

After == [wsa |-> "socket", socket |-> "connect", connect |-> "credentials",
          credentials |-> "first"]

Acquire ==
    /\ pc \in Setup
    /\ held' = held \cup ({pc} \cap Resource)
    /\ pc' = After[pc]
    /\ UNCHANGED <<handshakeVars, socket>>

\* Mutant: the socket is not closed when the credentials are refused.
ReleaseLeavesSocket ==
    [wsa |-> {}, socket |-> {"wsa"}, connect |-> {"socket", "wsa"}, credentials |-> {"wsa"}]

\* What each of these error paths releases.
Release == [wsa |-> {}, socket |-> {"wsa"}, connect |-> {"socket", "wsa"},
            credentials |-> {"socket", "wsa"}]

AcquireFails ==
    /\ "setup" \in faults
    /\ pc \in Setup
    /\ held' = held \ Release[pc]
    /\ pc' = "failed"
    /\ UNCHANGED <<handshakeVars, socket>>

\* Lines 195-202.
HandshakeFails ==
    /\ pc' = "failed"
    /\ held' = held \ {"context", "credentials", "socket", "wsa"}

-------------------------------------------------------------------------------
(* The handshake loop, lines 78-193 *)

\* The first call makes the context and the first token.
FirstToken ==
    /\ pc = "first"
    /\ held' = held \cup {"context"}
    /\ incoming' = <<>>
    /\ pc' = "token"
    /\ UNCHANGED <<stream, arrived, consumed, tokens, wants, socket>>

FirstTokenFails ==
    /\ "token" \in faults
    /\ pc = "first"
    /\ incoming' = <<>>
    /\ HandshakeFails
    /\ UNCHANGED <<stream, arrived, consumed, tokens, wants, socket>>

\* Lines 144-161: the token is sent.
SendToken ==
    /\ pc = "token"
    /\ socket = "open"
    /\ tokens' = tokens + 1
    /\ pc' = "room"
    /\ UNCHANGED <<stream, held, incoming, arrived, consumed, wants, socket>>

SendFails ==
    /\ pc = "token"
    /\ "send" \in faults \/ socket # "open"
    /\ HandshakeFails
    /\ UNCHANGED <<handshakeVars, socket>>

\* Lines 172-178.  When the buffer is full the call fails: RoomLeft says that
\* this does not happen.
Block ==
    /\ pc = "room"
    /\ received # BufferSize
    /\ pc' = "recv"
    /\ UNCHANGED <<held, handshakeVars, socket>>

\* The server has sent these bytes and nothing behind them.
Sent == {p \in 1..Len(stream) : stream[p].flight <= tokens \/ tokens >= LastFlight}

\* recv returns what is under way up to byte p.
MayCut(p) ==
    anyCut \/ stream[p].at = stream[p].of \/ stream[p].flight > LastFlight

Receive ==
    /\ pc = "recv" /\ socket = "open"
    /\ \E p \in Sent :
          /\ p > arrived /\ p - arrived <= BufferSize - received
          /\ MayCut(p)
          /\ arrived' = p
          /\ incoming' = incoming \o SubSeq(stream, arrived + 1, p)
    /\ pc' = "step"
    /\ UNCHANGED <<stream, held, consumed, tokens, wants, socket>>

\* Lines 181-185.
HungUp ==
    /\ pc = "recv" /\ socket = "closed"
    /\ pc' = "hungUp"
    /\ UNCHANGED <<held, handshakeVars, socket>>

\* Lines 186-191.
ReceiveFails ==
    /\ pc = "recv" /\ socket = "error"
    /\ HandshakeFails
    /\ UNCHANGED <<handshakeVars, socket>>

\* The bytes at the front of the input that InitializeSecurityContext takes:
\* whole messages of the flight that answers the last token.
Takes ==
    {k \in 1..received :
        /\ incoming[1].at = 1
        /\ incoming[k].at = incoming[k].of
        /\ incoming[k].flight = tokens
        /\ \A j \in 1..received : incoming[j].flight = tokens /\ incoming[j].at = incoming[j].of
                                    => j <= k}

\* Mutant: what is left is forgotten.
KeepNothing(k) ==
    /\ incoming' = <<>>
    /\ consumed' = consumed + k

\* Mutant: the bytes that are left count as taken.
KeepCountsAll(k) ==
    /\ incoming' = SubSeq(incoming, k + 1, received)
    /\ consumed' = consumed + received

\* Mutant: what was taken stays in the buffer.
KeepEverything(k) ==
    /\ consumed' = consumed + k
    /\ UNCHANGED incoming

\* Lines 110-118 after a call that took k bytes: the rest is EXTRA.
Keep(k) ==
    /\ incoming' = SubSeq(incoming, k + 1, received)
    /\ consumed' = consumed + k

\* SEC_E_OK: the handshake is complete.
StepDone ==
    /\ pc = "step"
    /\ \E k \in Takes :
          /\ incoming[k].final /\ tokens = LastFlight
          /\ Keep(k)
    /\ pc' = "connected"
    /\ UNCHANGED <<stream, held, arrived, tokens, wants, socket>>

\* Mutant: the token is not sent.
StepContinueSilent ==
    /\ pc = "step"
    /\ \E k \in Takes :
          /\ ~(incoming[k].final /\ tokens = LastFlight)
          /\ Keep(k)
    /\ pc' = "room"
    /\ UNCHANGED <<stream, held, arrived, tokens, wants, socket>>

\* SEC_I_CONTINUE_NEEDED, with a token when a flight is complete.
StepContinue ==
    /\ pc = "step"
    /\ \E k \in Takes :
          /\ ~(incoming[k].final /\ tokens = LastFlight)
          /\ Keep(k)
          /\ pc' = IF incoming[k].final THEN "token" ELSE "room"
    /\ UNCHANGED <<stream, held, arrived, tokens, wants, socket>>

\* SEC_I_INCOMPLETE_CREDENTIALS (lines 125-137): the server asks for a
\* certificate.  The call is made again, once.
StepWantsCertificate ==
    /\ "certificate" \in faults
    /\ pc = "step"
    /\ \E k \in Takes : incoming[k].final /\ tokens < LastFlight /\ Keep(k)
    /\ ~wants
    /\ wants' = TRUE
    /\ pc' = "again"
    /\ UNCHANGED <<stream, held, arrived, tokens, socket>>

\* It then answers that there is none ...
NoCertificate ==
    /\ pc = "again"
    /\ pc' = "token"
    /\ UNCHANGED <<held, handshakeVars, socket>>

\* ... or the server insists.
WantsCertificateAgain ==
    /\ pc = "again"
    /\ incoming' = <<>>
    /\ HandshakeFails
    /\ UNCHANGED <<stream, arrived, consumed, tokens, wants, socket>>

\* SEC_E_INCOMPLETE_MESSAGE: without SECBUFFER_EXTRA nothing is kept.
StepIncomplete ==
    /\ pc = "step"
    /\ incoming[1].at = 1
    /\ Takes = {}
    /\ incoming' = <<>>
    /\ pc' = "room"
    /\ UNCHANGED <<stream, held, arrived, consumed, tokens, wants, socket>>

\* Any other result, lines 162-170.
StepFails ==
    /\ pc = "step"
    /\ \/ incoming[1].at # 1
       \/ "message" \in faults
    /\ incoming' = <<>>
    /\ HandshakeFails
    /\ UNCHANGED <<stream, arrived, consumed, tokens, wants, socket>>

-------------------------------------------------------------------------------
\* tls_disconnect, of a connection tls_connect returned 0 for.
Disconnect ==
    /\ pc \in {"connected", "hungUp"}
    /\ held' = {}
    /\ pc' = "closed"
    /\ UNCHANGED <<handshakeVars, socket>>

\* The server hangs up, or the connection breaks.
SocketEnds ==
    /\ socket = "open"
    /\ \/ "close" \in faults /\ socket' = "closed"
       \/ "error" \in faults /\ socket' = "error"
    /\ UNCHANGED <<pc, held, handshakeVars>>

Connecting ==
    \/ Acquire \/ FirstToken \/ SendToken \/ SendFails
    \/ Block \/ Receive \/ HungUp \/ ReceiveFails
    \/ StepDone \/ StepContinue \/ StepIncomplete \/ NoCertificate

Step ==
    \/ Connecting
    \/ AcquireFails \/ FirstTokenFails \/ StepFails
    \/ StepWantsCertificate \/ WantsCertificateAgain
    \/ Disconnect \/ SocketEnds

Next == Step /\ UNCHANGED lineVars

Spec == Init /\ [][Next]_vars

\* The call goes on, and what the server has sent arrives.
FairSpec ==
    /\ Spec
    /\ WF_vars(Connecting /\ UNCHANGED lineVars)
    /\ WF_vars(StepFails /\ UNCHANGED lineVars)

-------------------------------------------------------------------------------
TypeOK ==
    /\ Sequenced(stream)
    /\ pc \in State
    /\ held \subseteq Resource
    /\ incoming \in Seq(Symbol) /\ received <= BufferSize
    /\ arrived \in 0..Len(stream)
    /\ consumed \in Nat /\ consumed + received <= arrived
    /\ tokens \in 0..LastFlight
    /\ wants \in BOOLEAN
    /\ socket \in {"open", "closed", "error"}

\* Whatever fails, and however far the handshake has come, tls_connect leaves
\* nothing behind when it returns an error, and has everything that
\* tls_disconnect releases when it returns 0 (tls.c:26-61, 195-202, 245-248).
NothingLeaks ==
    /\ pc \in {"failed", "closed"} => held = {}
    /\ pc \in {"connected", "hungUp"} => held = Resource

\* The application data that came with the last handshake message, in
\* whatever pieces, stays in the buffer for the first tls_read (tls.c:110-114).
LeftoverKept ==
    pc = "connected" =>
        /\ \A p \in 1..Len(stream) : stream[p].flight <= LastFlight <=> p <= consumed
        /\ incoming = SubSeq(stream, consumed + 1, arrived)

\* There is room in the buffer whenever more is read: what is kept of it is
\* never more than it takes to go on (tls.c:173 "server is sending too much
\* data instead of proper handshake?").
RoomLeft == pc = "room" => received < BufferSize

\* The server has the last flight to send.
CompleteHandshake(s) ==
    \E p \in 1..Len(s) : s[p].flight = LastFlight /\ s[p].final /\ s[p].at = s[p].of

\* Whenever more is to be read there is room for it.  When nothing goes wrong
\* and no handshake message comes in pieces, the call does not give up, and
\* whenever it reads, a message is under way that the buffer has room for: it
\* never waits for a server that waits for its token (tls.c:78-193).
NeverStuck ==
    /\ RoomLeft
    /\ faults = {} /\ ~anyCut /\ CompleteHandshake(stream) =>
          /\ pc \notin {"failed", "hungUp"}
          /\ pc = "recv" =>
                \E p \in Sent : p > arrived /\ p - arrived <= BufferSize - received /\ MayCut(p)

\* A server in service gets its connection, unless a handshake message comes
\* in more than one piece (tls.c:71, 110-120).
HandshakeCompletes == faults = {} /\ ~anyCut => <>(pc = "connected")
=============================================================================
