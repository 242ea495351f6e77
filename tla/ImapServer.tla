------------------------------ MODULE ImapServer ------------------------------
(***************************************************************************)
(* The other end of a session of src/imap_client.c: the mailbox, the       *)
(* server and the two directions of the connection.  It is external code,  *)
(* modelled from what imap_client.c sends it and is ready to read.         *)
(*                                                                         *)
(* A line is a record: its kind, its tag (0 for an untagged line), the     *)
(* number of mails a SEARCH line lists, and whether the capabilities it    *)
(* names, if any, have IDLE among them.                                    *)
(*   OK, NO            status lines; NO stands for NO, BAD and BYE         *)
(*   EXISTS, EXPUNGE, SEARCH, OTHER   data lines                           *)
(*   CONT              a continuation                                      *)
(*   UNPARSED          a line imap_parse_response reports an error for     *)
(***************************************************************************)
EXTENDS Integers, Sequences

CONSTANTS
    MaxMails,       \* the most unseen mails in the mailbox
    MaxCommand,     \* the highest command number a session uses
    MaxInFlight,    \* lines in flight beyond which the server adds no news
    Faults          \* what may go wrong on this connection

ASSUME BoundsAssumption ==
    /\ MaxMails \in Nat
    /\ MaxCommand \in Nat \ {0}
    /\ MaxInFlight \in Nat
ASSUME FaultsAssumption == Faults \in SUBSET {"break", "write", "refuse", "garble"}

VARIABLES
    connection,     \* "open", "broken" by the peer, or "closed" by the client
    toServer,       \* commands under way
    toClient,       \* lines under way
    unseen,         \* the mails a SEARCH UNSEEN finds
    news,           \* what the server has yet to tell of the mailbox
    idling,         \* the tag of the IDLE in progress, 0 if there is none
    answer,         \* what the last SEARCH of the session was told
    hasIdle         \* it supports IDLE

serverVars == <<connection, toServer, toClient, unseen, news, idling, answer, hasIdle>>

Kind == {"OK", "NO", "EXISTS", "EXPUNGE", "SEARCH", "OTHER", "CONT", "UNPARSED"}
Capabilities == {"unsaid", "idle", "others"}
Line == [kind : Kind, tag : 0..MaxCommand, mails : 0..MaxMails, capabilities : Capabilities]
Tagged(kind, tag) == [kind |-> kind, tag |-> tag, mails |-> 0, capabilities |-> "unsaid"]
Untagged(kind) == Tagged(kind, 0)
Found(n) == [Untagged("SEARCH") EXCEPT !.mails = n]

\* A server names its capabilities where it likes.
Naming(line) == {line, [line EXCEPT !.capabilities = IF hasIdle THEN "idle" ELSE "others"]}

CommandName == {"login", "examine", "idle", "done", "search"}
Command == [name : CommandName, tag : 0..MaxCommand]

\* What the server may greet a new connection with.
Greeting ==
    Naming(Untagged("OK")) \cup {Untagged("OTHER")}
        \cup (IF "refuse" \in Faults THEN {Untagged("NO")} ELSE {})

ServerInit ==
    /\ connection = "open"
    /\ toServer = <<>>
    /\ hasIdle \in BOOLEAN
    /\ toClient \in {<<line>> : line \in Greeting}
    /\ unseen \in 0..MaxMails
    /\ news = {}
    /\ idling = 0
    /\ answer = 0

\* A mail comes in, or one is read or deleted with another client.
MailArrives ==
    /\ unseen < MaxMails
    /\ unseen' = unseen + 1
    /\ news' = news \cup {"EXISTS"}
    /\ UNCHANGED <<connection, toServer, toClient, idling, answer, hasIdle>>

MailLeaves ==
    /\ unseen > 0
    /\ unseen' = unseen - 1
    /\ \E gone \in {"EXPUNGE", "OTHER"} : news' = news \cup {gone}
    /\ UNCHANGED <<connection, toServer, toClient, idling, answer, hasIdle>>

\* During IDLE the server tells its news at once, and from time to time that
\* it is still there; now and then it says what the parser cannot read.
Tell(kind) ==
    /\ connection = "open"
    /\ idling # 0
    /\ Len(toClient) < MaxInFlight
    /\ toClient' = Append(toClient, Untagged(kind))
    /\ news' = news \ {kind}
    /\ UNCHANGED <<connection, toServer, unseen, idling, answer, hasIdle>>

TellNews == \E kind \in news : Tell(kind)
Chatter == Tell("OK")
Garble == "garble" \in Faults /\ Tell("UNPARSED")

\* What the server may say in reply to a command it carries out.
Replies(command) ==
    CASE command.name = "login"   -> {<<data, ok>> : data \in Naming(Untagged("OTHER")),
                                                     ok \in Naming(Tagged("OK", command.tag))}
      [] command.name = "examine" -> {<<Untagged("EXISTS"), Tagged("OK", command.tag)>>}
      [] command.name = "idle"    -> {<<Untagged("CONT")>>}
      [] command.name = "done"    -> {<<Tagged("OK", idling)>>}
      [] command.name = "search"  -> {<<Found(unseen), Tagged("OK", command.tag)>>}

\* Between commands the server keeps its news to itself; before a reply it
\* may tell some of it, or that it is still there.
Preamble == {<<>>} \cup {<<Untagged(kind)>> : kind \in news \cup {"OK"}}

Answer ==
    /\ connection = "open"
    /\ toServer # <<>>
    /\ LET command == Head(toServer) IN
          /\ \/ /\ \E first \in Preamble :
                      /\ \E reply \in Replies(command) : toClient' = toClient \o first \o reply
                      /\ news' = {kind \in news : first # <<Untagged(kind)>>}
                /\ idling' = CASE command.name = "idle" -> command.tag
                               [] command.name = "done" -> 0
                               [] OTHER -> idling
                /\ answer' = IF command.name = "search" THEN unseen ELSE answer
             \/ /\ "refuse" \in Faults
                /\ command.name # "done"
                /\ toClient' = Append(toClient, Tagged("NO", command.tag))
                /\ UNCHANGED <<news, idling, answer>>
    /\ toServer' = Tail(toServer)
    /\ UNCHANGED <<connection, unseen, hasIdle>>

\* The peer or the network ends the connection; what was already on its way
\* to the client can still be read.
Break ==
    /\ "break" \in Faults
    /\ connection = "open"
    /\ connection' = "broken"
    /\ UNCHANGED <<toServer, toClient, unseen, news, idling, answer, hasIdle>>

\* What a server in service keeps doing.
ServerStep == TellNews \/ Answer

ServerTypeOK ==
    /\ connection \in {"open", "broken", "closed"}
    /\ toServer \in Seq(Command)
    /\ toClient \in Seq(Line)
    /\ unseen \in 0..MaxMails
    /\ news \in SUBSET {"EXISTS", "EXPUNGE", "OTHER"}
    /\ idling \in 0..MaxCommand
    /\ answer \in 0..MaxMails
    /\ hasIdle \in BOOLEAN
=============================================================================
