--------------------------- MODULE ImapClientProofs ---------------------------
(***************************************************************************)
(* Theorems about ImapClient for any mailbox, any number of commands and   *)
(* any of the faults.  SyncInv says how far the exchange of a command and  *)
(* its reply has come, and CapabilityInv what the parts of the program     *)
(* know of the server; the invariants of ImapClient follow from them.      *)
(***************************************************************************)
EXTENDS ImapClient, DataLemmas

\* The call in progress tells whether it reads, whether its next read empties
\* LocalBuffer, and on which connection it is made.
ControlInv ==
    /\ reading => call \in Calls
    /\ call \in {"init", "listen"} => reading
    /\ (~reading \/ call \in {"init", "idle", "listen", "done"}) => ClearBuffer
    /\ call \in {"examine", "search", "compare"} => mode # "probe"
    /\ call \in {"idle", "listen", "done"} => mode = "idle"

\* No line, no command and no conclusion drawn from one takes the server to
\* have IDLE when it has not.
Honest == {line \in Line : line.capabilities = "idle" => hasIdle}
Supported == {command \in Command : command.name = "idle" => hasIdle}

CapabilityInv ==
    /\ HasIdle \/ mode = "idle" => hasIdle
    /\ LocalBuffer \in Seq(Honest)
    /\ toClient \in Seq(Honest)
    /\ toServer \in Seq(Supported)

\* The lines the calls have yet to read, in the order in which they come.
Pending == Kept \o toClient

\* A line that is no reply to a command.
Silent == {line \in Line : ~IsReply(line)}

\* A line that ends the call in progress, one way or the other.
Ends(line) ==
    \/ line.tag = CommandTag /\ line.kind = "OK" /\ call # "idle"
    \/ line.tag = CommandTag /\ line.kind = "NO" /\ call # "done"
    \/ line.tag = 0 /\ line.kind = "CONT" /\ call = "idle" /\ idling = CommandTag

\* One that only the server's word on a command can be.
Concludes(line) == line.tag # 0 \/ line.kind = "CONT"

\* Line k is that word on the call in progress, and nothing follows it; the
\* count of a search stands right before it or is already taken.
EndAt(lines, k) ==
    /\ Ends(lines[k])
    /\ \A j \in 1..Len(lines) :
          (j < k => ~Concludes(lines[j])) /\ (j > k => ~IsReply(lines[j]))
    /\ call = "search" /\ lines[k].kind = "OK" =>
          IF k = 1 THEN NumberOfMails = answer
          ELSE lines[k - 1].kind = "SEARCH" /\ lines[k - 1].mails = answer

\* The exchange of a command and its reply on a connection the client has not
\* closed: nothing under way, the command sent, or the reply on its way.
Quiet == toServer = <<>> /\ toClient \in Seq(Silent)

Asked ==
    /\ toServer = <<[name |-> call, tag |-> IF call = "done" THEN 0 ELSE CommandTag]>>
    /\ Kept \in Seq(Silent)
    /\ toClient \in Seq(Silent)

Answered == toServer = <<>> /\ \E k \in 1..Len(Pending) : EndAt(Pending, k)

Idling == call = "listen" \/ (call = "done" /\ (reading => Asked))

Exchange ==
    /\ call \in {"init", "listen"} => Quiet
    /\ call \in CommandName \cup {"compare"} /\ ~reading => Quiet /\ LocalBuffer \in Seq(Silent)
    /\ call \in CommandName /\ reading => CommandTag # 0 /\ (Asked \/ Answered)
    /\ Idling => CommandTag # 0 /\ idling = CommandTag
    /\ call = "compare" => NumberOfMails = answer

ClearedSilent == (reading /\ ClearBuffer /\ call # "init") => LocalBuffer \in Seq(Silent)

SyncInv == ClearedSilent /\ (connection # "closed" => Exchange)

-----------------------------------------------------------------------------
(* The steps *)

BetweenCalls == Decide \/ Compare \/ NextThread \/ Reconnect

ServerMoves ==
    /\ MailArrives \/ MailLeaves \/ TellNews \/ Chatter \/ Garble \/ Answer \/ Break
    /\ UNCHANGED clientVars

\* A step is one of a call, one between calls, the timer's, or the server's.
LEMMA StepCases ==
    ASSUME Next
    PROVE  \/ \E c \in Calls : Reads(c)
           \/ \E c \in CommandName : WriteCommand(c) \/ WriteFails(c)
           \/ BetweenCalls
           \/ Reset
           \/ ServerMoves
<1>1. CASE ClientStep
  BY <1>1 DEF ClientStep, imap_init, imap_login, imap_examine, imap_idle, imap_idle_listen,
              imap_done, imap_search, Reads, Calls, CommandName, BetweenCalls
<1>2. CASE (\E c \in CommandName : WriteFails(c)) \/ Reset
  BY <1>2
<1> QED
  BY <1>1, <1>2 DEF Next, ClientNext, ServerMoves

-----------------------------------------------------------------------------
(* Lines *)

\* What the server says is made of lines, and true.
LEMMA LineType ==
    /\ \A kind \in Kind, tag \in 0..MaxCommand : Tagged(kind, tag) \in Honest
    /\ \A kind \in Kind : Untagged(kind) \in Honest
    /\ \A n \in 0..MaxMails : Found(n) \in Honest
    /\ \A line \in Honest : Naming(line) \subseteq Honest
    /\ Greeting \subseteq Honest
<1>1. \A kind \in Kind, tag \in 0..MaxCommand : Tagged(kind, tag) \in Honest
  BY BoundsAssumption DEF Tagged, Honest, Line, Capabilities
<1>2. \A kind \in Kind : Untagged(kind) \in Honest
  BY <1>1, BoundsAssumption DEF Untagged
<1>3. \A n \in 0..MaxMails : Found(n) \in Honest
  BY <1>2 DEF Found, Honest, Line, Kind
<1>4. \A line \in Honest : Naming(line) \subseteq Honest
  BY DEF Naming, Honest, Line, Capabilities
<1>5. Greeting \subseteq Honest
  BY <1>2, <1>4 DEF Greeting, Kind
<1> QED
  BY <1>1, <1>2, <1>3, <1>4, <1>5

\* A true line is a line.
LEMMA HonestLines == Honest \subseteq Line /\ Seq(Honest) \subseteq Seq(Line)
<1>1. Honest \subseteq Line
  BY DEF Honest
<1> QED
  BY <1>1, SeqMonotonic

\* A read takes the first of the lines that are left, whether it was kept or
\* has just come, and keeps the others whole and in order.
LEMMA ReadLineFacts ==
    ASSUME NEW S, Kept \in Seq(S), toClient \in Seq(S), ReadLine
    PROVE  /\ LocalBuffer' \in Seq(S)
           /\ toClient' \in Seq(S)
           /\ NextLine \in S
           /\ Pending \in Seq(S)
           /\ Pending # <<>>
           /\ NextLine = Pending[1]
           /\ LocalBuffer' \o toClient' = Tail(Pending)
<1>1. CASE Kept # <<>>
  <2>1. LocalBuffer' = Tail(Kept) /\ toClient' = toClient /\ NextLine = Head(Kept)
    BY <1>1 DEF ReadLine, NextLine
  <2>2. Pending \in Seq(S) /\ Len(Pending) = Len(Kept) + Len(toClient)
    BY DEF Pending
  <2>3. \A i \in 1..Len(Pending) :
           Pending[i] = IF i <= Len(Kept) THEN Kept[i] ELSE toClient[i - Len(Kept)]
    BY DEF Pending
  <2>4. Tail(Kept) \o toClient = Tail(Kept \o toClient)
    BY <1>1
  <2> QED
    BY <1>1, <2>1, <2>2, <2>3, <2>4 DEF Pending
<1>2. CASE Kept = <<>>
  <2>1. PICK n \in 1..Len(toClient) :
            /\ LocalBuffer' = SubSeq(toClient, 2, n)
            /\ toClient' = SubSeq(toClient, n + 1, Len(toClient))
    BY <1>2 DEF ReadLine
  <2>2. NextLine = toClient[1] /\ Pending = toClient /\ toClient # <<>>
    BY <1>2, <2>1 DEF NextLine, Pending
  <2>3. LocalBuffer' \in Seq(S) /\ toClient' \in Seq(S)
    BY <2>1
  <2>4. SubSeq(toClient, 2, n) \o SubSeq(toClient, n + 1, Len(toClient))
            = SubSeq(toClient, 2, Len(toClient))
    <3>1. /\ 2 \in 1..(Len(toClient) + 1)
          /\ n \in (2 - 1)..Len(toClient)
          /\ Len(toClient) \in n..Len(toClient)
      BY <2>2
    <3> QED
      BY <3>1, ConcatAdjacentSubSeq
  <2>5. Tail(toClient) = SubSeq(toClient, 2, Len(toClient))
    BY <2>2, TailIsSubSeq
  <2>6. LocalBuffer' \o toClient' = Tail(toClient)
    BY <2>1, <2>4, <2>5
  <2> QED
    BY <2>2, <2>3, <2>6
<1> QED
  BY <1>1, <1>2

-----------------------------------------------------------------------------
(* Every step keeps the shape of the state. *)

\* The values the variables start with.
LEMMA Zeros ==
    /\ 0 \in 0..MaxMails
    /\ 0 \in 0..MaxCommand
    /\ 1 \in 1..(MaxCommand + 1)
    /\ <<>> \in Seq(Line)
    /\ <<>> \in Seq(Command)
BY BoundsAssumption, EmptySeq

\* What follows a call, well or badly ended.
LEMMA FollowingType ==
    ASSUME NEW c \in Calls, mode \in {"probe", "idle", "poll"}
    PROVE  /\ Following(c) \in (Calls \ {"init"}) \cup {"decide", "compare"}
           /\ (c = "examine" => mode # "probe")
                 => FollowingError(c) \in {"done", "end", "reconnect"}
BY DEF Calls, Following, FollowingError

\* What the server says in reply is made of lines, and true.
LEMMA RepliesType ==
    ASSUME NEW command \in Command, idling \in 0..MaxCommand, unseen \in 0..MaxMails
    PROVE  Replies(command) \subseteq Seq(Honest)
<1>1. CASE command.name = "login"
  <2>1. Naming(Untagged("OTHER")) \subseteq Honest /\ Naming(Tagged("OK", command.tag)) \subseteq Honest
    BY LineType DEF Kind, Command
  <2>2. ASSUME NEW reply \in Replies(command) PROVE reply \in Seq(Honest)
    <3>1. PICK data \in Naming(Untagged("OTHER")), ok \in Naming(Tagged("OK", command.tag)) :
              reply = <<data, ok>>
      BY <1>1 DEF Replies
    <3>2. data \in Honest /\ ok \in Honest
      BY <2>1
    <3> QED
      BY <3>1, <3>2
  <2> QED
    BY <2>2
<1>2. CASE command.name = "examine"
  BY <1>2, LineType DEF Replies, Kind, Command
<1>3. CASE command.name = "idle"
  BY <1>3, LineType DEF Replies, Kind, Command
<1>4. CASE command.name = "done"
  BY <1>4, LineType DEF Replies, Kind, Command
<1>5. CASE command.name = "search"
  BY <1>5, LineType DEF Replies, Kind, Command
<1> QED
  BY <1>1, <1>2, <1>3, <1>4, <1>5 DEF Command, CommandName

\* ... and so is what it may say before.
LEMMA PreambleType ==
    ASSUME ServerTypeOK
    PROVE  Preamble \subseteq Seq(Honest)
<1>1. \A kind \in news \cup {"OK"} : Untagged(kind) \in Honest
  BY LineType DEF Kind, ServerTypeOK
<1>2. \A line \in Honest : <<line>> \in Seq(Honest)
  OBVIOUS
<1>3. <<>> \in Seq(Honest)
  BY EmptySeq
<1> QED
  BY <1>1, <1>2, <1>3 DEF Preamble

\* The states the threads start in have the types and the shape.
LEMMA InitType == Init => TypeOK /\ ControlInv
<1> SUFFICES ASSUME Init PROVE TypeOK /\ ControlInv
  OBVIOUS
<1>1. toClient \in Seq(Line)
  <2>1. PICK line \in Greeting : toClient = <<line>>
    BY DEF Init, ServerInit
  <2>2. line \in Line
    BY LineType, HonestLines
  <2> QED
    BY <2>1, <2>2
<1>2. ServerTypeOK
  BY <1>1, Zeros DEF Init, ServerInit, ServerTypeOK
<1>3. ClientTypeOK
  BY Zeros DEF Init, ClientInit, ClientTypeOK, Calls
<1>4. ControlInv
  BY DEF Init, ClientInit, ControlInv, Calls
<1> QED
  BY <1>2, <1>3, <1>4 DEF TypeOK

\* A call that reads.
LEMMA ReadType ==
    ASSUME TypeOK, ControlInv, NEW c \in Calls, Reads(c)
    PROVE  TypeOK' /\ ControlInv'
<1> USE DEF Reading, modeVars
<1>1. /\ Following(c) \in (Calls \ {"init"}) \cup {"decide", "compare"}
      /\ (c = "examine" => mode # "probe")
            => FollowingError(c) \in {"done", "end", "reconnect"}
  BY FollowingType DEF TypeOK, ClientTypeOK
<1>2. ReadLine => LocalBuffer' \in Seq(Line) /\ toClient' \in Seq(Line) /\ NextLine \in Line
  <2>1. Kept \in Seq(Line)
    BY Zeros DEF Kept, TypeOK, ClientTypeOK
  <2> QED
    BY <2>1, ReadLineFacts DEF TypeOK, ServerTypeOK
<1>3. CASE ReadAccepted(c)
  <2>1. ServerTypeOK'
    BY <1>2, <1>3 DEF ReadAccepted, TypeOK, ServerTypeOK
  <2>2. HasIdle' \in BOOLEAN /\ reading' \in BOOLEAN
    BY <1>3 DEF ReadAccepted, imap_read_capabilities, TypeOK, ClientTypeOK
  <2>3. ClientTypeOK'
    BY <1>1, <1>2, <1>3, <2>2
       DEF ReadAccepted, imap_read_capabilities, TypeOK, ClientTypeOK
  <2>4. ControlInv'
    BY <1>3 DEF ReadAccepted, imap_read_capabilities, Following, TypeOK, ClientTypeOK,
                ControlInv, Calls
  <2> QED
    BY <2>1, <2>3, <2>4 DEF TypeOK
<1>4. ASSUME CallFails(c), call = c, LocalBuffer' \in Seq(Line), toClient' \in Seq(Line)
      PROVE  TypeOK' /\ ControlInv'
  <2>1. c = "examine" => mode # "probe"
    BY <1>4 DEF ControlInv
  <2>2. ServerTypeOK'
    BY <1>4 DEF CallFails, TypeOK, ServerTypeOK
  <2>3. ClientTypeOK'
    <3>1. call' \in Calls \cup {"decide", "compare", "reconnect", "end"}
      BY <1>1, <1>4, <2>1 DEF CallFails, Calls
    <3> QED
      BY <1>4, <3>1, Zeros DEF CallFails, TypeOK, ClientTypeOK
  <2>4. ControlInv'
    BY <1>1, <1>4, <2>1
       DEF CallFails, FollowingError, TypeOK, ClientTypeOK, ControlInv, Calls
  <2> QED
    BY <2>2, <2>3, <2>4 DEF TypeOK
<1>5. CASE ReadRejected(c)
  BY <1>2, <1>4, <1>5 DEF ReadRejected
<1>6. CASE ReadFails(c)
  <2>1. Kept \in Seq(Line)
    BY Zeros DEF Kept, TypeOK, ClientTypeOK
  <2> QED
    BY <1>4, <1>6, <2>1 DEF ReadFails, TypeOK, ServerTypeOK
<1>7. CASE ReadMore(c)
  <2>1. NumberOfMails' \in 0..MaxMails
    BY <1>2, <1>7 DEF ReadMore, Line, TypeOK, ClientTypeOK
  <2>2. ServerTypeOK'
    BY <1>2, <1>7 DEF ReadMore, TypeOK, ServerTypeOK
  <2>3. HasIdle' \in BOOLEAN /\ ClearBuffer' \in BOOLEAN
    BY <1>7 DEF ReadMore, ClearsNext, imap_read_capabilities, TypeOK, ClientTypeOK
  <2>4. ClientTypeOK'
    BY <1>2, <1>7, <2>1, <2>3
       DEF ReadMore, imap_read_capabilities, TypeOK, ClientTypeOK
  <2>5. c \notin {"init", "idle", "done"}
    BY <1>7 DEF ReadMore, Rejects
  <2>6. ControlInv'
    BY <1>7, <2>5 DEF ReadMore, ClearsNext, imap_read_capabilities, ControlInv
  <2> QED
    BY <2>2, <2>4, <2>6 DEF TypeOK
<1> QED
  BY <1>3, <1>5, <1>6, <1>7 DEF Reads

\* A call that writes its command.
LEMMA WriteType ==
    ASSUME TypeOK, ControlInv, NEW c \in CommandName, WriteCommand(c) \/ WriteFails(c)
    PROVE  TypeOK' /\ ControlInv'
<1> USE DEF modeVars
<1>1. c \in Calls \ {"init", "listen"}
  BY DEF CommandName, Calls
<1>2. CASE WriteCommand(c)
  <2>1. toServer' \in Seq(Command)
    <3>1. CASE c = "done"
      <4>1. [name |-> c, tag |-> 0] \in Command
        BY Zeros DEF Command
      <4>2. toServer' = Append(toServer, [name |-> c, tag |-> 0]) /\ toServer \in Seq(Command)
        BY <1>2, <3>1 DEF WriteCommand, TypeOK, ServerTypeOK
      <4> QED
        BY <4>1, <4>2, AppendProperties
    <3>2. CASE c # "done"
      <4>1. [name |-> c, tag |-> CommandNumber] \in Command
        BY <1>2, <3>2, BoundsAssumption DEF WriteCommand, Command, TypeOK, ClientTypeOK
      <4>2. toServer' = Append(toServer, [name |-> c, tag |-> CommandNumber]) /\ toServer \in Seq(Command)
        BY <1>2, <3>2 DEF WriteCommand, TypeOK, ServerTypeOK
      <4> QED
        BY <4>1, <4>2, AppendProperties
    <3> QED
      BY <3>1, <3>2
  <2>2. CommandNumber' \in 1..(MaxCommand + 1)
    BY <1>2, BoundsAssumption DEF WriteCommand, TypeOK, ClientTypeOK
  <2>3. ServerTypeOK'
    BY <1>2, <2>1 DEF WriteCommand, TypeOK, ServerTypeOK
  <2>4. armed' \in BOOLEAN
    BY <1>2 DEF WriteCommand, TypeOK, ClientTypeOK
  <2>5. ClientTypeOK'
    BY <1>2, <2>2, <2>4, Zeros DEF WriteCommand, TypeOK, ClientTypeOK
  <2>6. ControlInv'
    BY <1>1, <1>2 DEF WriteCommand, ControlInv
  <2> QED
    BY <2>3, <2>5, <2>6 DEF TypeOK
<1>3. CASE WriteFails(c)
  <2>1. c = "examine" => mode # "probe"
    BY <1>3 DEF WriteFails, ControlInv
  <2>2. FollowingError(c) \in {"done", "end", "reconnect"}
    BY <1>1, <2>1, FollowingType DEF TypeOK, ClientTypeOK
  <2>3. ServerTypeOK'
    BY <1>3 DEF WriteFails, TypeOK, ServerTypeOK
  <2>4. armed' \in BOOLEAN
    BY <1>3 DEF WriteFails, TypeOK, ClientTypeOK
  <2>5. call' \in Calls \cup {"decide", "compare", "reconnect", "end"}
    BY <1>3, <2>2 DEF WriteFails, Calls
  <2>6. ClientTypeOK'
    BY <1>3, <2>4, <2>5, Zeros DEF WriteFails, TypeOK, ClientTypeOK
  <2>7. ControlInv'
    BY <1>1, <1>3, <2>1, <2>2
       DEF WriteFails, FollowingError, ControlInv, Calls, TypeOK, ClientTypeOK
  <2> QED
    BY <2>3, <2>6, <2>7 DEF TypeOK
<1> QED
  BY <1>2, <1>3

\* The thread between calls, and the timer.
LEMMA BetweenType ==
    ASSUME TypeOK, ControlInv, BetweenCalls \/ Reset
    PROVE  TypeOK' /\ ControlInv'
<1> USE DEF TypeOK, modeVars, serverVars
<1>1. CASE Decide
  BY <1>1 DEF Decide, ServerTypeOK, ClientTypeOK, ControlInv, Calls
<1>2. CASE Compare
  <2>1. ServerTypeOK'
    BY <1>2 DEF Compare, ServerTypeOK
  <2>2. call' \in {"reconnect", "idle"}
    BY <1>2 DEF Compare
  <2>3. ClientTypeOK'
    BY <1>2, <2>2, Zeros DEF Compare, ClientTypeOK, Calls
  <2>4. ControlInv'
    BY <1>2 DEF Compare, ClientTypeOK, ControlInv, Calls
  <2> QED
    BY <2>1, <2>3, <2>4
<1>3. CASE NextThread
  BY <1>3 DEF NextThread, ServerTypeOK, ClientTypeOK, ControlInv, Calls
<1>4. CASE Reconnect
  <2>1. toClient' \in Seq(Line)
    <3>1. PICK line \in Greeting : toClient' = <<line>>
      BY <1>4 DEF Reconnect
    <3>2. line \in Line
      BY LineType, HonestLines
    <3> QED
      BY <3>1, <3>2
  <2>2. ServerTypeOK'
    BY <1>4, <2>1, Zeros DEF Reconnect, ServerTypeOK
  <2>3. ClientTypeOK'
    BY <1>4, Zeros DEF Reconnect, ClientTypeOK, Calls
  <2>4. ControlInv'
    BY <1>4 DEF Reconnect, ControlInv, Calls
  <2> QED
    BY <2>2, <2>3, <2>4
<1>5. CASE Reset
  <2>1. ServerTypeOK' /\ ClientTypeOK'
    BY <1>5 DEF Reset, ServerTypeOK, ClientTypeOK
  <2>2. ControlInv'
    BY <1>5 DEF Reset, ControlInv
  <2> QED
    BY <2>1, <2>2
<1> QED
  BY <1>1, <1>2, <1>3, <1>4, <1>5 DEF BetweenCalls

\* The server.
LEMMA ServerType ==
    ASSUME TypeOK, ControlInv, ServerMoves
    PROVE  TypeOK' /\ ControlInv'
<1> USE DEF clientVars, modeVars
<1>1. ControlInv' /\ ClientTypeOK'
  BY DEF ServerMoves, ControlInv, TypeOK, ClientTypeOK
<1>2. ServerTypeOK
  BY DEF TypeOK
<1>3. CASE MailArrives \/ MailLeaves
  <2>1. unseen' \in 0..MaxMails
    BY <1>2, <1>3, BoundsAssumption DEF MailArrives, MailLeaves, ServerTypeOK
  <2>2. news' \in SUBSET {"EXISTS", "EXPUNGE", "OTHER"}
    BY <1>2, <1>3 DEF MailArrives, MailLeaves, ServerTypeOK
  <2> QED
    BY <1>1, <1>2, <1>3, <2>1, <2>2 DEF MailArrives, MailLeaves, TypeOK, ServerTypeOK
<1>4. ASSUME NEW kind \in Kind, Tell(kind) PROVE ServerTypeOK'
  <2>1. toClient' \in Seq(Line)
    BY <1>2, <1>4, LineType, HonestLines, AppendProperties DEF Tell, ServerTypeOK
  <2>2. news' \in SUBSET {"EXISTS", "EXPUNGE", "OTHER"}
    BY <1>2, <1>4 DEF Tell, ServerTypeOK
  <2> QED
    BY <1>2, <1>4, <2>1, <2>2 DEF Tell, ServerTypeOK
<1>5. CASE TellNews \/ Chatter \/ Garble
  <2>1. news \subseteq Kind /\ "OK" \in Kind /\ "UNPARSED" \in Kind
    BY <1>2 DEF ServerTypeOK, Kind
  <2> QED
    BY <1>1, <1>4, <1>5, <2>1 DEF TellNews, Chatter, Garble, TypeOK
<1>6. CASE Answer
  <2>1. Head(toServer) \in Command /\ toServer' \in Seq(Command)
    BY <1>2, <1>6, HeadTailProperties DEF Answer, ServerTypeOK
  <2>2. Replies(Head(toServer)) \subseteq Seq(Line)
    BY <1>2, <2>1, RepliesType, HonestLines DEF ServerTypeOK
  <2>3. Preamble \subseteq Seq(Line)
    BY <1>2, PreambleType, HonestLines
  <2>4. toClient' \in Seq(Line)
    <3>1. ASSUME NEW first \in Preamble, NEW reply \in Replies(Head(toServer)),
                 toClient' = toClient \o first \o reply
          PROVE  toClient' \in Seq(Line)
      BY <1>2, <2>2, <2>3, <3>1, ConcatProperties DEF ServerTypeOK
    <3>2. Append(toClient, Tagged("NO", Head(toServer).tag)) \in Seq(Line)
      BY <1>2, <2>1, LineType, HonestLines, AppendProperties DEF Command, Kind, ServerTypeOK
    <3> QED
      BY <1>6, <3>1, <3>2 DEF Answer
  <2>5. news' \in SUBSET {"EXISTS", "EXPUNGE", "OTHER"}
    BY <1>2, <1>6 DEF Answer, ServerTypeOK
  <2>6. idling' \in 0..MaxCommand /\ answer' \in 0..MaxMails
    <3>1. Head(toServer).tag \in 0..MaxCommand
      BY <2>1 DEF Command
    <3> QED
      BY <1>2, <1>6, <3>1, Zeros DEF Answer, ServerTypeOK
  <2> QED
    BY <1>1, <1>2, <1>6, <2>1, <2>4, <2>5, <2>6 DEF Answer, TypeOK, ServerTypeOK
<1>7. CASE Break
  BY <1>1, <1>2, <1>7 DEF Break, TypeOK, ServerTypeOK
<1> QED
  BY <1>3, <1>5, <1>6, <1>7 DEF ServerMoves

\* ... and so every step keeps them.
LEMMA StepType == TypeOK /\ ControlInv /\ [Next]_vars => TypeOK' /\ ControlInv'
<1> SUFFICES ASSUME TypeOK, ControlInv, [Next]_vars PROVE TypeOK' /\ ControlInv'
  OBVIOUS
<1>1. CASE Next
  BY <1>1, StepCases, ReadType, WriteType, BetweenType, ServerType
<1>2. CASE UNCHANGED vars
  BY <1>2 DEF vars, serverVars, clientVars, modeVars, TypeOK, ServerTypeOK, ClientTypeOK,
              ControlInv
<1> QED
  BY <1>1, <1>2

\* Every variable keeps its type, whatever the server says and whichever
\* call fails.
THEOREM TypeCorrect == Spec => []TypeOK
<1>1. TypeOK /\ ControlInv => TypeOK
  OBVIOUS
<1> QED
  BY <1>1, InitType, StepType, PTL DEF Spec

-----------------------------------------------------------------------------
(* No IDLE without the capability *)

\* The first greeting is true, and nothing is concluded from it yet.
LEMMA InitCapability == Init => CapabilityInv
<1> SUFFICES ASSUME Init PROVE CapabilityInv
  OBVIOUS
<1>1. PICK line \in Greeting : toClient = <<line>>
  BY DEF Init, ServerInit
<1>2. toClient \in Seq(Honest)
  BY <1>1, LineType
<1>3. LocalBuffer \in Seq(Honest) /\ toServer \in Seq(Supported)
  BY EmptySeq DEF Init, ServerInit, ClientInit
<1> QED
  BY <1>2, <1>3 DEF Init, ClientInit, CapabilityInv

\* Each step keeps the lines, the commands and the conclusions true: what
\* imap_read_capabilities and Decide conclude, they conclude from a true line.
LEMMA StepCapability ==
    ASSUME TypeOK, ControlInv, CapabilityInv, [Next]_vars
    PROVE  CapabilityInv'
<1> USE DEF CapabilityInv, modeVars
<1>1. hasIdle' = hasIdle => Honest' = Honest /\ Supported' = Supported
  BY DEF Honest, Supported
<1>2. ASSUME NEW c \in Calls, Reads(c) PROVE CapabilityInv'
  <2>1. ReadLine => /\ LocalBuffer' \in Seq(Honest)
                    /\ toClient' \in Seq(Honest)
                    /\ NextLine \in Honest
    <3>1. Kept \in Seq(Honest)
      BY EmptySeq DEF Kept
    <3> QED
      BY <3>1, ReadLineFacts
  <2>2. CASE ReadAccepted(c) \/ ReadMore(c)
    BY <1>1, <2>1, <2>2 DEF ReadAccepted, ReadMore, imap_read_capabilities, Honest
  <2>3. CASE ReadRejected(c)
    BY <1>1, <2>1, <2>3 DEF ReadRejected, CallFails
  <2>4. CASE ReadFails(c)
    <3>1. Kept \in Seq(Honest)
      BY EmptySeq DEF Kept
    <3> QED
      BY <1>1, <2>4, <3>1 DEF ReadFails, CallFails
  <2> QED
    BY <1>2, <2>2, <2>3, <2>4 DEF Reads
<1>3. ASSUME NEW c \in CommandName, WriteCommand(c) PROVE CapabilityInv'
  <2>1. PICK tag : toServer' = Append(toServer, [name |-> c, tag |-> tag])
                   /\ [name |-> c, tag |-> tag] \in Command
    <3>1. CASE c = "done"
      BY <1>3, <3>1, Zeros DEF WriteCommand, Command
    <3>2. CASE c # "done"
      <4>1. CommandNumber \in 0..MaxCommand
        BY <1>3, <3>2, BoundsAssumption DEF WriteCommand, TypeOK, ClientTypeOK
      <4> QED
        BY <1>3, <3>2, <4>1 DEF WriteCommand, Command
    <3> QED
      BY <3>1, <3>2
  <2>2. c = "idle" => hasIdle
    BY <1>3 DEF WriteCommand, ControlInv
  <2>3. [name |-> c, tag |-> tag] \in Supported
    BY <2>1, <2>2 DEF Supported
  <2>4. toServer' \in Seq(Supported)
    BY <2>1, <2>3, AppendProperties
  <2> QED
    BY <1>1, <1>3, <2>4 DEF WriteCommand
<1>4. ASSUME NEW c \in CommandName, WriteFails(c) PROVE CapabilityInv'
  BY <1>1, <1>4 DEF WriteFails
<1>5. CASE Decide \/ Compare \/ NextThread \/ Reset
  BY <1>1, <1>5 DEF Decide, Compare, NextThread, Reset, serverVars
<1>6. CASE Reconnect
  <2>1. PICK line \in Greeting : toClient' = <<line>>
    BY <1>6 DEF Reconnect
  <2>2. toClient' \in Seq(Honest)
    BY <2>1, LineType
  <2>3. toServer' \in Seq(Supported)
    BY <1>6, EmptySeq DEF Reconnect
  <2> QED
    BY <1>1, <1>6, <2>2, <2>3 DEF Reconnect
<1>7. CASE ServerMoves
  <2>1. UNCHANGED <<HasIdle, mode, LocalBuffer>>
    BY <1>7 DEF ServerMoves, clientVars
  <2>2. CASE MailArrives \/ MailLeaves \/ Break
    BY <1>1, <2>1, <2>2 DEF MailArrives, MailLeaves, Break
  <2>3. ASSUME NEW kind \in Kind, Tell(kind) PROVE CapabilityInv'
    <3>1. toClient' \in Seq(Honest)
      BY <2>3, LineType, AppendProperties DEF Tell
    <3> QED
      BY <1>1, <2>1, <2>3, <3>1 DEF Tell
  <2>4. CASE TellNews \/ Chatter \/ Garble
    <3>1. news \subseteq Kind /\ "OK" \in Kind /\ "UNPARSED" \in Kind
      BY DEF TypeOK, ServerTypeOK, Kind
    <3> QED
      BY <2>3, <2>4, <3>1 DEF TellNews, Chatter, Garble
  <2>5. CASE Answer
    <3>1. Head(toServer) \in Command /\ toServer' \in Seq(Supported)
      BY <2>5, HeadTailProperties DEF Answer, Supported
    <3>2. Replies(Head(toServer)) \subseteq Seq(Honest) /\ Preamble \subseteq Seq(Honest)
      BY <3>1, RepliesType, PreambleType DEF TypeOK, ServerTypeOK
    <3>3. ASSUME NEW first \in Preamble, NEW reply \in Replies(Head(toServer)),
                 toClient' = toClient \o first \o reply
          PROVE  toClient' \in Seq(Honest)
      BY <3>2, <3>3, ConcatProperties
    <3>4. Append(toClient, Tagged("NO", Head(toServer).tag)) \in Seq(Honest)
      BY <3>1, LineType, AppendProperties DEF Command, Kind
    <3>5. toClient' \in Seq(Honest)
      BY <2>5, <3>3, <3>4 DEF Answer
    <3> QED
      BY <1>1, <2>1, <2>5, <3>1, <3>5 DEF Answer
  <2> QED
    BY <1>7, <2>2, <2>4, <2>5 DEF ServerMoves
<1>8. CASE UNCHANGED vars
  BY <1>1, <1>8 DEF vars, serverVars, clientVars
<1> QED
  BY <1>2, <1>3, <1>4, <1>5, <1>6, <1>7, <1>8, StepCases DEF BetweenCalls

\* The type, the shape and the truth of what is known together are inductive.
LEMMA Invariant == Spec => [](TypeOK /\ ControlInv /\ CapabilityInv)
<1>1. TypeOK /\ ControlInv /\ CapabilityInv /\ [Next]_vars
         => TypeOK' /\ ControlInv' /\ CapabilityInv'
  BY StepType, StepCapability
<1> QED
  BY <1>1, InitType, InitCapability, PTL DEF Spec

\* No thread idles, and no IDLE is sent, on a server that does not support it,
\* whichever lines the capabilities came in and however they were cut.
THEOREM IdleSupported == Spec => []IdlesOnlyIfSupported
<1>1. CapabilityInv => IdlesOnlyIfSupported
  <2> SUFFICES ASSUME CapabilityInv PROVE IdlesOnlyIfSupported
    OBVIOUS
  <2>1. \A i \in 1..Len(toServer) : toServer[i] \in Supported
    BY DEF CapabilityInv
  <2> QED
    BY <2>1 DEF CapabilityInv, IdlesOnlyIfSupported, Supported
<1> QED
  BY <1>1, Invariant, PTL

-----------------------------------------------------------------------------
(* Every reply goes to the call it is for. *)

\* What a server may say unasked is no reply.
LEMMA SilentLines ==
    /\ Silent \subseteq Line
    /\ \A kind \in {"OK", "NO", "EXISTS", "EXPUNGE", "OTHER", "UNPARSED"} :
          Untagged(kind) \in Silent
    /\ Greeting \subseteq Silent
<1>1. Greeting \subseteq Line
  BY LineType, HonestLines
<1>2. \A kind \in {"OK", "NO", "EXISTS", "EXPUNGE", "OTHER", "UNPARSED"} :
          Untagged(kind) \in Silent
  <2>1. \A kind \in Kind : Untagged(kind) \in Line
    BY LineType, HonestLines
  <2> QED
    BY <2>1 DEF Silent, Kind, Untagged, Tagged, IsReply
<1>3. \A line \in Greeting : ~IsReply(line)
  BY DEF Greeting, Naming, Untagged, Tagged, IsReply
<1> QED
  BY <1>1, <1>2, <1>3 DEF Silent

\* Of lines that end with the reply to the call, a read takes the reply or
\* leaves them so.
LEMMA ReadAnswered ==
    ASSUME Kept \in Seq(Line), toClient \in Seq(Line), ReadLine,
           NEW k \in 1..Len(Pending), EndAt(Pending, k)
    PROVE  /\ k = 1 => /\ Ends(NextLine)
                       /\ LocalBuffer' \in Seq(Silent)
                       /\ toClient' \in Seq(Silent)
           /\ k # 1 => ~Concludes(NextLine)
<1>1. /\ LocalBuffer' \in Seq(Line) /\ toClient' \in Seq(Line)
      /\ Pending \in Seq(Line) /\ Pending # <<>>
      /\ NextLine = Pending[1]
      /\ LocalBuffer' \o toClient' = Tail(Pending)
  BY ReadLineFacts
<1>2. CASE k = 1
  <2>1. /\ Tail(Pending) \in Seq(Line)
        /\ \A i \in 1..Len(Tail(Pending)) : Tail(Pending)[i] = Pending[i + 1]
        /\ \A i \in 1..Len(Tail(Pending)) : i + 1 \in 1..Len(Pending) /\ i + 1 > 1
    BY <1>1
  <2>2. \A i \in 1..Len(Tail(Pending)) : Tail(Pending)[i] \in Silent
    BY <1>1, <1>2, <2>1, ElementOfSeq DEF EndAt, Silent
  <2>3. Tail(Pending) \in Seq(Silent)
    BY <2>1, <2>2, AllOfAKind
  <2> QED
    <3>1. LocalBuffer' \in Seq(Silent) /\ toClient' \in Seq(Silent)
      <4>1. LocalBuffer' \o toClient' \in Seq(Silent)
        BY <1>1, <2>3
      <4> QED
        BY <1>1, <4>1, PartsOfAKind
    <3>2. Ends(Pending[1])
      BY <1>2 DEF EndAt
    <3> QED
      BY <1>1, <1>2, <3>1, <3>2
<1>3. CASE k # 1
  BY <1>1, <1>3 DEF EndAt
<1> QED
  BY <1>2, <1>3

\* The line that ends a call with success is the reply to its command, so
\* nothing is under way for the next one; in init and listen none was before.
LEMMA ReadAcceptedSync ==
    ASSUME TypeOK, ControlInv, SyncInv, NEW c \in Calls, ReadAccepted(c)
    PROVE  SyncInv'
<1>1. /\ call = c /\ reading /\ ReadLine /\ Accepts(c, NextLine)
      /\ call' = Following(c) /\ reading' = (Following(c) = "listen") /\ ClearBuffer'
      /\ UNCHANGED <<connection, toServer, idling, answer, CommandNumber, NumberOfMails>>
  BY DEF ReadAccepted, Reading
<1>2. /\ Kept \in Seq(Line) /\ toClient \in Seq(Line)
      /\ ClearBuffer => Kept = <<>> /\ Kept \in Seq(Silent)
  BY Zeros, EmptySeq DEF Kept, TypeOK, ServerTypeOK, ClientTypeOK
<1>3. /\ Following(c) = "listen" <=> c = "idle"
      /\ Following(c) = "done" <=> c = "listen"
      /\ Following(c) = "compare" <=> c = "search"
      /\ Following(c) # "init"
  BY DEF Following, Calls
<1>4. CASE connection = "closed"
  <2>1. c # "idle"
    BY <1>1, <1>2, <1>4 DEF ControlInv, ReadLine, Readable
  <2> QED
    BY <1>1, <1>3, <1>4, <2>1 DEF SyncInv, ClearedSilent
<1>5. CASE connection # "closed"
  <2>1. Exchange
    BY <1>5 DEF SyncInv
  <2>2. CASE c \in {"init", "listen"}
    <3>1. Quiet /\ Kept \in Seq(Silent)
      BY <1>1, <1>2, <2>1, <2>2 DEF Exchange, ControlInv
    <3>2. LocalBuffer' \in Seq(Silent) /\ toClient' \in Seq(Silent)
      BY <1>1, <3>1, ReadLineFacts DEF Quiet
    <3>3. c = "listen" => CommandTag # 0 /\ idling = CommandTag
      BY <1>1, <2>1 DEF Exchange, Idling
    <3> QED
      BY <1>1, <1>3, <2>2, <3>1, <3>2, <3>3
         DEF SyncInv, ClearedSilent, Exchange, Quiet, Idling, CommandTag
  <2>3. CASE c \in CommandName
    <3>1. CommandTag # 0 /\ (Asked \/ Answered)
      BY <1>1, <2>1, <2>3 DEF Exchange
    <3>2. Concludes(NextLine)
      BY <1>1, <2>3, <3>1 DEF Accepts, OwnOk, Concludes, CommandName
    <3>3. ~Asked
      <4>1. ASSUME Asked PROVE NextLine \in Silent
        BY <1>1, <4>1, ReadLineFacts DEF Asked
      <4> QED
        BY <3>2, <4>1 DEF Silent, IsReply, Concludes
    <3>4. PICK k \in 1..Len(Pending) : EndAt(Pending, k)
      BY <3>1, <3>3 DEF Answered
    <3>5. k = 1
      BY <1>1, <1>2, <3>2, <3>4, ReadAnswered
    <3>6. /\ toServer = <<>> /\ Ends(NextLine)
          /\ LocalBuffer' \in Seq(Silent) /\ toClient' \in Seq(Silent)
      BY <1>1, <1>2, <3>1, <3>3, <3>4, <3>5, ReadAnswered DEF Answered
    <3>7. c = "idle" => idling = CommandTag
      BY <1>1, <3>6 DEF Ends, Accepts
    <3>8. c = "search" => NumberOfMails = answer
      <4>1. NextLine = Pending[1]
        BY <1>1, <1>2, ReadLineFacts
      <4> QED
        BY <1>1, <3>4, <3>5, <4>1 DEF EndAt, Accepts, OwnOk
    <3>9. c # "listen"
      BY <2>3 DEF CommandName
    <3>10. Quiet' /\ LocalBuffer' \in Seq(Silent)
      BY <1>1, <3>6 DEF Quiet
    <3>11. Idling' => c = "idle"
      BY <1>1, <1>3, <3>9 DEF Idling
    <3>12. CommandTag' = CommandTag
      BY <1>1 DEF CommandTag
    <3>13. reading' => call' = "listen"
      BY <1>1
    <3>14. Exchange'
      BY <1>1, <1>3, <3>1, <3>7, <3>8, <3>10, <3>11, <3>12, <3>13 DEF Exchange, CommandName
    <3> QED
      BY <3>10, <3>14 DEF SyncInv, ClearedSilent
  <2> QED
    BY <2>2, <2>3 DEF Calls, CommandName
<1> QED
  BY <1>4, <1>5

\* A line that is passed over is not the reply; a SEARCH line right before it
\* brings the answer.
LEMMA ReadMoreSync ==
    ASSUME TypeOK, ControlInv, SyncInv, NEW c \in Calls, ReadMore(c)
    PROVE  SyncInv'
<1>1. /\ call = c /\ reading /\ ReadLine /\ ~Accepts(c, NextLine) /\ ~Rejects(c, NextLine)
      /\ ClearBuffer' = (c = "listen")
      /\ NumberOfMails' = IF c = "search" /\ NextLine.kind = "SEARCH"
                          THEN NextLine.mails ELSE NumberOfMails
      /\ UNCHANGED <<connection, toServer, idling, answer, call, reading, CommandNumber>>
  BY DEF ReadMore, Reading, ClearsNext
<1>2. /\ Kept \in Seq(Line) /\ toClient \in Seq(Line)
      /\ ClearBuffer => Kept = <<>> /\ Kept \in Seq(Silent)
  BY Zeros, EmptySeq DEF Kept, TypeOK, ServerTypeOK, ClientTypeOK
<1>3. c \in {"login", "examine", "search", "listen"}
  BY <1>1 DEF Rejects, Calls
<1>4. CASE connection = "closed"
  <2>1. c # "listen"
    BY <1>1, <1>2, <1>4 DEF ControlInv, ReadLine, Readable
  <2> QED
    BY <1>1, <1>4, <2>1 DEF SyncInv, ClearedSilent
<1>5. CASE connection # "closed" /\ c = "listen"
  <2>1. Exchange
    BY <1>5 DEF SyncInv
  <2>2. Quiet /\ Kept \in Seq(Silent) /\ CommandTag # 0 /\ idling = CommandTag
    BY <1>1, <1>2, <1>5, <2>1 DEF Exchange, Idling, ControlInv
  <2>3. LocalBuffer' \in Seq(Silent) /\ toClient' \in Seq(Silent)
    BY <1>1, <2>2, ReadLineFacts DEF Quiet
  <2> QED
    BY <1>1, <1>5, <2>2, <2>3
       DEF SyncInv, ClearedSilent, Exchange, Quiet, CommandTag, CommandName
<1>6. CASE connection # "closed" /\ c # "listen"
  <2>1. CommandTag # 0 /\ (Asked \/ Answered)
    BY <1>1, <1>3, <1>6 DEF SyncInv, Exchange, CommandName
  <2>2. Kept' = LocalBuffer'
    BY <1>1, <1>6 DEF Kept
  <2>3. ASSUME Asked PROVE Asked'
    BY <1>1, <2>2, <2>3, ReadLineFacts DEF Asked, CommandTag
  <2>4. ASSUME Answered PROVE Answered'
    <3>1. PICK k \in 1..Len(Pending) : EndAt(Pending, k)
      BY <2>4 DEF Answered
    <3>2. /\ Pending \in Seq(Line) /\ Pending # <<>>
          /\ NextLine = Pending[1]
          /\ Pending' = Tail(Pending)
      BY <1>1, <1>2, <2>2, ReadLineFacts DEF Pending
    <3>3. k # 1
      <4>1. ~Ends(NextLine)
        BY <1>1, <1>3, <1>6 DEF Ends, Accepts, OwnOk, Rejects
      <4> QED
        BY <1>1, <1>2, <3>1, <4>1, ReadAnswered
    <3>4. /\ k - 1 \in 1..Len(Pending')
          /\ Pending'[k - 1] = Pending[k]
          /\ \A j \in 1..Len(Pending') : Pending'[j] = Pending[j + 1] /\ j + 1 \in 1..Len(Pending)
      BY <3>2, <3>3
    <3>5. PICK last : last = Pending[k]
      OBVIOUS
    <3>6. Ends(last) /\ (last.kind = "OK" /\ call = "search" =>
                            Pending[k - 1].kind = "SEARCH" /\ Pending[k - 1].mails = answer)
      BY <3>1, <3>3, <3>5 DEF EndAt
    <3>7. Ends(last)'
      BY <1>1, <3>6 DEF Ends, CommandTag
    <3>8. \A j \in 1..Len(Pending') : /\ j < k - 1 => ~Concludes(Pending'[j])
                                      /\ j > k - 1 => ~IsReply(Pending'[j])
      <4>1. ASSUME NEW j \in 1..Len(Pending')
            PROVE  /\ Pending'[j] = Pending[j + 1] /\ j + 1 \in 1..Len(Pending)
                   /\ j < k - 1 => j + 1 < k
                   /\ j > k - 1 => j + 1 > k
        BY <3>4
      <4> QED
        BY <3>1, <4>1 DEF EndAt
    <3>9. call' = "search" /\ last.kind = "OK" =>
             IF k - 1 = 1 THEN NumberOfMails' = answer'
             ELSE Pending'[k - 2].kind = "SEARCH" /\ Pending'[k - 2].mails = answer'
      <4>1. CASE k = 2
        BY <1>1, <3>2, <3>6, <4>1
      <4>2. CASE k # 2
        <5>1. k - 2 \in 1..Len(Pending') /\ (k - 2) + 1 = k - 1
          BY <3>3, <3>4, <4>2
        <5>2. Pending'[k - 2] = Pending[k - 1]
          BY <3>4, <5>1
        <5> QED
          BY <1>1, <3>6, <4>2, <5>2
      <4> QED
        BY <4>1, <4>2
    <3>10. EndAt(Pending, k - 1)'
      BY <3>4, <3>5, <3>7, <3>8, <3>9 DEF EndAt, Ends, Concludes, IsReply
    <3> QED
      BY <1>1, <2>4, <3>4, <3>10 DEF Answered
  <2> QED
    BY <1>1, <1>3, <1>6, <2>1, <2>3, <2>4
       DEF SyncInv, ClearedSilent, Exchange, Idling, CommandTag
<1> QED
  BY <1>4, <1>5, <1>6

\* A call that fails is the last one on its connection, except for listen.
LEMMA ReadEndsSync ==
    ASSUME TypeOK, ControlInv, SyncInv, NEW c \in Calls, ReadRejected(c) \/ ReadFails(c)
    PROVE  SyncInv'
<1>1. /\ call = c /\ reading /\ (ReadLine \/ (LocalBuffer' = Kept /\ toClient' = toClient))
      /\ call' = FollowingError(c) /\ ~reading' /\ ClearBuffer'
      /\ UNCHANGED <<connection, toServer, idling, answer, CommandNumber>>
  BY DEF ReadRejected, ReadFails, CallFails, Reading
<1>2. CASE c # "listen" \/ connection = "closed"
  <2>1. c = "examine" => mode # "probe"
    BY <1>1 DEF ControlInv
  <2>2. c # "listen" => call' \in {"end", "reconnect"}
    BY <1>1, <2>1 DEF FollowingError, Calls, TypeOK, ClientTypeOK
  <2> QED
    BY <1>1, <1>2, <2>2 DEF SyncInv, ClearedSilent, Exchange, Idling, CommandName
<1>3. CASE c = "listen" /\ connection # "closed"
  <2>1. Quiet /\ CommandTag # 0 /\ idling = CommandTag
    BY <1>1, <1>3 DEF SyncInv, Exchange, Idling
  <2>2. Kept \in Seq(Silent)
    BY <1>1, <1>3, EmptySeq DEF ControlInv, Kept
  <2>3. LocalBuffer' \in Seq(Silent) /\ toClient' \in Seq(Silent)
    BY <1>1, <2>1, <2>2, ReadLineFacts DEF Quiet
  <2>4. call' = "done"
    BY <1>1, <1>3 DEF FollowingError
  <2>5. Quiet' /\ CommandTag' # 0 /\ idling' = CommandTag'
    BY <1>1, <2>1, <2>3 DEF Quiet, CommandTag
  <2> QED
    BY <1>1, <2>3, <2>4, <2>5 DEF SyncInv, ClearedSilent, Exchange, Idling
<1> QED
  BY <1>2, <1>3

\* The command goes out when nothing is under way.
LEMMA WriteSync ==
    ASSUME TypeOK, ControlInv, SyncInv, NEW c \in CommandName, WriteCommand(c)
    PROVE  SyncInv'
<1>1. /\ call = c /\ ~reading /\ connection # "closed"
      /\ reading' /\ ClearBuffer'
      /\ UNCHANGED <<connection, toClient, idling, call, LocalBuffer>>
  BY DEF WriteCommand
<1>2. Quiet /\ LocalBuffer \in Seq(Silent)
  BY <1>1 DEF SyncInv, Exchange
<1>3. CommandTag' # 0 /\ (c = "done" => idling' = CommandTag')
  <2>1. CASE c = "done"
    <3>1. CommandTag # 0 /\ idling = CommandTag
      BY <1>1, <2>1 DEF SyncInv, Exchange, Idling
    <3> QED
      BY <1>1, <2>1, <3>1 DEF WriteCommand, CommandTag
  <2>2. CASE c # "done"
    <3>1. CommandNumber \in Int /\ CommandNumber >= 1 /\ CommandNumber' = CommandNumber + 1
      BY <2>2, BoundsAssumption DEF WriteCommand, TypeOK, ClientTypeOK
    <3> QED
      BY <2>2, <3>1 DEF CommandTag
  <2> QED
    BY <2>1, <2>2
<1>4. toServer' = <<[name |-> c, tag |-> IF c = "done" THEN 0 ELSE CommandTag']>>
  <2>1. CASE c = "done"
    BY <1>2, <2>1 DEF WriteCommand, Quiet
  <2>2. CASE c # "done"
    <3>1. CommandTag' = CommandNumber
      BY <2>2, BoundsAssumption DEF WriteCommand, CommandTag, TypeOK, ClientTypeOK
    <3> QED
      BY <1>2, <2>2, <3>1 DEF WriteCommand, Quiet
  <2> QED
    BY <2>1, <2>2
<1>5. Kept' \in Seq(Silent) /\ toClient' \in Seq(Silent)
  BY <1>1, <1>2, EmptySeq DEF Kept, Quiet
<1>6. Asked'
  BY <1>1, <1>4, <1>5 DEF Asked
<1> QED
  BY <1>1, <1>2, <1>3, <1>6 DEF SyncInv, ClearedSilent, Exchange, Idling, CommandName

\* Between the calls no command is sent, and a new connection has none.
LEMMA BetweenSync ==
    ASSUME TypeOK, ControlInv, SyncInv,
           BetweenCalls \/ Reset \/ \E c \in CommandName : WriteFails(c)
    PROVE  SyncInv'
<1>1. CASE Reset \/ \E c \in CommandName : WriteFails(c)
  BY <1>1 DEF Reset, WriteFails, SyncInv, ClearedSilent
<1>2. CASE Decide \/ NextThread
  <2>1. ~reading'
    BY <1>2 DEF Decide, NextThread, ControlInv, Calls
  <2>2. call' = "reconnect"
    BY <1>2 DEF Decide, NextThread
  <2> QED
    BY <2>1, <2>2 DEF SyncInv, ClearedSilent, Exchange, Idling, CommandName
<1>3. CASE Compare
  <2>1. ~reading /\ ~reading' /\ call = "compare" /\ call' \in {"reconnect", "idle"}
    BY <1>3 DEF Compare, ControlInv, Calls
  <2>2. UNCHANGED <<connection, toServer, toClient, LocalBuffer>>
    BY <1>3 DEF Compare, serverVars
  <2>3. connection # "closed" => Quiet' /\ LocalBuffer' \in Seq(Silent)
    BY <2>1, <2>2 DEF SyncInv, Exchange, Quiet
  <2> QED
    BY <2>1, <2>2, <2>3 DEF SyncInv, ClearedSilent, Exchange, Idling, CommandName
<1>4. CASE Reconnect
  <2>1. PICK line \in Greeting : toClient' = <<line>>
    BY <1>4 DEF Reconnect
  <2>2. line \in Silent
    BY SilentLines
  <2>3. Quiet' /\ call' = "init"
    BY <1>4, <2>1, <2>2 DEF Quiet, Reconnect
  <2> QED
    BY <2>3 DEF SyncInv, ClearedSilent, Exchange, Idling, CommandName
<1> QED
  BY <1>1, <1>2, <1>3, <1>4 DEF BetweenCalls

\* A line that is no reply changes nothing, whether the reply is awaited or
\* already on its way.
LEMMA TellSync ==
    ASSUME TypeOK, SyncInv, UNCHANGED clientVars,
           NEW kind \in {"OK", "EXISTS", "EXPUNGE", "OTHER", "UNPARSED"}, Tell(kind)
    PROVE  SyncInv'
<1>1. /\ UNCHANGED <<connection, toServer, idling, answer, call, reading, ClearBuffer>>
      /\ UNCHANGED <<CommandNumber, LocalBuffer, NumberOfMails>>
      /\ connection # "closed"
  BY DEF Tell, clientVars
<1>2. PICK line \in Silent : toClient' = Append(toClient, line)
  BY SilentLines DEF Tell
<1>3. Kept' = Kept /\ Kept \in Seq(Line) /\ toClient \in Seq(Line) /\ line \in Line
  BY <1>1, Zeros, SilentLines DEF Kept, TypeOK, ServerTypeOK, ClientTypeOK
<1>4. toClient \in Seq(Silent) => toClient' \in Seq(Silent)
  BY <1>2, AppendProperties
<1>5. ASSUME Answered PROVE Answered'
  <2>1. PICK k \in 1..Len(Pending) : EndAt(Pending, k)
    BY <1>5 DEF Answered
  <2>2. /\ Len(Pending) \in Nat
        /\ Len(Pending') = Len(Pending) + 1
        /\ \A j \in 1..Len(Pending) : Pending'[j] = Pending[j]
        /\ Pending'[Len(Pending) + 1] = line
    BY <1>2, <1>3 DEF Pending
  <2>3. PICK last : last = Pending[k] /\ last = Pending'[k]
    BY <2>2
  <2>4. Ends(last)'
    BY <1>1, <2>1, <2>3 DEF EndAt, Ends, CommandTag
  <2>5. ~IsReply(line)
    BY <1>2 DEF Silent
  <2>6. \A j \in 1..Len(Pending') : /\ j < k => ~Concludes(Pending'[j])
                                    /\ j > k => ~IsReply(Pending'[j])
    <3>1. ASSUME NEW j \in 1..Len(Pending')
          PROVE  \/ j \in 1..Len(Pending) /\ Pending'[j] = Pending[j]
                 \/ j = Len(Pending) + 1 /\ Pending'[j] = line /\ ~(j < k)
      BY <2>2
    <3> QED
      BY <2>1, <2>5, <3>1 DEF EndAt
  <2>7. call' = "search" /\ last.kind = "OK" =>
           IF k = 1 THEN NumberOfMails' = answer'
           ELSE Pending'[k - 1].kind = "SEARCH" /\ Pending'[k - 1].mails = answer'
    <3>1. k # 1 => k - 1 \in 1..Len(Pending)
      BY <2>2
    <3> QED
      BY <1>1, <2>1, <2>2, <2>3, <3>1 DEF EndAt
  <2>8. EndAt(Pending, k)'
    BY <2>3, <2>4, <2>6, <2>7 DEF EndAt, Ends, Concludes, IsReply
  <2>9. k \in 1..Len(Pending')
    BY <2>2
  <2> QED
    BY <1>1, <1>5, <2>8, <2>9 DEF Answered
<1>6. /\ Quiet => Quiet'
      /\ Asked => Asked'
      /\ Asked' => toServer # <<>>
      /\ CommandTag' = CommandTag
  <2>1. Asked' => toServer' # <<>>
    BY DEF Asked
  <2>2. Asked => Asked'
    BY <1>1, <1>3, <1>4 DEF Asked, CommandTag
  <2> QED
    BY <1>1, <1>4, <2>1, <2>2 DEF Quiet, CommandTag
<1>7. Exchange'
  <2>1. Exchange
    BY <1>1 DEF SyncInv
  <2>2. Idling' => Idling
    <3>1. ASSUME call = "done", reading, Asked' PROVE Asked
      BY <1>6, <2>1, <3>1 DEF Exchange, Answered, CommandName
    <3> QED
      BY <1>1, <3>1 DEF Idling
  <2>3. call' \in CommandName /\ reading' => Asked' \/ Answered'
    BY <1>1, <1>5, <1>6, <2>1 DEF Exchange
  <2> QED
    BY <1>1, <1>6, <2>1, <2>2, <2>3 DEF Exchange
<1> QED
  BY <1>1, <1>7 DEF SyncInv, ClearedSilent

\* The lines of a reply behind lines that are none.
LEMMA ReplyLast ==
    ASSUME NEW s \in Seq(Silent), NEW reply \in Seq(Line), Len(reply) \in {1, 2},
           Len(reply) = 2 => ~Concludes(reply[1]),
           NEW k, k = Len(s) + Len(reply)
    PROVE  /\ k \in 1..Len(s \o reply)
           /\ (s \o reply)[k] = reply[Len(reply)]
           /\ Len(reply) = 2 => k # 1 /\ (s \o reply)[k - 1] = reply[1]
           /\ \A j \in 1..Len(s \o reply) :
                 /\ j < k => ~Concludes((s \o reply)[j])
                 /\ ~(j > k)
<1>1. s \in Seq(Line) /\ \A i \in 1..Len(s) : ~Concludes(s[i])
  <2>1. \A i \in 1..Len(s) : s[i] \in Silent
    BY ElementOfSeq
  <2> QED
    BY <2>1, SilentLines, SeqMonotonic DEF Silent, IsReply, Concludes
<1>2. /\ Len(s \o reply) = k
      /\ \A i \in 1..Len(s) : (s \o reply)[i] = s[i]
      /\ \A i \in 1..Len(reply) : (s \o reply)[Len(s) + i] = reply[i]
      /\ Len(s) \in Nat
  BY <1>1
<1>3. /\ (s \o reply)[k] = reply[Len(reply)]
      /\ Len(reply) = 2 => k # 1 /\ k - 1 = Len(s) + 1 /\ (s \o reply)[k - 1] = reply[1]
  <2>1. (s \o reply)[Len(s) + Len(reply)] = reply[Len(reply)]
    <3>1. Len(reply) \in 1..Len(reply)
      OBVIOUS
    <3> QED
      BY <1>2, <3>1
  <2>2. ASSUME Len(reply) = 2
        PROVE  k # 1 /\ k - 1 = Len(s) + 1 /\ (s \o reply)[k - 1] = reply[1]
    <3>1. k - 1 = Len(s) + 1 /\ k # 1
      BY <1>2, <2>2
    <3>2. (s \o reply)[Len(s) + 1] = reply[1]
      BY <1>2, <2>2
    <3> QED
      BY <3>1, <3>2
  <2> QED
    BY <2>1, <2>2
<1>4. ASSUME NEW j \in 1..Len(s \o reply), j < k PROVE ~Concludes((s \o reply)[j])
  <2>1. CASE j \in 1..Len(s)
    BY <1>1, <1>2, <2>1
  <2>2. CASE j \notin 1..Len(s)
    BY <1>2, <1>3, <1>4, <2>2
  <2> QED
    BY <2>1, <2>2
<1> QED
  BY <1>2, <1>3, <1>4

\* The server has the command of the call in progress and no other, and its
\* reply is the last thing it says.
LEMMA AnswerSync ==
    ASSUME TypeOK, ControlInv, SyncInv, UNCHANGED clientVars, Answer
    PROVE  SyncInv'
<1>1. /\ UNCHANGED <<call, reading, ClearBuffer>>
      /\ UNCHANGED <<CommandNumber, LocalBuffer, NumberOfMails, connection>>
      /\ connection # "closed" /\ toServer # <<>> /\ toServer' = Tail(toServer)
  BY DEF Answer, clientVars
<1>2. ClearedSilent'
  BY <1>1 DEF SyncInv, ClearedSilent
<1>3. Exchange
  BY <1>1 DEF SyncInv
<1>4. CASE ~(call \in CommandName /\ reading)
  <2>1. call \notin CommandName \cup {"init", "listen", "compare"}
    BY <1>1, <1>3, <1>4 DEF Exchange, Quiet, ControlInv, Calls
  <2> QED
    BY <1>1, <1>2, <2>1 DEF SyncInv, Exchange, Idling, CommandName
<1>5. CASE call \in CommandName /\ reading
  <2> DEFINE command == Head(toServer)
  <2>1. CommandTag # 0 /\ Asked /\ (call = "done" => idling = CommandTag)
    BY <1>1, <1>3, <1>5 DEF Exchange, Answered, Idling
  <2>2. /\ command = [name |-> call, tag |-> IF call = "done" THEN 0 ELSE CommandTag]
        /\ toServer' = <<>>
    BY <1>1, <2>1 DEF Asked
  <2>3. Kept' = Kept /\ CommandTag' = CommandTag
    BY <1>1 DEF Kept, CommandTag
  <2>4. ASSUME NEW s \in Seq(Silent), NEW reply \in Seq(Line), Len(reply) \in {1, 2},
               Pending' = s \o reply,
               Len(reply) = 2 => ~Concludes(reply[1]),
               NEW last, last = reply[Len(reply)], Ends(last)',
               call = "search" /\ last.kind = "OK" =>
                  Len(reply) = 2 /\ reply[1].kind = "SEARCH" /\ reply[1].mails = answer'
        PROVE  Answered'
    <3>1. PICK k : k = Len(s) + Len(reply)
      OBVIOUS
    <3>2. /\ k \in 1..Len(Pending') /\ Pending'[k] = last
          /\ Len(reply) = 2 => k # 1 /\ Pending'[k - 1] = reply[1]
          /\ \A j \in 1..Len(Pending') : (j < k => ~Concludes(Pending'[j])) /\ ~(j > k)
      BY <2>4, <3>1, ReplyLast
    <3>3. EndAt(Pending, k)'
      BY <1>1, <2>4, <3>2 DEF EndAt, Ends, Concludes, IsReply
    <3> QED
      BY <2>2, <3>2, <3>3 DEF Answered
  <2>5. Kept \in Seq(Silent) /\ Kept \in Seq(Line) /\ toClient \in Seq(Silent) /\ toClient \in Seq(Line)
    BY <2>1, SilentLines, SeqMonotonic DEF Asked
  <2>6. command \in Command
    BY <1>1, HeadTailProperties DEF TypeOK, ServerTypeOK
  <2>7. ASSUME command.name # "done", idling' = idling,
               toClient' = Append(toClient, Tagged("NO", command.tag))
        PROVE  Answered'
    <3>1. PICK no : no = Tagged("NO", CommandTag)
      OBVIOUS
    <3>2. no \in Line /\ no = Tagged("NO", command.tag)
      BY <2>2, <2>6, <2>7, <3>1, LineType, HonestLines DEF Command, Kind
    <3>3. PICK s \in Seq(Silent) : s = Kept \o toClient
      BY <2>5, ConcatProperties
    <3>4. toClient' = toClient \o <<no>>
      BY <2>5, <2>7, <3>2, AppendIsConcat
    <3>5. Pending' = s \o <<no>>
      BY <2>3, <2>5, <3>2, <3>3, <3>4, ConcatAssociative DEF Pending
    <3>6. call # "done"
      BY <2>2, <2>7
    <3>7. Ends(no)' /\ no.kind # "OK"
      BY <1>1, <2>3, <3>1, <3>6 DEF Ends, Tagged
    <3>8. PICK reply \in Seq(Line) : reply = <<no>>
      <4>1. no \in Line
        BY <3>2
      <4>2. <<no>> \in Seq(Line)
        BY <4>1
      <4> QED
        BY <4>2
    <3>9. /\ Len(reply) \in {1, 2} /\ Len(reply) # 2
          /\ no = reply[Len(reply)]
      BY <3>2, <3>8
    <3>10. Pending' = s \o reply
      BY <3>5, <3>8
    <3> QED
      BY <2>4, <3>7, <3>9, <3>10
  <2>8. ASSUME NEW first \in Preamble, NEW reply \in Replies(command),
               toClient' = toClient \o first \o reply,
               idling' = CASE command.name = "idle" -> command.tag
                           [] command.name = "done" -> 0
                           [] OTHER -> idling,
               answer' = IF command.name = "search" THEN unseen ELSE answer
        PROVE  Answered'
    <3>1. first \in Seq(Silent) /\ first \in Seq(Line)
      <4>1. \A kind \in news \cup {"OK"} : Untagged(kind) \in Silent
        BY SilentLines DEF TypeOK, ServerTypeOK
      <4>2. first \in Seq(Silent)
        <5>1. CASE first = <<>>
          BY <5>1, EmptySeq
        <5>2. CASE first # <<>>
          <6>1. PICK kind \in news \cup {"OK"} : first = <<Untagged(kind)>>
            BY <5>2 DEF Preamble
          <6> QED
            BY <4>1, <6>1
        <5> QED
          BY <5>1, <5>2
      <4> QED
        BY <4>2, SilentLines, SeqMonotonic
    <3>2. reply \in Seq(Line)
      BY <2>6, RepliesType, HonestLines DEF TypeOK, ServerTypeOK
    <3>3. PICK s \in Seq(Silent) : s = Kept \o (toClient \o first)
      BY <2>5, <3>1, ConcatProperties
    <3>4. Pending' = s \o reply
      <4>1. PICK coming \in Seq(Line) : coming = toClient \o first
        BY <2>5, <3>1, ConcatProperties
      <4>2. (Kept \o coming) \o reply = Kept \o (coming \o reply)
        BY <2>5, <3>2, ConcatAssociative, SMTT(30)
      <4> QED
        BY <2>3, <2>8, <3>3, <4>1, <4>2 DEF Pending
    <3>5. /\ Len(reply) \in {1, 2}
          /\ Len(reply) = 2 => ~Concludes(reply[1])
          /\ Ends(reply[Len(reply)])'
          /\ call = "search" =>
                Len(reply) = 2 /\ reply[1].kind = "SEARCH" /\ reply[1].mails = answer'
      <4>1. /\ call' = call /\ command.name = call /\ CommandTag' = CommandTag
            /\ command.tag = IF call = "done" THEN 0 ELSE CommandTag
        BY <1>1, <2>2, <2>3
      <4>2. CASE call = "login"
        <5>1. PICK data \in Naming(Untagged("OTHER")), ok \in Naming(Tagged("OK", CommandTag)) :
                  reply = <<data, ok>>
          BY <4>1, <4>2 DEF Replies
        <5>2. data.tag = 0 /\ data.kind = "OTHER" /\ ok.tag = CommandTag /\ ok.kind = "OK"
          BY DEF Naming, Untagged, Tagged
        <5> QED
          BY <4>1, <4>2, <5>1, <5>2 DEF Ends, Concludes
      <4>3. CASE call = "examine"
        <5>1. PICK data, ok : /\ data = Untagged("EXISTS") /\ ok = Tagged("OK", CommandTag)
                              /\ reply = <<data, ok>>
          BY <4>1, <4>3 DEF Replies
        <5>2. data.tag = 0 /\ data.kind = "EXISTS" /\ ok.tag = CommandTag /\ ok.kind = "OK"
          BY <5>1 DEF Untagged, Tagged
        <5> QED
          BY <4>1, <4>3, <5>1, <5>2 DEF Ends, Concludes
      <4>4. CASE call = "idle"
        <5>1. PICK cont : cont = Untagged("CONT") /\ reply = <<cont>>
          BY <4>1, <4>4 DEF Replies
        <5>2. cont.tag = 0 /\ cont.kind = "CONT"
          BY <5>1 DEF Untagged, Tagged
        <5>3. idling' = CommandTag'
          BY <2>8, <4>1, <4>4
        <5> QED
          BY <4>1, <4>4, <5>1, <5>2, <5>3 DEF Ends
      <4>5. CASE call = "done"
        <5>1. PICK ok : ok = Tagged("OK", CommandTag) /\ reply = <<ok>>
          BY <2>1, <4>1, <4>5 DEF Replies
        <5>2. ok.tag = CommandTag /\ ok.kind = "OK"
          BY <5>1 DEF Tagged
        <5> QED
          BY <4>1, <4>5, <5>1, <5>2 DEF Ends
      <4>6. CASE call = "search"
        <5>1. PICK data, ok : /\ data = Found(unseen) /\ ok = Tagged("OK", CommandTag)
                              /\ reply = <<data, ok>>
          BY <4>1, <4>6 DEF Replies
        <5>2. /\ data.tag = 0 /\ data.kind = "SEARCH" /\ data.mails = unseen
              /\ ok.tag = CommandTag /\ ok.kind = "OK"
          BY <5>1 DEF Found, Untagged, Tagged
        <5>3. answer' = unseen
          BY <2>8, <4>1, <4>6
        <5> QED
          BY <4>1, <4>6, <5>1, <5>2, <5>3 DEF Ends, Concludes
      <4> QED
        BY <1>5, <4>2, <4>3, <4>4, <4>5, <4>6 DEF CommandName
    <3> QED
      BY <2>4, <3>2, <3>4, <3>5
  <2>9. Answered'
    BY <2>7, <2>8 DEF Answer
  <2> QED
    BY <1>1, <1>2, <1>5, <2>1, <2>2, <2>3, <2>9 DEF SyncInv, Exchange, Idling, Asked, CommandName
<1> QED
  BY <1>4, <1>5

\* A server that greets has not been asked anything.
LEMMA InitSync == Init => SyncInv
<1> SUFFICES ASSUME Init PROVE SyncInv
  OBVIOUS
<1>1. PICK line \in Greeting : toClient = <<line>>
  BY DEF Init, ServerInit
<1>2. toClient \in Seq(Silent)
  BY <1>1, SilentLines
<1> QED
  BY <1>2 DEF Init, ServerInit, ClientInit, SyncInv, ClearedSilent, Exchange, Quiet, Idling,
              CommandName

\* ... and so every step keeps the exchange in order.
LEMMA StepSync ==
    ASSUME TypeOK, ControlInv, SyncInv, [Next]_vars
    PROVE  SyncInv'
<1>1. ASSUME UNCHANGED <<toServer, toClient, idling, answer>>, UNCHANGED clientVars,
             UNCHANGED connection \/ connection = "open"
      PROVE  SyncInv'
  BY <1>1 DEF clientVars, SyncInv, ClearedSilent, Exchange, Quiet, Idling, Asked, Answered,
              EndAt, Ends, Pending, Kept, CommandTag
<1>2. CASE ServerMoves
  <2>1. UNCHANGED clientVars
    BY <1>2 DEF ServerMoves
  <2>2. CASE MailArrives \/ MailLeaves
    BY <1>1, <2>1, <2>2 DEF MailArrives, MailLeaves
  <2>3. CASE Break
    BY <1>1, <2>1, <2>3 DEF Break
  <2>4. CASE TellNews \/ Chatter \/ Garble
    <3>1. news \subseteq {"OK", "EXISTS", "EXPUNGE", "OTHER", "UNPARSED"}
      BY DEF TypeOK, ServerTypeOK
    <3> QED
      BY <2>1, <2>4, <3>1, TellSync DEF TellNews, Chatter, Garble
  <2>5. CASE Answer
    BY <2>1, <2>5, AnswerSync
  <2> QED
    BY <1>2, <2>2, <2>3, <2>4, <2>5 DEF ServerMoves
<1>3. CASE UNCHANGED vars
  BY <1>1, <1>3 DEF vars, serverVars
<1> QED
  BY <1>2, <1>3, StepCases, ReadAcceptedSync, ReadMoreSync, ReadEndsSync, WriteSync, BetweenSync
     DEF Reads

\* With the type and the shape, the order of the exchange is inductive.
LEMMA SyncInvariant == Spec => [](TypeOK /\ ControlInv /\ SyncInv)
<1>1. TypeOK /\ ControlInv /\ SyncInv /\ [Next]_vars => TypeOK' /\ ControlInv' /\ SyncInv'
  BY StepType, StepSync
<1> QED
  BY <1>1, InitType, InitSync, PTL DEF Spec

\* The sequences of silent lines in the words of ImapClient.
LEMMA SilentMeans ==
    ASSUME NEW lines \in Seq(Silent)
    PROVE  \A line \in LinesIn(lines) : ~IsReply(line)
<1>1. \A i \in 1..Len(lines) : lines[i] \in Silent
  BY ElementOfSeq
<1> QED
  BY <1>1 DEF LinesIn, Silent

\* No call can take another command's reply for its own: when a command is
\* written no reply is under way, for any number of commands and any cut of
\* the lines into reads.
THEOREM CallsInSync == Spec => []InSync
<1>1. SyncInv => InSync
  BY SilentMeans DEF SyncInv, Exchange, Quiet, InSync
<1> QED
  BY <1>1, SyncInvariant, PTL

\* What ImapPerformIdle compares EmailCount with is what the server found.
THEOREM CountIsAnswer == Spec => []SearchExact
<1>1. SyncInv => SearchExact
  BY DEF SyncInv, Exchange, SearchExact
<1> QED
  BY <1>1, SyncInvariant, PTL

\* No reply to the running command is lost: none is thrown away with LocalBuffer,
\* and a call that waits for one is owed it.  The server has its command, or the
\* line that ends the call is among those it has yet to read, for any number of
\* commands and any cut of the lines into reads.
THEOREM NoReplyDropped == Spec => []RepliesKept
<1>1. SyncInv => RepliesKept
  <2> SUFFICES ASSUME SyncInv, reading, call \in CommandName, connection # "closed", ~Asked
               PROVE  \E line \in LinesIn(Kept \o toClient) :
                         Accepts(call, line) \/ (line.kind = "NO" /\ line.tag = CommandTag)
    <3>1. Asked => toServer # <<>>
      BY DEF Asked
    <3>2. SyncInv /\ reading /\ ClearBuffer /\ call # "init"
              => \A line \in LinesIn(LocalBuffer) : ~IsReply(line)
      BY SilentMeans DEF SyncInv, ClearedSilent
    <3> QED
      BY <3>1, <3>2 DEF RepliesKept
  <2>1. CommandTag # 0 /\ Answered
    BY DEF SyncInv, Exchange
  <2>2. PICK k \in 1..Len(Pending) : Ends(Pending[k])
    BY <2>1 DEF Answered, EndAt
  <2>3. Pending[k] \in LinesIn(Kept \o toClient)
    BY DEF Pending, LinesIn
  <2>4. \/ Accepts(call, Pending[k])
        \/ Pending[k].kind = "NO" /\ Pending[k].tag = CommandTag
    BY <2>2 DEF Ends, Accepts, OwnOk, CommandName
  <2> QED
    BY <2>3, <2>4
<1> QED
  BY <1>1, SyncInvariant, PTL
=============================================================================
