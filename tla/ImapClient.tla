------------------------------ MODULE ImapClient ------------------------------
(***************************************************************************)
(* The sessions of src/imap_client.c with a server, in the order in which  *)
(* the background thread of src/mnotify.c makes its calls.                 *)
(*   probe  init, login; then the connection is given up for the others    *)
(*   idle   init, login, examine, then idle, listen until an EXISTS, done, *)
(*          search, and again                                              *)
(*   poll   init, login, examine, search; then it sleeps and connects anew *)
(*                                                                         *)
(* A call writes its command and then reads lines until it has what it     *)
(* waits for.  imap_read_line takes all the lines tls_read returns at      *)
(* once: the first is the result, the others stay in LocalBuffer, which    *)
(* every call throws away before its first read (see LineQueue).           *)
(***************************************************************************)
EXTENDS ImapServer

VARIABLES
    mode,           \* "probe", "idle" or "poll"
    HasIdle,        \* what the probe has found so far
    armed,          \* the idle timer is set
    call,           \* the call in progress, or what follows it
    reading,        \* its command is written, it reads lines
    ClearBuffer,    \* its next read first empties LocalBuffer
    CommandNumber,
    LocalBuffer,    \* lines imap_read_line has received and not yet returned
    NumberOfMails   \* what the search has found so far

modeVars == <<mode, HasIdle>>
clientVars == <<modeVars, armed, call, reading, ClearBuffer, CommandNumber, LocalBuffer, NumberOfMails>>
vars == <<serverVars, clientVars>>

Calls == {"init", "login", "examine", "idle", "listen", "done", "search"}

\* What comes after a call that succeeds.
Following(c) ==
    CASE c = "init"    -> "login"
      [] c = "login"   -> IF mode = "probe" THEN "decide" ELSE "examine"
      [] c = "examine" -> IF mode = "poll" THEN "search" ELSE "idle"
      [] c = "idle"    -> "listen"
      [] c = "listen"  -> "done"
      [] c = "done"    -> "search"
      [] c = "search"  -> "compare"

\* What comes after one that fails: the thread ends, or makes another
\* connection; after a failed listen it still goes on to imap_done.
FollowingError(c) ==
    CASE c = "listen"                       -> "done"
      [] c \in {"init", "login"}            -> "end"
      [] c = "examine" /\ mode = "idle"     -> "end"
      [] c = "examine" /\ mode = "poll"     -> "reconnect"
      [] c \in {"idle", "done", "search"}   -> "reconnect"

\* Mutant: the tag is formatted after the number was incremented.
TagOfNextCommand == CommandNumber

\* The tag a call compares with: that of the last tagged command.
CommandTag == CommandNumber - 1

ClientInit ==
    /\ mode = "probe"
    /\ HasIdle = FALSE
    /\ armed = FALSE
    /\ call = "init"
    /\ reading = TRUE
    /\ ClearBuffer = TRUE
    /\ CommandNumber = 1
    /\ LocalBuffer = <<>>
    /\ NumberOfMails = 0

Init == ServerInit /\ ClientInit

-----------------------------------------------------------------------------
(* imap_command *)

\* The command line goes out; all but DONE carry a tag and use it up.  The idle
\* timer is set just before IDLE.
WriteCommand(c) ==
    /\ call = c
    /\ ~reading
    /\ connection # "closed"
    /\ IF c = "done"
       THEN /\ toServer' = Append(toServer, [name |-> c, tag |-> 0])
            /\ UNCHANGED CommandNumber
       ELSE /\ CommandNumber <= MaxCommand
            /\ toServer' = Append(toServer, [name |-> c, tag |-> CommandNumber])
            /\ CommandNumber' = CommandNumber + 1
    /\ reading' = TRUE
    /\ ClearBuffer' = TRUE
    /\ NumberOfMails' = 0
    /\ armed' = (armed \/ c = "idle")
    /\ UNCHANGED <<connection, toClient, unseen, news, idling, answer, hasIdle, modeVars, call,
                   LocalBuffer>>

\* The write fails and the connection is closed.  Every call but imap_search
\* returns that error.
WriteFails(c) ==
    /\ call = c
    /\ ~reading
    /\ connection # "open" \/ "write" \in Faults
    /\ connection' = "closed"
    /\ call' = IF c = "search" THEN "compare" ELSE FollowingError(c)
    /\ NumberOfMails' = 0
    /\ armed' = (armed \/ c = "idle")
    /\ UNCHANGED <<toServer, toClient, unseen, news, idling, answer, hasIdle, modeVars, reading,
                   ClearBuffer, CommandNumber, LocalBuffer>>

-----------------------------------------------------------------------------
(* imap_read_line *)

\* The lines that are left for a read once it has emptied LocalBuffer or not.
Kept == IF ClearBuffer THEN <<>> ELSE LocalBuffer

Readable == Kept # <<>> \/ (connection # "closed" /\ toClient # <<>>)

\* The line the next read returns.
NextLine == IF Kept # <<>> THEN Head(Kept) ELSE Head(toClient)

\* One read: a line that was kept, or as many as tls_read happens to return.
ReadLine ==
    /\ Readable
    /\ IF Kept # <<>>
       THEN LocalBuffer' = Tail(Kept) /\ UNCHANGED toClient
       ELSE \E n \in 1..Len(toClient) :
               /\ LocalBuffer' = SubSeq(toClient, 2, n)
               /\ toClient' = SubSeq(toClient, n + 1, Len(toClient))

-----------------------------------------------------------------------------
(* What each call makes of a line *)

Status == {"OK", "NO"}
Data == {"EXISTS", "EXPUNGE", "SEARCH", "OTHER"}

OwnOk(line) == line.kind = "OK" /\ line.tag = CommandTag

\* Mutant: imap_done takes any OK for its own.
DoneAcceptsAnyOk(c, line) ==
    CASE c = "init"                           -> line.kind \in {"OK"} \cup Data
      [] c \in {"login", "examine", "search"} -> OwnOk(line)
      [] c = "idle"                           -> line.kind = "CONT"
      [] c = "listen"                         -> line.kind = "EXISTS"
      [] c = "done"                           -> line.kind = "OK"

\* Mutant: the tag of a status line is not compared.
AcceptsUntagged(c, line) ==
    CASE c = "init"                           -> line.kind \in {"OK"} \cup Data
      [] c \in {"login", "examine", "search"} -> line.kind = "OK"
      [] c = "idle"                           -> line.kind = "CONT"
      [] c = "listen"                         -> line.kind = "EXISTS"
      [] c = "done"                           -> OwnOk(line)

\* The line that ends the call with success.
Accepts(c, line) ==
    CASE c = "init"                           -> line.kind \in {"OK"} \cup Data
      [] c \in {"login", "examine", "search"} -> OwnOk(line)
      [] c = "idle"                           -> line.kind = "CONT"
      [] c = "listen"                         -> line.kind = "EXISTS"
      [] c = "done"                           -> OwnOk(line)

\* The line that ends it with an error.
Rejects(c, line) ==
    \/ line.kind = "UNPARSED"
    \/ c \in {"init", "idle", "done"} /\ ~Accepts(c, line)
    \/ c \in {"login", "examine", "search"} /\ line.kind = "NO"
    \/ c = "search" /\ line.kind \in Data \ {"SEARCH"}

\* Mutant: the buffer is cleared before every read.
ClearsAlways(c) == TRUE

\* The calls that read in a loop keep LocalBuffer after their first read;
\* imap_idle_listen is called anew for every line.
ClearsNext(c) == c = "listen"

Reading(c) == call = c /\ reading

\* Mutant: any list of capabilities will do.
ReadAnyCapabilities(c) ==
    /\ HasIdle' = (HasIdle \/ (mode = "probe" /\ c \in {"init", "login"}
                                /\ NextLine.capabilities # "unsaid"))
    /\ UNCHANGED mode

\* The capabilities in the code of a status line and, during the login, in a
\* data line; of the other connections HasIdle is never read.
imap_read_capabilities(c) ==
    /\ HasIdle' = (HasIdle \/ (mode = "probe" /\ c \in {"init", "login"}
                                /\ NextLine.capabilities = "idle"))
    /\ UNCHANGED mode

\* imap_idle_listen has no command to write.
ReadAccepted(c) ==
    /\ Reading(c)
    /\ ReadLine
    /\ Accepts(c, NextLine)
    /\ imap_read_capabilities(c)
    /\ call' = Following(c)
    /\ reading' = (Following(c) = "listen")
    /\ ClearBuffer' = TRUE
    /\ UNCHANGED <<connection, toServer, unseen, news, idling, answer, hasIdle, armed,
                   CommandNumber, NumberOfMails>>

\* An error ends the call.
CallFails(c) ==
    /\ call' = FollowingError(c)
    /\ reading' = FALSE
    /\ ClearBuffer' = TRUE
    /\ NumberOfMails' = 0
    /\ UNCHANGED <<connection, toServer, unseen, news, idling, answer, hasIdle, modeVars,
                   armed, CommandNumber>>

ReadRejected(c) ==
    /\ Reading(c)
    /\ ReadLine
    /\ Rejects(c, NextLine)
    /\ CallFails(c)

ReadFails(c) ==
    /\ Reading(c)
    /\ ~Readable
    /\ connection # "open"
    /\ CallFails(c)
    /\ LocalBuffer' = Kept
    /\ UNCHANGED toClient

\* Any other line is passed over, a SEARCH line counted.
ReadMore(c) ==
    /\ Reading(c)
    /\ ReadLine
    /\ ~Accepts(c, NextLine)
    /\ ~Rejects(c, NextLine)
    /\ imap_read_capabilities(c)
    /\ ClearBuffer' = ClearsNext(c)
    /\ NumberOfMails' = IF c = "search" /\ NextLine.kind = "SEARCH"
                        THEN NextLine.mails ELSE NumberOfMails
    /\ UNCHANGED <<connection, toServer, unseen, news, idling, answer, hasIdle, armed, call,
                   reading, CommandNumber>>

\* Every end a read of the call can have.
Reads(c) == ReadAccepted(c) \/ ReadRejected(c) \/ ReadFails(c) \/ ReadMore(c)

-----------------------------------------------------------------------------
(* The calls *)

imap_init == Reads("init")
imap_login == WriteCommand("login") \/ Reads("login")
imap_examine == WriteCommand("examine") \/ Reads("examine")
imap_idle == WriteCommand("idle") \/ Reads("idle")
imap_idle_listen == Reads("listen")
imap_done == WriteCommand("done") \/ Reads("done")
imap_search == WriteCommand("search") \/ Reads("search")

-----------------------------------------------------------------------------
(* ImapBackgroundThread, ImapPerformIdle and ImapPerformPolling between the *)
(* calls                                                                   *)

\* The connection of the probe is destroyed, and what it has found decides.
Decide ==
    /\ call = "decide"
    /\ connection' = "closed"
    /\ mode' = IF HasIdle THEN "idle" ELSE "poll"
    /\ HasIdle' = FALSE
    /\ call' = "reconnect"
    /\ UNCHANGED <<toServer, toClient, unseen, news, idling, answer, hasIdle, armed, reading,
                   ClearBuffer, CommandNumber, LocalBuffer, NumberOfMails>>

\* The count found is compared and announced, and the loop idles again; a
\* polling thread sleeps, and leaves its connection.
Compare ==
    /\ call = "compare"
    /\ call' = IF mode = "poll" THEN "reconnect" ELSE "idle"
    /\ reading' = FALSE
    /\ NumberOfMails' = 0
    /\ UNCHANGED <<serverVars, modeVars, armed, ClearBuffer, CommandNumber, LocalBuffer>>

\* The recovery timer, which replaces the idle timer, starts another thread,
\* and that one probes again.
NextThread ==
    /\ call = "end"
    /\ call' = "reconnect"
    /\ mode' = "probe"
    /\ HasIdle' = FALSE
    /\ armed' = FALSE
    /\ UNCHANGED <<serverVars, reading, ClearBuffer, CommandNumber, LocalBuffer,
                   NumberOfMails>>

\* Mutant: the commands of the new connection are numbered from zero.
ReconnectAtZero ==
    /\ call = "reconnect"
    /\ connection' = "open"
    /\ toServer' = <<>>
    /\ \E line \in Greeting : toClient' = <<line>>
    /\ news' = {}
    /\ idling' = 0
    /\ answer' = 0
    /\ call' = "init"
    /\ reading' = TRUE
    /\ ClearBuffer' = TRUE
    /\ CommandNumber' = 0
    /\ UNCHANGED <<unseen, hasIdle, modeVars, armed, LocalBuffer, NumberOfMails>>

\* Another connection is made; the tags start anew, what is in LocalBuffer
\* stays there.
Reconnect ==
    /\ call = "reconnect"
    /\ connection' = "open"
    /\ toServer' = <<>>
    /\ \E line \in Greeting : toClient' = <<line>>
    /\ news' = {}
    /\ idling' = 0
    /\ answer' = 0
    /\ call' = "init"
    /\ reading' = TRUE
    /\ ClearBuffer' = TRUE
    /\ CommandNumber' = 1
    /\ UNCHANGED <<unseen, hasIdle, modeVars, armed, LocalBuffer, NumberOfMails>>

\* The idle timer: the main thread closes the idle connection under whatever
\* call is using it.  A failure does not stop the timer, so it may elapse
\* while the thread sets up another session.
Reset ==
    /\ armed
    /\ armed' = FALSE
    /\ connection' = "closed"
    /\ UNCHANGED <<toServer, toClient, unseen, news, idling, answer, hasIdle, modeVars, call,
                   reading, ClearBuffer, CommandNumber, LocalBuffer, NumberOfMails>>

ClientStep ==
    \/ imap_init \/ imap_login \/ imap_examine
    \/ imap_idle \/ imap_idle_listen \/ imap_done \/ imap_search
    \/ Decide \/ Compare
    \/ NextThread \/ Reconnect

ClientNext == ClientStep \/ (\E c \in CommandName : WriteFails(c)) \/ Reset

Next ==
    \/ ClientNext
    \/ MailArrives /\ UNCHANGED clientVars
    \/ MailLeaves /\ UNCHANGED clientVars
    \/ TellNews /\ UNCHANGED clientVars
    \/ Chatter /\ UNCHANGED clientVars
    \/ Garble /\ UNCHANGED clientVars
    \/ Answer /\ UNCHANGED clientVars
    \/ Break /\ UNCHANGED clientVars

Spec == Init /\ [][Next]_vars

\* The server answers every command of a connection that stays open, and the
\* client runs; a write to a closed connection fails.
FairSpec ==
    /\ Spec
    /\ WF_vars(ServerStep /\ UNCHANGED clientVars)
    /\ WF_vars(ClientStep)
    /\ WF_vars(connection = "closed" /\ \E c \in CommandName : WriteFails(c))

\* ... and the idle timer elapses.
TimedSpec == FairSpec /\ WF_vars(Reset)

-----------------------------------------------------------------------------
ClientTypeOK ==
    /\ mode \in {"probe", "idle", "poll"}
    /\ HasIdle \in BOOLEAN
    /\ armed \in BOOLEAN
    /\ call \in Calls \cup {"decide", "compare", "reconnect", "end"}
    /\ reading \in BOOLEAN
    /\ ClearBuffer \in BOOLEAN
    /\ CommandNumber \in 1..(MaxCommand + 1)
    /\ LocalBuffer \in Seq(Line)
    /\ NumberOfMails \in 0..MaxMails

TypeOK == ServerTypeOK /\ ClientTypeOK

LinesIn(lines) == {lines[i] : i \in 1..Len(lines)}

IsReply(line) == line.tag # 0 \/ line.kind \in {"SEARCH", "CONT"}

\* When a command is written no reply to an earlier one is still under way:
\* no call can take another command's reply for its own, although DONE has
\* no tag and imap_done checks that of IDLE (imap_client.c:475-505).
InSync ==
    (~reading /\ call \in CommandName /\ connection # "closed")
        => toServer = <<>> /\ \A line \in LinesIn(toClient) : ~IsReply(line)

\* What ImapPerformIdle compares EmailCount with is what the server found in
\* reply to this search, whatever else it said, unless the connection was
\* closed meanwhile (imap_client.c:549-609).
SearchExact == (call = "compare" /\ connection # "closed") => NumberOfMails = answer

\* No reply to the running command is lost: LocalBuffer is never emptied with
\* one in it, however the lines were cut into reads (imap_client.c:60-64), and a
\* call that reads its reply is owed one, its command being still with the
\* server or a line that ends the call among those left to read
\* (imap_client.c:230-269, 301-340, 500-540, 552-609).
RepliesKept ==
    reading =>
        /\ ClearBuffer /\ call # "init" => \A line \in LinesIn(LocalBuffer) : ~IsReply(line)
        /\ call \in CommandName /\ connection # "closed" =>
              \/ toServer # <<>>
              \/ \E line \in LinesIn(Kept \o toClient) :
                    Accepts(call, line) \/ (line.kind = "NO" /\ line.tag = CommandTag)

\* A call does not wait forever for a reply that it has already received or
\* that never comes (imap_client.c:256, 327, 552).
AwaitsReply == reading /\ call # "listen"
CommandAnswered == AwaitsReply ~> ~AwaitsReply

\* No thread idles, and no IDLE is sent, on a server that does not support it
\* (imap_client.c:159-171, mnotify.c:489-498).
IdlesOnlyIfSupported ==
    (mode = "idle" \/ \E i \in 1..Len(toServer) : toServer[i].name = "idle") => hasIdle

-----------------------------------------------------------------------------
(* What comments and documentation say and the code does not do. *)

\* README.md:5: "listen to incoming emails using the IMAP protocol".  An
\* EXISTS received while listening ends the listening and is not discarded.
Exists(lines) == \E line \in LinesIn(lines) : line.kind = "EXISTS"
ExistsHeard ==
    [][call = "listen" /\ Exists(LocalBuffer) /\ ~Exists(LocalBuffer') => call' # "listen"]_vars

\* README.md:6: "give you notifications when you have unread mail".  Unread
\* mail that stays is found by a search.
UnreadFound == unseen # 0 ~> (unseen = 0 \/ (call = "compare" /\ NumberOfMails # 0))
=============================================================================
