--------------------------- MODULE BackgroundThread ---------------------------
(***************************************************************************)
(* The background thread of src/mnotify.c: ImapBackgroundThread, which     *)
(* probes the server, and the loop it then stays in, ImapPerformIdle or    *)
(* ImapPerformPolling.  A call of the IMAP client is one step that         *)
(* succeeds or leaves its connection as the client's error paths do; the   *)
(* module ImapClient opens the calls up.                                   *)
(*                                                                         *)
(* The program counter names the statement a thread is at:                 *)
(*   probe            init and login on a local connection                 *)
(*   idleTop..examine the head of ImapPerformIdle's outer loop             *)
(*   arm..announce    its inner loop, tail..destroy what follows it        *)
(*   poll..sleep      the loop of ImapPerformPolling                       *)
(*   sendX            blocked in SendMessage(WM_MNOTIFY_ERROR)             *)
(*   unanswered       blocked there, in a message that never returns       *)
(*   exit, dead       the end of ImapBackgroundThread                      *)
(***************************************************************************)
EXTENDS Globals

InnerLoop == {"idle", "listen", "check", "decrement", "done", "search",
              "compare", "announce"}

ThreadState ==
    {"probe", "idleTop", "connect", "greet", "login", "examine", "arm"}
    \cup InnerLoop
    \cup {"tail", "destroy", "exit", "dead"}
    \cup {"poll", "pollSearch", "pollCompare", "pollAnnounce", "pollStore", "sleep"}
    \cup DOMAIN AfterReport
    \cup {"unanswered"}

\* A thread only runs while the process does.
Goto(t, from, to) ==
    /\ main # "exited"
    /\ pc[t] = from
    /\ pc' = [pc EXCEPT ![t] = to]

ThreadInit ==
    /\ \E first \in Thread :
          /\ first = CHOOSE t \in Thread : TRUE
          /\ pc = [t \in Thread |-> IF t = first THEN "probe" ELSE "dead"]
    /\ GlobalImapIdleClient = "unset"
    /\ GlobalImapIdleClientWasReset = FALSE
    /\ Imap = [t \in Thread |-> "unset"]
    /\ NumberOfMails = [t \in Thread |-> 0]
    /\ loaded = [t \in Thread |-> 0]

-------------------------------------------------------------------------------
(* ImapBackgroundThread *)

\* The server answers, the local connection is released, and its HasIdle
\* chooses the loop.
Probe(t) ==
    /\ \E hasIdle \in IdleSupport :
          Goto(t, "probe", IF hasIdle THEN "idleTop" ELSE "poll")
    /\ Imap' = [Imap EXCEPT ![t] = "closed"]
    /\ UNCHANGED <<win32Vars, globalVars, mainVars, GlobalImapIdleClient,
                   GlobalImapIdleClientWasReset, NumberOfMails, loaded>>

\* Init or login of a local connection failed: nobody releases what is left.
LocalSetupFails(t, from) ==
    /\ Goto(t, from, "sendFatal")
    /\ \E left \in {"open", "broken", "closed"} : Imap' = [Imap EXCEPT ![t] = left]
    /\ UNCHANGED <<win32Vars, globalVars, mainVars, GlobalImapIdleClient,
                   GlobalImapIdleClientWasReset, NumberOfMails, loaded>>

\* Mutant: the thread ends before it sets the recovery timer.
ExitWithoutTimer(t) ==
    /\ Goto(t, "exit", "dead")
    /\ Imap' = [Imap EXCEPT ![t] = "unset"]
    /\ UNCHANGED <<win32Vars, globalVars, mainVars, GlobalImapIdleClient,
                   GlobalImapIdleClientWasReset, NumberOfMails, loaded>>

\* thread_fatal: the recovery timer is set and the thread ends.
Exit(t) ==
    /\ Goto(t, "exit", "dead")
    /\ SetTimer(MNOTIFY_TIMER_RECOVER, "window")
    /\ Imap' = [Imap EXCEPT ![t] = "unset"]
    /\ UNCHANGED <<posted, globalVars, mainVars, GlobalImapIdleClient,
                   GlobalImapIdleClientWasReset, NumberOfMails, loaded>>

-------------------------------------------------------------------------------
(* ImapPerformIdle *)

IdleTop(t) ==
    /\ Goto(t, "idleTop", "connect")
    /\ GlobalImapIdleClientWasReset' = FALSE
    /\ UNCHANGED <<win32Vars, globalVars, mainVars, GlobalImapIdleClient, Imap,
                   NumberOfMails, loaded>>

\* The first half of imap_init.
Connect(t) ==
    /\ \/ /\ Goto(t, "connect", "greet")
          /\ GlobalImapIdleClient' \in Connected
       \/ /\ Goto(t, "connect", "sendFatal")
          /\ GlobalImapIdleClient' = "closed"
    /\ UNCHANGED <<win32Vars, globalVars, mainVars, GlobalImapIdleClientWasReset,
                   Imap, NumberOfMails, loaded>>

\* A call on the shared connection at "at": it succeeds while that is open,
\* and may always fail.
ClientCall(t, at, writes, ok, failed) ==
    /\ \/ /\ GlobalImapIdleClient = "open"
          /\ Goto(t, at, ok)
          /\ UNCHANGED GlobalImapIdleClient
       \/ /\ Goto(t, at, failed)
          /\ GlobalImapIdleClient' \in AfterFailure(GlobalImapIdleClient, writes)
    /\ UNCHANGED <<win32Vars, globalVars, mainVars, GlobalImapIdleClientWasReset,
                   Imap, NumberOfMails, loaded>>

\* What is left of imap_init once connected, then imap_login, imap_examine.
Greet(t) == ClientCall(t, "greet", FALSE, "login", "sendFatal")
Login(t) == ClientCall(t, "login", TRUE, "examine", "sendFatal")
Examine(t) == ClientCall(t, "examine", TRUE, "arm", "sendFatal")

\* Mutant: the timer is killed and not set again.
ArmOnlyKills(t) ==
    /\ Goto(t, "arm", "idle")
    /\ KillTimer(RESTART_IMAP_IDLE_TIMER_ID)
    /\ UNCHANGED <<posted, globalVars, clientVars, mainVars, NumberOfMails, loaded>>

\* KillTimer, then SetTimer with the same identifier: armed anew.
Arm(t) ==
    /\ Goto(t, "arm", "idle")
    /\ SetTimer(RESTART_IMAP_IDLE_TIMER_ID, "callback")
    /\ UNCHANGED <<posted, globalVars, clientVars, mainVars, NumberOfMails, loaded>>

Idle(t) == ClientCall(t, "idle", TRUE, "listen", "tail")

\* imap_idle_listen returns EXISTS, or an error: both end the listening.
Listen(t) == ClientCall(t, "listen", FALSE, "done", "done")

\* ... or EXPUNGE, and the thread reads EmailCount ...
ListenExpunge(t) ==
    /\ GlobalImapIdleClient = "open"
    /\ Goto(t, "listen", "check")
    /\ UNCHANGED <<win32Vars, globalVars, clientVars, mainVars, NumberOfMails, loaded>>

\* Mutant: the test of EmailCount is forgotten.
CheckUnguarded(t) ==
    /\ Goto(t, "check", "decrement")
    /\ loaded' = [loaded EXCEPT ![t] = EmailCount]
    /\ UNCHANGED <<win32Vars, globalVars, clientVars, mainVars, NumberOfMails>>

Check(t) ==
    /\ Goto(t, "check", IF EmailCount > 0 THEN "decrement" ELSE "listen")
    /\ loaded' = [loaded EXCEPT ![t] = EmailCount]
    /\ UNCHANGED <<win32Vars, globalVars, clientVars, mainVars, NumberOfMails>>

\* Mutant: the decrement of a signed count, which does not wrap.
SignedDec(n) == n - 1

\* ... and writes back one less than what it read, or than what the main
\* thread has stored meanwhile: the build decides which.
Dec(n) == IF n = 0 THEN CountModulus - 1 ELSE n - 1

Decrement(t) ==
    /\ Goto(t, "decrement", "listen")
    /\ EmailCount' \in {Dec(EmailCount), Dec(loaded[t])}
    /\ loaded' = [loaded EXCEPT ![t] = 0]
    /\ UNCHANGED <<win32Vars, clientVars, mainVars, GlobalHasErrors, trayIcon,
                   Notification, NumberOfMails>>

Done(t) == ClientCall(t, "done", TRUE, "search", "tail")

\* imap_search.  When its write fails it reports success and no mails.
Search(t) ==
    /\ \/ /\ GlobalImapIdleClient = "open"
          /\ Goto(t, "search", "compare")
          /\ \E n \in 0..MaxMails : NumberOfMails' = [NumberOfMails EXCEPT ![t] = n]
          /\ UNCHANGED GlobalImapIdleClient
       \/ /\ Goto(t, "search", "compare")
          /\ NumberOfMails' = [NumberOfMails EXCEPT ![t] = 0]
          /\ GlobalImapIdleClient' = Disconnected(GlobalImapIdleClient, "closed")
       \/ /\ GlobalImapIdleClient \in {"open", "broken"}
          /\ Goto(t, "search", "tail")
          /\ GlobalImapIdleClient' \in AfterFailure(GlobalImapIdleClient, FALSE)
          /\ UNCHANGED NumberOfMails
    /\ UNCHANGED <<win32Vars, globalVars, mainVars, GlobalImapIdleClientWasReset,
                   Imap, loaded>>

Compare(t) ==
    /\ Goto(t, "compare", IF NumberOfMails[t] # EmailCount THEN "announce" ELSE "arm")
    /\ UNCHANGED <<win32Vars, globalVars, clientVars, mainVars, NumberOfMails, loaded>>

\* The two PostMessage calls that announce a count.
Announcement(t) == Posted(Posted(posted, EMAIL_CLEAR), EMAIL_MESSAGE(NumberOfMails[t]))

Announce(t) ==
    /\ Goto(t, "announce", "arm")
    /\ posted' = Announcement(t)
    /\ NumberOfMails' = [NumberOfMails EXCEPT ![t] = 0]
    /\ UNCHANGED <<timers, globalVars, clientVars, mainVars, loaded>>

\* After the inner loop: "check if it was us who reset the connection".
CheckReset(t) ==
    /\ Goto(t, "tail", IF GlobalImapIdleClientWasReset THEN "idleTop" ELSE "sendLost")
    /\ UNCHANGED <<win32Vars, globalVars, clientVars, mainVars, NumberOfMails, loaded>>

DestroyClient(t) ==
    /\ Goto(t, "destroy", "idleTop")
    /\ GlobalImapIdleClient' = Disconnected(GlobalImapIdleClient, "closed")
    /\ UNCHANGED <<win32Vars, globalVars, mainVars, GlobalImapIdleClientWasReset,
                   Imap, NumberOfMails, loaded>>

-------------------------------------------------------------------------------
(* ImapPerformPolling *)

\* Init and login on the local variable, over whatever the last iteration
\* left in it.
Poll(t) ==
    /\ Goto(t, "poll", "pollSearch")
    /\ Imap' = [Imap EXCEPT ![t] = "open"]
    /\ UNCHANGED <<win32Vars, globalVars, mainVars, GlobalImapIdleClient,
                   GlobalImapIdleClientWasReset, NumberOfMails, loaded>>

\* Examine and search; a search whose write fails reports no mails.
PollSearch(t) ==
    /\ \/ /\ Goto(t, "pollSearch", "pollCompare")
          /\ \/ /\ \E n \in 0..MaxMails :
                      NumberOfMails' = [NumberOfMails EXCEPT ![t] = n]
                /\ UNCHANGED Imap
             \/ /\ NumberOfMails' = [NumberOfMails EXCEPT ![t] = 0]
                /\ Imap' = [Imap EXCEPT ![t] = "closed"]
       \/ /\ Goto(t, "pollSearch", "sendPoll")
          /\ \E left \in AfterFailure(Imap[t], TRUE) : Imap' = [Imap EXCEPT ![t] = left]
          /\ UNCHANGED NumberOfMails
    /\ UNCHANGED <<win32Vars, globalVars, mainVars, GlobalImapIdleClient,
                   GlobalImapIdleClientWasReset, loaded>>

\* More than the user knows of is announced, less is only stored.
PollCompare(t) ==
    /\ Goto(t, "pollCompare",
            IF EmailCount < NumberOfMails[t] THEN "pollAnnounce"
            ELSE IF EmailCount > NumberOfMails[t] THEN "pollStore" ELSE "sleep")
    /\ UNCHANGED <<win32Vars, globalVars, clientVars, mainVars, NumberOfMails, loaded>>

PollAnnounce(t) ==
    /\ Goto(t, "pollAnnounce", "sleep")
    /\ posted' = Announcement(t)
    /\ UNCHANGED <<timers, globalVars, clientVars, mainVars, NumberOfMails, loaded>>

PollStore(t) ==
    /\ Goto(t, "pollStore", "sleep")
    /\ EmailCount' = NumberOfMails[t]
    /\ UNCHANGED <<win32Vars, clientVars, mainVars, GlobalHasErrors, trayIcon,
                   Notification, NumberOfMails, loaded>>

Sleep(t) ==
    /\ Goto(t, "sleep", "poll")
    /\ NumberOfMails' = [NumberOfMails EXCEPT ![t] = 0]
    /\ UNCHANGED <<win32Vars, globalVars, clientVars, mainVars, loaded>>

-------------------------------------------------------------------------------
ThreadStep(t) ==
    \/ Probe(t) \/ LocalSetupFails(t, "probe") \/ Exit(t)
    \/ IdleTop(t) \/ Connect(t) \/ Greet(t) \/ Login(t) \/ Examine(t)
    \/ Arm(t) \/ Idle(t) \/ Listen(t) \/ ListenExpunge(t) \/ Check(t) \/ Decrement(t)
    \/ Done(t) \/ Search(t) \/ Compare(t) \/ Announce(t)
    \/ CheckReset(t) \/ DestroyClient(t)
    \/ Poll(t) \/ LocalSetupFails(t, "poll") \/ PollSearch(t) \/ PollCompare(t)
    \/ PollAnnounce(t) \/ PollStore(t) \/ Sleep(t)

\* A thread whose next step is a network call that only the server, or the
\* loss of the connection, can bring to an end: nothing makes it return.
SetupCalls == {"probe", "connect", "poll", "pollSearch"}
Waiting(t) ==
    \/ pc[t] \in SetupCalls
    \/ /\ pc[t] \in {"greet", "login", "examine", "idle", "listen", "done", "search"}
       /\ GlobalImapIdleClient = "open"
=============================================================================
