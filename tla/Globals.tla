------------------------------- MODULE Globals -------------------------------
(***************************************************************************)
(* The state the main thread and the background thread of src/mnotify.c    *)
(* share, with the program counters and locals of both, so that each       *)
(* thread has a module of its own over the same variables.                 *)
(***************************************************************************)
EXTENDS Win32

CONSTANTS
    Thread,         \* the background threads CreateThread can ever have running
    MaxMails,       \* the most unread mails a SEARCH reports
    CountModulus,   \* 2^32 for the program's unsigned int
    IdleSupport,    \* the answers a server gives to "do you support IDLE?"
    ThreadCreated   \* the results the recovery's CreateThread may have

ASSUME MailsAssumption ==
    /\ MaxMails \in Nat
    /\ CountModulus \in Nat
    /\ MaxMails < CountModulus
ASSUME IdleAssumption == IdleSupport \in SUBSET BOOLEAN
ASSUME CreateAssumption == ThreadCreated \in SUBSET BOOLEAN

VARIABLES
    EmailCount,         \* the unread mails the user was last told of
    GlobalHasErrors,    \* errors were logged that the user has not looked at
    trayIcon,           \* the icon: shown? a closed envelope (mail)? a warning?
    Notification,       \* a toast notification was created
    GlobalImapIdleClient,           \* the connection IDLE runs on
    GlobalImapIdleClientWasReset,   \* the main thread reset that connection
    Imap,           \* per thread: the connection in its local variable
    main,           \* where the main thread is
    TotalEmails,    \* WindowProc's local of WM_MNOTIFY_EMAIL_MESSAGE
    pc,             \* per thread: where it is
    NumberOfMails,  \* per thread: SearchResult.NumberOfMails
    loaded          \* per thread: the EmailCount it read before decrementing

globalVars == <<EmailCount, GlobalHasErrors, trayIcon, Notification>>
clientVars == <<GlobalImapIdleClient, GlobalImapIdleClientWasReset, Imap>>
mainVars   == <<main, TotalEmails>>
threadVars == <<pc, NumberOfMails, loaded>>
vars       == <<win32Vars, globalVars, clientVars, mainVars, threadVars>>

Count == 0..(CountModulus - 1)

\* "unset": never connected.  "open": usable.  "broken": the peer or the
\* network ended it and nothing was released.  "closed": tls_disconnect
\* released it.  "reset": the timer callback's tls_disconnect released it.
Connection == {"unset", "open", "broken", "closed", "reset"}

\* tls_connect: a handshake the peer hangs up on returns 0 like one that
\* is complete.  When it fails it has released what it had.
Connected == {"open", "broken"}

\* tls_disconnect releases a connection; on one that is already released
\* it only repeats calls that fail.
Disconnected(conn, how) == IF conn \in {"open", "broken"} THEN how ELSE conn

\* What a client call that returns an error leaves of its connection.  The
\* answer was bad (still open), the read failed (broken), or the write
\* failed and imap_command called tls_disconnect (closed).
AfterFailure(conn, writes) ==
    CASE conn = "open" ->
            {"open", "broken"} \cup (IF writes THEN {"closed"} ELSE {})
      [] conn = "broken" ->
            {"broken"} \cup (IF writes THEN {"closed"} ELSE {})
      [] OTHER -> {conn}

EMAIL_CLEAR == [type |-> "WM_MNOTIFY_EMAIL_CLEAR", mails |-> 0]
EMAIL_MESSAGE(n) == [type |-> "WM_MNOTIFY_EMAIL_MESSAGE", mails |-> n]
Message == {EMAIL_CLEAR} \cup {EMAIL_MESSAGE(n) : n \in 0..MaxMails}

\* A thread in SendMessage is blocked until WindowProc has handled
\* WM_MNOTIFY_ERROR; then it goes on from here.
AfterReport == [sendFatal |-> "exit", sendLost |-> "destroy", sendPoll |-> "sleep"]
Sending(t) == pc[t] \in DOMAIN AfterReport

\* WindowProc has the message of a thread that is "unanswered" and never
\* returns from it: it shows the box of Win32FatalErrorCode.
FatalBox == \E t \in Thread : pc[t] = "unanswered"

Live(t) == pc[t] # "dead"

\* The threads that are not running are interchangeable: CreateThread starts
\* a fixed one of them.
NewThread(t) == ~Live(t) /\ t = CHOOSE u \in Thread : ~Live(u)
=============================================================================
