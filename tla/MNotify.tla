------------------------------- MODULE MNotify -------------------------------
(***************************************************************************)
(* The program of src/mnotify.c: the main thread and the background        *)
(* thread it starts, over the globals, the message queue and the timers    *)
(* they share.                                                             *)
(***************************************************************************)
EXTENDS WindowProc, BackgroundThread

\* WinMain: globals set, window made, first background thread created.
Init == Win32Init /\ MainInit /\ ThreadInit

\* ExitProcess was called: no thread runs any more.
Exited == main = "exited" /\ UNCHANGED vars

Next ==
    \/ MainNext
    \/ \E t \in Thread : ThreadStep(t)
    \/ Exited

Spec == Init /\ [][Next]_vars

\* The main loop keeps retrieving messages and an armed timer elapses; a
\* thread runs on unless it waits for a server that owes it an answer.
Fairness ==
    /\ WF_vars(MainStep)
    /\ \A t \in Thread : WF_vars(~Waiting(t) /\ ThreadStep(t))

FairSpec == Spec /\ Fairness

-----------------------------------------------------------------------------
TypeOK ==
    /\ posted \in Seq(Message)
    /\ timers \in [TimerId -> TimerState]
    /\ EmailCount \in Count
    /\ GlobalHasErrors \in BOOLEAN
    /\ trayIcon \in [shown : BOOLEAN, mail : BOOLEAN, warning : BOOLEAN]
    /\ Notification \in BOOLEAN
    /\ GlobalImapIdleClient \in Connection
    /\ GlobalImapIdleClientWasReset \in BOOLEAN
    /\ Imap \in [Thread -> Connection]
    /\ main \in MainState
    /\ TotalEmails \in 0..MaxMails
    /\ pc \in [Thread -> ThreadState]
    /\ NumberOfMails \in [Thread -> 0..MaxMails]
    /\ loaded \in [Thread -> Count]

\* Two background threads never run at once, whatever the recovery timer
\* does: they would share one connection, one line buffer and EmailCount.
\* (The recovery timer is set only by the last act of a thread, and killed
\* before the thread it starts, mnotify.c:500-503, 521-529.)
SingleWatcher == \A t, u \in Thread : Live(t) /\ Live(u) => t = u

\* The idle timer is the only thing that ends a read of a silent server:
\* a thread inside the IDLE loop on an open connection has it armed, or the
\* main thread is on its way to close that connection (mnotify.c:78-80).
ListenGuarded ==
    \A t \in Thread :
        /\ pc[t] \in InnerLoop
        /\ GlobalImapIdleClient = "open"
        /\ main # "exited"
        => \/ timers[RESTART_IMAP_IDLE_TIMER_ID] = "callback"
           \/ main \in {"setReset", "destroyClient"}

\* An EXPUNGE raises EmailCount only if the main thread has stored another
\* count since the thread read it: the unsigned count wraps below zero, and
\* a stale count is written back, in that race alone (mnotify.c:424-430).
ExpungeRaisesOnlyByRace ==
    [][\A t \in Thread : pc[t] = "decrement" /\ pc'[t] = "listen" /\ EmailCount' > EmailCount
                            => EmailCount # loaded[t]]_vars

\* The tray shows the warning triangle exactly while there are errors the
\* user has not looked at, after any order of errors, counts and "Show Log"
\* (README.md:31); only while the box tells that the log cannot be written
\* may the triangle be missing (mnotify.c:117, 621-632).
WarningIcon ==
    main # "exited" =>
        /\ trayIcon.warning => GlobalHasErrors
        /\ GlobalHasErrors => trayIcon.warning \/ FatalBox

\* A thread that reports an error does not stay blocked in SendMessage: the
\* main loop gets to it between its posted messages and timer callbacks and
\* answers it, unless the process ends or the log cannot be opened: then a
\* box waits for the user, for as long as the user likes (mnotify.c:117,
\* 465, 479).
Blocked(t) == Sending(t) \/ pc[t] = "unanswered"
ReportDelivered ==
    \A t \in Thread : Blocked(t) ~> (~Blocked(t) \/ FatalBox \/ main = "exited")

\* Reading from a silent server in the IDLE loop always ends: the timer
\* closes the connection under the read (mnotify.c:78-80).
Listening(t) == pc[t] \in {"idle", "listen", "check", "decrement", "done", "search"}
NoReadHangs ==
    \A t \in Thread : Listening(t) ~> (~Listening(t) \/ main = "exited")

\* What the threads, the timers and the fatal box amount to for the promise
\* that the mailbox is watched.
WatchState ==
    CASE main = "exited"                                       -> "exited"
      [] main # "exited" /\ FatalBox                           -> "halted"
      [] main # "exited" /\ ~FatalBox
            /\ (\E t \in Thread : Live(t))                     -> "watching"
      [] main # "exited" /\ (\A t \in Thread : ~Live(t))
            /\ timers[MNOTIFY_TIMER_RECOVER] = "window"         -> "retrying"
      [] OTHER                                                 -> "forgotten"

W == INSTANCE Watcher WITH watch <- WatchState, killing <- main = "killTimer"

\* The program implements Watcher: a thread that ends leaves a recovery timer
\* behind it in the same step, only that timer starts another thread, and it
\* does so unless an idle timer that had already elapsed kills it or no
\* thread is created; from then on nothing ever watches (mnotify.c:373,
\* 500-503, 521-529).
ImplementsWatcher == W!FairSpec

-----------------------------------------------------------------------------
(* What comments and documentation say and the code does not do. *)

\* mnotify.c:462: "Check if it was us who reset the connection".  A
\* connection the callback closed is never reported as lost.
ResetRecognised ==
    [][\A t \in Thread : pc[t] = "tail" /\ pc'[t] = "sendLost"
                            => GlobalImapIdleClient # "reset"]_vars

\* README.md:27: "If the background thread listening for emails exits it will
\* restart after this many seconds."
ExitedThreadRestarts ==
    (\A t \in Thread : ~Live(t)) ~> (main = "exited" \/ \E t \in Thread : Live(t))

\* tls.c:208: "disconnects socket & releases resources (call this even if
\* tls_write/tls_read function return error)".  A connection is released
\* before the variable that holds it, the shared one or that of a polling
\* iteration, is connected again.
ReleasedBeforeReconnect ==
    \A t \in Thread :
        /\ pc[t] = "connect" => GlobalImapIdleClient \notin {"open", "broken"}
        /\ pc[t] = "poll" => Imap[t] \notin {"open", "broken"}
=============================================================================
