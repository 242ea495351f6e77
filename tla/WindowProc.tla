------------------------------ MODULE WindowProc ------------------------------
(***************************************************************************)
(* The main thread of src/mnotify.c: the message loop of WinMain, the      *)
(* handlers of WindowProc and ImapPerformIdleTimerCallback.                *)
(*                                                                         *)
(* GetMessage first dispatches the messages other threads sent and are     *)
(* blocked on, then the posted ones, then timers.  Handlers run to their   *)
(* end, but the steps of one that read or write what the background thread *)
(* also writes are interleaved with it.                                    *)
(*                                                                         *)
(* The box of Win32FatalErrorCode is modal: MessageBox runs a message loop *)
(* of its own inside the handler, which dispatches everything as WinMain's *)
(* does.  "loop" stands for either loop; it is the box's while FatalBox.   *)
(***************************************************************************)
EXTENDS Globals

MainState == {"start", "loop", "killTimer", "setReset", "destroyClient", "showCount", "exited"}

\* GlobalOpenIcon, GlobalClosedIcon and their two Warning variants.
Icon(count, warning) == [shown |-> TRUE, mail |-> count # 0, warning |-> warning]

NothingSent == \A t \in Thread : ~Sending(t)

\* WinMain has created the first background thread.
MainInit ==
    /\ main = "start"
    /\ TotalEmails = 0
    /\ EmailCount = 0
    /\ GlobalHasErrors = FALSE
    /\ trayIcon = Icon(0, FALSE)
    /\ Notification = FALSE

\* The count is cleared when the thread already runs; then the loop begins.
EnterLoop ==
    /\ main = "start"
    /\ EmailCount' = 0
    /\ main' = "loop"
    /\ UNCHANGED <<win32Vars, clientVars, threadVars, GlobalHasErrors, trayIcon,
                   Notification, TotalEmails>>

\* Mutant: an error is only handled when no earlier one is shown.
HandleErrorOnce(t) ==
    /\ main = "loop"
    /\ Sending(t)
    /\ ~GlobalHasErrors
    /\ GlobalHasErrors' = TRUE
    /\ trayIcon' = Icon(EmailCount, TRUE)
    /\ pc' = [pc EXCEPT ![t] = AfterReport[pc[t]]]
    /\ UNCHANGED <<win32Vars, clientVars, mainVars, EmailCount, Notification,
                   NumberOfMails, loaded>>

\* WM_MNOTIFY_ERROR: the error is logged, the warning icon shown and the
\* sender released.
HandleError(t) ==
    /\ main = "loop"
    /\ Sending(t)
    /\ GlobalHasErrors' = TRUE
    /\ trayIcon' = Icon(EmailCount, TRUE)
    /\ pc' = [pc EXCEPT ![t] = AfterReport[pc[t]]]
    /\ UNCHANGED <<win32Vars, clientVars, mainVars, EmailCount, Notification,
                   NumberOfMails, loaded>>

\* ... unless the log cannot be opened: a box tells the user, with the flag
\* set, the icon as it was and the sender still blocked.
HandleErrorFatal(t) ==
    /\ main = "loop"
    /\ Sending(t)
    /\ GlobalHasErrors' = TRUE
    /\ pc' = [pc EXCEPT ![t] = "unanswered"]
    /\ UNCHANGED <<win32Vars, clientVars, mainVars, EmailCount, trayIcon,
                   Notification, NumberOfMails, loaded>>

\* The user dismisses the box, and Win32FatalErrorCode ends the process.
DismissFatalBox ==
    /\ main = "loop"
    /\ NothingSent
    /\ FatalBox
    /\ main' = "exited"
    /\ UNCHANGED <<win32Vars, globalVars, clientVars, threadVars, TotalEmails>>

\* GetMessage retrieves the oldest posted message, if it is of this type.
Retrieve(type) ==
    /\ main = "loop"
    /\ NothingSent
    /\ posted # <<>>
    /\ Head(posted).type = type
    /\ posted' = Tail(posted)

HandleClear ==
    /\ Retrieve("WM_MNOTIFY_EMAIL_CLEAR")
    /\ EmailCount' = 0
    /\ UNCHANGED <<timers, clientVars, mainVars, threadVars, GlobalHasErrors,
                   trayIcon, Notification>>

\* WM_MNOTIFY_EMAIL_MESSAGE stores the count ...
HandleCount ==
    /\ Retrieve("WM_MNOTIFY_EMAIL_MESSAGE")
    /\ TotalEmails' = Head(posted).mails
    /\ EmailCount' = Head(posted).mails
    /\ main' = "showCount"
    /\ UNCHANGED <<timers, clientVars, threadVars, GlobalHasErrors, trayIcon,
                   Notification>>

\* A toast is created and shown; one that was there before is released.
ShowNotification == Notification' = TRUE

\* Mutant: a new count is shown without looking at GlobalHasErrors.
ShowPlainCount ==
    /\ main = "showCount"
    /\ \E seen \in {TotalEmails, EmailCount} :
          /\ trayIcon' = Icon(seen, FALSE)
          /\ IF seen = 0 THEN UNCHANGED Notification ELSE ShowNotification
    /\ main' = "loop"
    /\ TotalEmails' = 0
    /\ UNCHANGED <<win32Vars, clientVars, threadVars, EmailCount, GlobalHasErrors>>

\* ... and then reads it again for the icon and the toast: the value it
\* stored, or what the background thread has made of it since.
ShowCount ==
    /\ main = "showCount"
    /\ \E seen \in {TotalEmails, EmailCount} :
          /\ trayIcon' = Icon(seen, GlobalHasErrors)
          /\ IF seen = 0 THEN UNCHANGED Notification ELSE ShowNotification
    /\ main' = "loop"
    /\ TotalEmails' = 0
    /\ UNCHANGED <<win32Vars, clientVars, threadVars, EmailCount, GlobalHasErrors>>

\* The idle timer fires: DispatchMessage calls ImapPerformIdleTimerCallback.
IdleTimer ==
    /\ main = "loop"
    /\ NothingSent
    /\ TimerElapsed(RESTART_IMAP_IDLE_TIMER_ID, "callback")
    /\ main' = "killTimer"
    /\ UNCHANGED <<win32Vars, globalVars, clientVars, threadVars, TotalEmails>>

CallbackKillTimer ==
    /\ main = "killTimer"
    /\ KillTimer(RESTART_IMAP_IDLE_TIMER_ID)
    /\ main' = "setReset"
    /\ UNCHANGED <<posted, globalVars, clientVars, threadVars, TotalEmails>>

CallbackSetReset ==
    /\ main = "setReset"
    /\ GlobalImapIdleClientWasReset' = TRUE
    /\ main' = "destroyClient"
    /\ UNCHANGED <<win32Vars, globalVars, threadVars, GlobalImapIdleClient, Imap,
                   TotalEmails>>

\* Mutant: the callback only raises the flag.
CallbackForgetsClient ==
    /\ main = "destroyClient"
    /\ main' = "loop"
    /\ UNCHANGED <<win32Vars, globalVars, clientVars, threadVars, TotalEmails>>

CallbackDestroyClient ==
    /\ main = "destroyClient"
    /\ GlobalImapIdleClient' = Disconnected(GlobalImapIdleClient, "reset")
    /\ main' = "loop"
    /\ UNCHANGED <<win32Vars, globalVars, threadVars, GlobalImapIdleClientWasReset,
                   Imap, TotalEmails>>

\* Mutant: the recovery timer is not killed and elapses again.
RecoverTimerKept ==
    /\ main = "loop"
    /\ NothingSent
    /\ TimerElapsed(MNOTIFY_TIMER_RECOVER, "window")
    /\ \E t \in Thread :
          /\ ~Live(t)
          /\ pc' = [pc EXCEPT ![t] = "probe"]
    /\ UNCHANGED <<win32Vars, globalVars, clientVars, mainVars, NumberOfMails, loaded>>

\* WM_TIMER with the recovery timer's number: a new background thread, if
\* CreateThread makes one; nobody looks at its result.
RecoverTimer ==
    /\ main = "loop"
    /\ NothingSent
    /\ TimerElapsed(MNOTIFY_TIMER_RECOVER, "window")
    /\ KillTimer(MNOTIFY_TIMER_RECOVER)
    /\ \/ /\ TRUE \in ThreadCreated
          /\ \E t \in Thread :
                /\ NewThread(t)
                /\ pc' = [pc EXCEPT ![t] = "probe"]
       \/ FALSE \in ThreadCreated /\ UNCHANGED pc
    /\ UNCHANGED <<posted, globalVars, clientVars, mainVars, NumberOfMails, loaded>>

\* The user picks "Show Log".  The menu offers it when there are errors, and
\* nothing but this handler clears GlobalHasErrors, so it still holds when
\* the choice is made, whatever the menu's own message loop dispatched.
ShowLog ==
    /\ main = "loop"
    /\ NothingSent
    /\ GlobalHasErrors
    /\ GlobalHasErrors' = FALSE
    /\ trayIcon' = Icon(EmailCount, FALSE)
    /\ UNCHANGED <<win32Vars, clientVars, mainVars, threadVars, EmailCount,
                   Notification>>

\* The user picks "Exit": WM_DESTROY removes the icon, kills the timer and
\* posts WM_QUIT, and the message loop ends the process; that of the box
\* ends the box, and the process with it.
Quit ==
    /\ main = "loop"
    /\ NothingSent
    /\ trayIcon' = [trayIcon EXCEPT !.shown = FALSE]
    /\ KillTimer(RESTART_IMAP_IDLE_TIMER_ID)
    /\ main' = "exited"
    /\ UNCHANGED <<posted, clientVars, threadVars, EmailCount, GlobalHasErrors,
                   Notification, TotalEmails>>

\* What the main thread does without the user or a failing disk.
MainStep ==
    \/ EnterLoop
    \/ \E t \in Thread : HandleError(t)
    \/ HandleClear
    \/ HandleCount
    \/ ShowCount
    \/ IdleTimer
    \/ CallbackKillTimer
    \/ CallbackSetReset
    \/ CallbackDestroyClient
    \/ RecoverTimer

MainNext ==
    \/ MainStep
    \/ \E t \in Thread : HandleErrorFatal(t)
    \/ DismissFatalBox
    \/ ShowLog
    \/ Quit
=============================================================================
