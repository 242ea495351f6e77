---------------------------- MODULE MNotifyProofs ----------------------------
(***************************************************************************)
(* Theorems about MNotify for any number of threads, any counts and any    *)
(* queue limit.  Two invariants carry them: TypeOK, and WatcherInv, which  *)
(* strengthens SingleWatcher with what the timers say of the threads.      *)
(***************************************************************************)
EXTENDS MNotify, SequenceTheorems, TLAPS

\* A recovery timer is only ever set while no thread lives.
WindowTimerMeansDead ==
    \A id \in TimerId : timers[id] = "window" => \A t \in Thread : ~Live(t)

\* An idle timer is only ever set while a thread lives.
CallbackTimerMeansLive ==
    \A id \in TimerId : timers[id] = "callback" => \E t \in Thread : Live(t)

WatcherInv == SingleWatcher /\ WindowTimerMeansDead /\ CallbackTimerMeansLive

\* The main thread has the report of thread u: answered, or told in the box.
Reported(u) == Sending(u) /\ pc'[u] \in {AfterReport[pc[u]], "unanswered"}

\* What may be posted carries a count a SEARCH can report, and a queue of
\* messages stays one when a message is posted to it.
LEMMA MessageFacts ==
    /\ EMAIL_CLEAR \in Message
    /\ \A n \in 0..MaxMails : EMAIL_MESSAGE(n) \in Message
    /\ \A m \in Message : m.mails \in 0..MaxMails
    /\ 0..MaxMails \subseteq Count
<1>1. EMAIL_CLEAR.mails \in 0..MaxMails
  BY MailsAssumption DEF EMAIL_CLEAR
<1>2. \A n \in 0..MaxMails : EMAIL_MESSAGE(n).mails \in 0..MaxMails
  BY DEF EMAIL_MESSAGE
<1>3. \A m \in Message : m = EMAIL_CLEAR \/ \E n \in 0..MaxMails : m = EMAIL_MESSAGE(n)
  BY DEF Message
<1>4. 0..MaxMails \subseteq Count
  BY MailsAssumption DEF Count
<1>5. EMAIL_CLEAR \in Message /\ \A n \in 0..MaxMails : EMAIL_MESSAGE(n) \in Message
  BY DEF Message
<1>6. \A m \in Message : m.mails \in 0..MaxMails
  BY <1>1, <1>2, <1>3
<1> QED
  BY <1>4, <1>5, <1>6

\* A queue with one more message, or without it, is a queue of messages.
LEMMA PostedType ==
    ASSUME NEW queue \in Seq(Message), NEW msg \in Message
    PROVE  Posted(queue, msg) \in Seq(Message)
BY DEF Posted

\* What GetMessage leaves is a queue, and a message carries a count of mails.
LEMMA RetrieveType ==
    ASSUME TypeOK, NEW type, Retrieve(type)
    PROVE  /\ posted' \in Seq(Message)
           /\ Head(posted).mails \in 0..MaxMails
           /\ Head(posted).mails \in Count
<1>1. posted \in Seq(Message) /\ posted # <<>> /\ posted' = Tail(posted)
  BY DEF TypeOK, Retrieve
<1>2. Head(posted) \in Message /\ Tail(posted) \in Seq(Message)
  BY <1>1, HeadTailProperties
<1> QED
  BY <1>1, <1>2, MessageFacts

\* The two messages of an announcement leave a queue of messages.
LEMMA AnnouncementType ==
    ASSUME TypeOK, NEW t \in Thread
    PROVE  Announcement(t) \in Seq(Message)
<1>1. EMAIL_MESSAGE(NumberOfMails[t]) \in Message
  BY MessageFacts DEF TypeOK
<1>2. Posted(posted, EMAIL_CLEAR) \in Seq(Message)
  BY MessageFacts, PostedType DEF TypeOK
<1> QED
  BY <1>1, <1>2, PostedType DEF Announcement

\* A decremented count is a count: below zero it wraps.
LEMMA DecType ==
    ASSUME NEW n \in Count
    PROVE  Dec(n) \in Count
BY MailsAssumption DEF Dec, Count

\* Releasing a connection, or a failing call on it, leaves a connection.
LEMMA ConnectionFacts ==
    ASSUME NEW conn \in Connection
    PROVE  /\ Disconnected(conn, "closed") \in Connection \ {"open"}
           /\ Disconnected(conn, "reset") \in Connection \ {"open"}
           /\ \A writes \in BOOLEAN :
                 /\ AfterFailure(conn, writes) \subseteq Connection
                 /\ "open" \in AfterFailure(conn, writes) => conn = "open"
BY DEF Connection, Disconnected, AfterFailure

-----------------------------------------------------------------------------
(* TypeOK *)

\* The variables have their types at the start.
LEMMA InitTypeOK == Init => TypeOK
<1> SUFFICES ASSUME Init PROVE TypeOK
  OBVIOUS
<1>1. 0 \in Count /\ 0 \in 0..MaxMails
  BY MailsAssumption DEF Count
<1>2. posted \in Seq(Message) /\ timers \in [TimerId -> TimerState]
  BY DEF Init, Win32Init, TimerState
<1>3. /\ main \in MainState /\ TotalEmails \in 0..MaxMails
      /\ EmailCount \in Count /\ GlobalHasErrors \in BOOLEAN
      /\ Notification \in BOOLEAN
  BY <1>1 DEF Init, MainInit, MainState
<1>4. trayIcon \in [shown : BOOLEAN, mail : BOOLEAN, warning : BOOLEAN]
  BY DEF Init, MainInit, Icon
<1>5. /\ GlobalImapIdleClient \in Connection
      /\ GlobalImapIdleClientWasReset \in BOOLEAN
      /\ Imap \in [Thread -> Connection]
  BY DEF Init, ThreadInit, Connection
<1>6. /\ pc \in [Thread -> ThreadState]
      /\ NumberOfMails \in [Thread -> 0..MaxMails]
      /\ loaded \in [Thread -> Count]
  BY <1>1 DEF Init, ThreadInit, ThreadState
<1> QED
  BY <1>2, <1>3, <1>4, <1>5, <1>6 DEF TypeOK

\* Every step of the main thread keeps them.
LEMMA MainTypeOK ==
    ASSUME TypeOK, MainNext
    PROVE  TypeOK'
<1> USE DEF TypeOK, win32Vars, globalVars, clientVars, mainVars, threadVars
<1>1. ASSUME NEW t \in Thread, HandleError(t) PROVE TypeOK'
  <2>1. AfterReport[pc[t]] \in ThreadState
    BY <1>1 DEF HandleError, Sending, AfterReport, ThreadState
  <2> QED
    BY <1>1, <2>1 DEF HandleError, Icon
<1>2. ASSUME HandleClear PROVE TypeOK'
  <2>1. posted' \in Seq(Message)
    BY <1>2, RetrieveType DEF HandleClear
  <2>2. EmailCount' \in Count
    BY <1>2, MailsAssumption DEF HandleClear, Count
  <2> QED
    BY <1>2, <2>1, <2>2 DEF HandleClear
<1>3. ASSUME HandleCount PROVE TypeOK'
  <2>1. /\ posted' \in Seq(Message)
        /\ Head(posted).mails \in 0..MaxMails
        /\ Head(posted).mails \in Count
    BY <1>3, RetrieveType DEF HandleCount
  <2> QED
    BY <1>3, <2>1 DEF HandleCount, MainState
<1>4. ASSUME ShowCount PROVE TypeOK'
  <2>1. PICK seen \in {TotalEmails, EmailCount} :
          /\ trayIcon' = Icon(seen, GlobalHasErrors)
          /\ IF seen = 0 THEN UNCHANGED Notification ELSE ShowNotification
    BY <1>4 DEF ShowCount
  <2>2. trayIcon' \in [shown : BOOLEAN, mail : BOOLEAN, warning : BOOLEAN]
    BY <2>1 DEF Icon
  <2>3. Notification' \in BOOLEAN
    BY <2>1 DEF ShowNotification
  <2>4. main' \in MainState /\ TotalEmails' \in 0..MaxMails
    BY <1>4, MailsAssumption DEF ShowCount, MainState
  <2> QED
    BY <1>4, <2>2, <2>3, <2>4 DEF ShowCount
<1>5. ASSUME IdleTimer PROVE TypeOK'
  BY <1>5 DEF IdleTimer, MainState
<1>6. ASSUME CallbackKillTimer PROVE TypeOK'
  BY <1>6 DEF CallbackKillTimer, KillTimer, MainState, TimerState
<1>7. ASSUME CallbackSetReset PROVE TypeOK'
  BY <1>7 DEF CallbackSetReset, MainState
<1>8. ASSUME CallbackDestroyClient PROVE TypeOK'
  BY <1>8, ConnectionFacts DEF CallbackDestroyClient, MainState
<1>9. ASSUME RecoverTimer PROVE TypeOK'
  BY <1>9 DEF RecoverTimer, KillTimer, TimerState, ThreadState
<1>10. ASSUME NEW t \in Thread, HandleErrorFatal(t) PROVE TypeOK'
  BY <1>10 DEF HandleErrorFatal, ThreadState
<1>11. ASSUME ShowLog PROVE TypeOK'
  BY <1>11 DEF ShowLog, Icon
<1>12. ASSUME Quit PROVE TypeOK'
  BY <1>12 DEF Quit, KillTimer, TimerState, MainState
<1>13. ASSUME EnterLoop PROVE TypeOK'
  BY <1>13, MailsAssumption DEF EnterLoop, MainState, Count
<1>14. ASSUME DismissFatalBox PROVE TypeOK'
  BY <1>14 DEF DismissFatalBox, MainState
<1> QED
  BY <1>1, <1>2, <1>3, <1>4, <1>5, <1>6, <1>7, <1>8, <1>9, <1>10, <1>11, <1>12, <1>13,
     <1>14
  DEF MainNext, MainStep

\* A step of a thread is a jump between two of its states.
LEMMA GotoType ==
    ASSUME TypeOK, NEW t \in Thread, NEW from, NEW to \in ThreadState,
           Goto(t, from, to)
    PROVE  pc' \in [Thread -> ThreadState]
BY DEF TypeOK, Goto

\* A client call keeps the types, however it ends.
LEMMA ClientCallType ==
    ASSUME TypeOK, NEW t \in Thread, NEW at, NEW writes \in BOOLEAN,
           NEW ok \in ThreadState, NEW failed \in ThreadState,
           ClientCall(t, at, writes, ok, failed)
    PROVE  TypeOK'
<1>1. pc' \in [Thread -> ThreadState]
  BY GotoType DEF ClientCall
<1>2. GlobalImapIdleClient' \in Connection
  BY ConnectionFacts DEF TypeOK, ClientCall
<1> QED
  BY <1>1, <1>2 DEF ClientCall, TypeOK, win32Vars, globalVars, mainVars

\* A thread that stores a number of mails keeps the type of NumberOfMails.
LEMMA NumberOfMailsType ==
    ASSUME TypeOK, NEW t \in Thread
    PROVE  /\ NumberOfMails \in [Thread -> 0..MaxMails]
           /\ \A n \in 0..MaxMails :
                 [NumberOfMails EXCEPT ![t] = n] \in [Thread -> 0..MaxMails]
           /\ [NumberOfMails EXCEPT ![t] = 0] \in [Thread -> 0..MaxMails]
<1>1. NumberOfMails \in [Thread -> 0..MaxMails]
  BY DEF TypeOK
<1>2. 0 \in 0..MaxMails
  BY MailsAssumption
<1> QED
  BY <1>1, <1>2

\* Every step of a background thread keeps the types.
LEMMA ThreadTypeOK ==
    ASSUME TypeOK, NEW t \in Thread, ThreadStep(t)
    PROVE  TypeOK'
<1> USE DEF win32Vars, globalVars, clientVars, mainVars
<1>1. ASSUME Probe(t) PROVE TypeOK'
  <2>1. pc' \in [Thread -> ThreadState]
    BY <1>1 DEF Probe, Goto, TypeOK, ThreadState
  <2> QED
    BY <1>1, <2>1 DEF Probe, TypeOK, Connection
<1>2. ASSUME NEW from, LocalSetupFails(t, from) PROVE TypeOK'
  <2>1. pc' \in [Thread -> ThreadState]
    BY <1>2, GotoType DEF LocalSetupFails, ThreadState, AfterReport
  <2> QED
    BY <1>2, <2>1, ZenonT(40) DEF LocalSetupFails, TypeOK, Connection
<1>3. ASSUME Exit(t) PROVE TypeOK'
  BY <1>3 DEF Exit, Goto, SetTimer, TypeOK, ThreadState, TimerState, Connection
<1>4. ASSUME IdleTop(t) PROVE TypeOK'
  BY <1>4 DEF IdleTop, Goto, TypeOK, ThreadState
<1>5. ASSUME Connect(t) PROVE TypeOK'
  <2>1. pc' \in [Thread -> ThreadState]
    BY <1>5, GotoType DEF Connect, ThreadState, AfterReport
  <2> QED
    BY <1>5, <2>1 DEF Connect, Connected, TypeOK, Connection
<1>6. ASSUME \/ Greet(t) \/ Login(t) \/ Examine(t)
             \/ Idle(t) \/ Listen(t) \/ Done(t)
      PROVE TypeOK'
  <2>1. {"login", "examine", "arm", "listen", "done", "search", "tail", "sendFatal"}
            \subseteq ThreadState
    BY DEF ThreadState, InnerLoop, AfterReport
  <2> QED
    BY <1>6, <2>1, ClientCallType DEF Greet, Login, Examine, Idle, Listen, Done
<1>7. ASSUME Arm(t) PROVE TypeOK'
  BY <1>7 DEF Arm, Goto, SetTimer, TypeOK, ThreadState, InnerLoop, TimerState
<1>8. ASSUME ListenExpunge(t) PROVE TypeOK'
  BY <1>8 DEF ListenExpunge, Goto, TypeOK, ThreadState, InnerLoop
<1>9. ASSUME Check(t) PROVE TypeOK'
  BY <1>9 DEF Check, Goto, TypeOK, ThreadState, InnerLoop
<1>10. ASSUME Decrement(t) PROVE TypeOK'
  <2>1. EmailCount' \in Count
    BY <1>10, DecType DEF Decrement, TypeOK
  <2>2. 0 \in Count
    BY MailsAssumption DEF Count
  <2> QED
    BY <1>10, <2>1, <2>2 DEF Decrement, Goto, TypeOK, ThreadState, InnerLoop
<1>11. ASSUME Search(t) PROVE TypeOK'
  <2>1. pc' \in [Thread -> ThreadState]
    BY <1>11, GotoType DEF Search, ThreadState, InnerLoop
  <2>2. NumberOfMails' \in [Thread -> 0..MaxMails]
    BY <1>11, NumberOfMailsType DEF Search
  <2>3. GlobalImapIdleClient' \in Connection
    BY <1>11, ConnectionFacts DEF Search, TypeOK
  <2> QED
    BY <1>11, <2>1, <2>2, <2>3 DEF Search, TypeOK
<1>12. ASSUME Compare(t) PROVE TypeOK'
  BY <1>12 DEF Compare, Goto, TypeOK, ThreadState, InnerLoop
<1>13. ASSUME Announce(t) PROVE TypeOK'
  <2>1. posted' \in Seq(Message)
    BY <1>13, AnnouncementType DEF Announce
  <2> QED
    BY <1>13, <2>1, MailsAssumption DEF Announce, Goto, TypeOK, ThreadState
<1>14. ASSUME CheckReset(t) PROVE TypeOK'
  BY <1>14 DEF CheckReset, Goto, TypeOK, ThreadState, AfterReport
<1>15. ASSUME DestroyClient(t) PROVE TypeOK'
  BY <1>15, ConnectionFacts DEF DestroyClient, Goto, TypeOK, ThreadState
<1>16. ASSUME Poll(t) PROVE TypeOK'
  BY <1>16 DEF Poll, Goto, TypeOK, ThreadState, Connection
<1>17. ASSUME PollSearch(t) PROVE TypeOK'
  <2>1. pc' \in [Thread -> ThreadState]
    BY <1>17, GotoType DEF PollSearch, ThreadState, AfterReport
  <2>2. NumberOfMails' \in [Thread -> 0..MaxMails]
    BY <1>17, NumberOfMailsType DEF PollSearch
  <2>3. Imap' \in [Thread -> Connection]
    BY <1>17, ConnectionFacts, ZenonT(40) DEF PollSearch, TypeOK, Connection
  <2> QED
    BY <1>17, <2>1, <2>2, <2>3 DEF PollSearch, TypeOK
<1>18. ASSUME PollCompare(t) PROVE TypeOK'
  BY <1>18 DEF PollCompare, Goto, TypeOK, ThreadState
<1>19. ASSUME PollAnnounce(t) PROVE TypeOK'
  <2>1. posted' \in Seq(Message)
    BY <1>19, AnnouncementType DEF PollAnnounce
  <2> QED
    BY <1>19, <2>1 DEF PollAnnounce, Goto, TypeOK, ThreadState
<1>20. ASSUME PollStore(t) PROVE TypeOK'
  BY <1>20, MessageFacts DEF PollStore, Goto, TypeOK, ThreadState
<1>21. ASSUME Sleep(t) PROVE TypeOK'
  BY <1>21, MailsAssumption DEF Sleep, Goto, TypeOK, ThreadState
<1> QED
  BY <1>1, <1>2, <1>3, <1>4, <1>5, <1>6, <1>7, <1>8, <1>9, <1>10, <1>11, <1>12, <1>13,
     <1>14, <1>15, <1>16, <1>17, <1>18, <1>19, <1>20, <1>21
  DEF ThreadStep

\* Every variable keeps its type: in particular EmailCount stays within an
\* unsigned int, because its decrement wraps (mnotify.c:87, 424-430).
THEOREM TypeCorrect == Spec => []TypeOK
<1>1. TypeOK /\ UNCHANGED vars => TypeOK'
  BY DEF TypeOK, vars, win32Vars, globalVars, clientVars, mainVars, threadVars
<1>2. TypeOK /\ [Next]_vars => TypeOK'
  BY <1>1, MainTypeOK, ThreadTypeOK DEF Next, Exited
<1> QED
  BY <1>2, InitTypeOK, PTL DEF Spec
-----------------------------------------------------------------------------
(* SingleWatcher *)

\* A thread only moves itself, only while it lives and the process runs; it
\* touches neither the errors flag nor the icon, and sets no recovery timer
\* before its last step.
LEMMA ThreadFrame ==
    ASSUME TypeOK, NEW t \in Thread, ThreadStep(t)
    PROVE  /\ Live(t)
           /\ pc[t] # "unanswered" /\ pc'[t] # "unanswered"
           /\ \A u \in Thread : u # t => pc'[u] = pc[u]
           /\ UNCHANGED <<mainVars, GlobalHasErrors, trayIcon>>
           /\ main # "exited"
           /\ \/ UNCHANGED timers
              \/ timers' = [timers EXCEPT ![RESTART_IMAP_IDLE_TIMER_ID] = "callback"]
              \/ pc'[t] = "dead"
           /\ pc'[t] = "dead" => Exit(t)
<1> USE DEF TypeOK, Goto, Live, win32Vars, globalVars, clientVars, mainVars
<1>1. CASE Probe(t) \/ LocalSetupFails(t, "probe") \/ IdleTop(t) \/ Connect(t)
  BY <1>1 DEF Probe, LocalSetupFails, IdleTop, Connect
<1>2. CASE Exit(t)
  BY <1>2 DEF Exit
<1>3. ASSUME NEW at, at # "dead", at # "unanswered", NEW writes,
             NEW ok, ok # "dead", ok # "unanswered",
             NEW failed, failed # "dead", failed # "unanswered",
             ClientCall(t, at, writes, ok, failed)
      PROVE  /\ Live(t) /\ pc'[t] # "dead"
             /\ pc[t] # "unanswered" /\ pc'[t] # "unanswered"
             /\ \A u \in Thread : u # t => pc'[u] = pc[u]
             /\ UNCHANGED <<mainVars, GlobalHasErrors, trayIcon, timers>>
             /\ main # "exited"
  BY <1>3 DEF ClientCall
<1>4. CASE Greet(t) \/ Login(t) \/ Examine(t) \/ Idle(t) \/ Listen(t) \/ Done(t)
  BY <1>3, <1>4 DEF Greet, Login, Examine, Idle, Listen, Done
<1>5. CASE Arm(t)
  BY <1>5 DEF Arm, SetTimer
<1>6. CASE ListenExpunge(t) \/ Check(t) \/ Decrement(t) \/ Search(t) \/ Compare(t)
  BY <1>6 DEF ListenExpunge, Check, Decrement, Search, Compare
<1>7. CASE Announce(t) \/ CheckReset(t) \/ DestroyClient(t)
  BY <1>7 DEF Announce, CheckReset, DestroyClient
<1>8. CASE Poll(t) \/ LocalSetupFails(t, "poll") \/ PollSearch(t) \/ PollCompare(t)
  BY <1>8 DEF Poll, LocalSetupFails, PollSearch, PollCompare
<1>9. CASE PollAnnounce(t) \/ PollStore(t) \/ Sleep(t)
  BY <1>9 DEF PollAnnounce, PollStore, Sleep
<1> QED
  BY <1>1, <1>2, <1>4, <1>5, <1>6, <1>7, <1>8, <1>9 DEF ThreadStep

\* The main thread starts a thread only from a recovery timer, which it
\* kills; else it sets no timer and at most takes up the report of a sender.
LEMMA MainFrame ==
    ASSUME TypeOK, MainNext
    PROVE  \/ RecoverTimer
           \/ /\ \A u \in Thread : pc'[u] = pc[u] \/ Reported(u)
              /\ UNCHANGED timers \/ \E id \in TimerId : KillTimer(id)
<1> USE DEF TypeOK, win32Vars, globalVars, clientVars, threadVars
<1>1. ASSUME NEW t \in Thread, HandleError(t) \/ HandleErrorFatal(t)
      PROVE  /\ \A u \in Thread : pc'[u] = pc[u] \/ Reported(u)
             /\ UNCHANGED timers
  BY <1>1 DEF HandleError, HandleErrorFatal, Reported
<1>2. CASE \/ EnterLoop \/ HandleClear \/ HandleCount \/ ShowCount
           \/ DismissFatalBox \/ ShowLog
  BY <1>2 DEF EnterLoop, HandleClear, HandleCount, ShowCount, DismissFatalBox, ShowLog
<1>3. CASE IdleTimer \/ CallbackKillTimer \/ CallbackSetReset \/ CallbackDestroyClient
  BY <1>3 DEF IdleTimer, CallbackKillTimer, CallbackSetReset, CallbackDestroyClient, TimerId
<1>4. CASE Quit
  BY <1>4 DEF Quit, TimerId
<1> QED
  BY <1>1, <1>2, <1>3, <1>4 DEF MainNext, MainStep

\* Every step keeps one thread, and the recovery timer without any.
LEMMA WatcherStep ==
    ASSUME TypeOK, WatcherInv, Next
    PROVE  WatcherInv'
<1> USE DEF WatcherInv, SingleWatcher, WindowTimerMeansDead, CallbackTimerMeansLive, Live
<1>1. ASSUME NEW t \in Thread, ThreadStep(t) PROVE WatcherInv'
  <2>1. \A u \in Thread : Live(u)' => Live(u)
    BY <1>1, ThreadFrame
  <2>2. CASE UNCHANGED timers /\ pc'[t] # "dead"
    BY <2>1, <2>2
  <2>3. CASE /\ timers' = [timers EXCEPT ![RESTART_IMAP_IDLE_TIMER_ID] = "callback"]
             /\ pc'[t] # "dead"
    BY <1>1, <2>1, <2>3, ThreadFrame DEF TypeOK
  <2>4. CASE pc'[t] = "dead"
    <3>1. \A id \in TimerId : timers'[id] = "window"
      BY <1>1, <2>4, ThreadFrame DEF Exit, SetTimer, TimerId, TypeOK,
         MNOTIFY_TIMER_RECOVER, RESTART_IMAP_IDLE_TIMER_ID
    <3>2. \A u \in Thread : ~Live(u)'
      BY <1>1, <2>1, <2>4, ThreadFrame
    <3> QED
      BY <3>1, <3>2
  <2> QED
    BY <1>1, <2>2, <2>3, <2>4, ThreadFrame
<1>2. ASSUME RecoverTimer PROVE WatcherInv'
  <2>1. \A u \in Thread : ~Live(u)
    BY <1>2 DEF RecoverTimer, TimerElapsed, TimerId
  <2>2. \A id \in TimerId : timers'[id] = "off"
    BY <1>2 DEF RecoverTimer, KillTimer, TimerId, TypeOK,
                MNOTIFY_TIMER_RECOVER, RESTART_IMAP_IDLE_TIMER_ID
  <2>3. CASE UNCHANGED pc
    BY <2>2, <2>3
  <2>4. ASSUME NEW t \in Thread, pc' = [pc EXCEPT ![t] = "probe"] PROVE WatcherInv'
    BY <2>1, <2>2, <2>4 DEF TypeOK
  <2> QED
    BY <1>2, <2>3, <2>4 DEF RecoverTimer
<1>3. ASSUME \A u \in Thread : pc'[u] = pc[u] \/ Reported(u),
             UNCHANGED timers \/ \E id \in TimerId : KillTimer(id)
      PROVE  WatcherInv'
  <2>1. \A u \in Thread : Live(u)' <=> Live(u)
    BY <1>3 DEF Reported, Sending, AfterReport
  <2>2. \A id \in TimerId : timers'[id] # "off" => timers'[id] = timers[id]
    BY <1>3 DEF KillTimer, TypeOK
  <2> QED
    BY <2>1, <2>2
<1>4. ASSUME Exited PROVE WatcherInv'
  BY <1>4 DEF Exited, vars, win32Vars, threadVars
<1> QED
  BY <1>1, <1>2, <1>3, <1>4, MainFrame DEF Next

\* WatcherInv holds throughout.
LEMMA WatcherInvariant == Spec => []WatcherInv
<1>1. Init => WatcherInv
  <2> SUFFICES ASSUME Init PROVE WatcherInv
    OBVIOUS
  <2>1. \A id \in TimerId : timers[id] = "off"
    BY DEF Init, Win32Init
  <2>2. SingleWatcher
    BY DEF Init, ThreadInit, SingleWatcher, Live
  <2> QED
    BY <2>1, <2>2 DEF WatcherInv, WindowTimerMeansDead, CallbackTimerMeansLive
<1>2. TypeOK /\ WatcherInv /\ [Next]_vars => WatcherInv'
  <2>1. WatcherInv /\ UNCHANGED vars => WatcherInv'
    BY DEF WatcherInv, SingleWatcher, WindowTimerMeansDead, CallbackTimerMeansLive, Live,
           vars, win32Vars, threadVars
  <2> QED
    BY <2>1, WatcherStep
<1> QED
  BY <1>1, <1>2, TypeCorrect, PTL DEF Spec

\* At most one background thread runs, however often the recovery timer is
\* set, elapses or is killed (mnotify.c:500-503, 521-529).
THEOREM OneWatcher == Spec => []SingleWatcher
BY WatcherInvariant, PTL DEF WatcherInv

-----------------------------------------------------------------------------
(* Watcher *)

\* With one live thread that is not held up in the box, the mailbox is
\* watched; with none and the recovery timer set, a retry is due.
LEMMA WatchFacts ==
    /\ \A t \in Thread :
          /\ main # "exited" /\ Live(t) /\ WatcherInv
          => WatchState = IF pc[t] = "unanswered" THEN "halted" ELSE "watching"
    /\ main # "exited" /\ (\A t \in Thread : ~Live(t))
          => WatchState = IF timers[MNOTIFY_TIMER_RECOVER] = "window"
                             THEN "retrying" ELSE "forgotten"
    /\ WatchState = "exited" <=> main = "exited"
BY DEF WatchState, FatalBox, WatcherInv, SingleWatcher, Live

\* A thread's step leaves it watching, or ends it with a retry due.
LEMMA ThreadWatches ==
    ASSUME TypeOK, WatcherInv, WatcherInv', NEW t \in Thread, ThreadStep(t)
    PROVE  W!Fail \/ UNCHANGED <<WatchState, main>>
<1>1. main # "exited" /\ main' = main /\ WatchState = "watching"
  BY ThreadFrame, WatchFacts DEF mainVars
<1>2. CASE pc'[t] # "dead"
  <2>1. WatchState' = "watching"
    BY <1>1, <1>2, ThreadFrame DEF WatchState, FatalBox, WatcherInv, SingleWatcher, Live
  <2> QED
    BY <1>1, <2>1
<1>3. CASE pc'[t] = "dead"
  <2>1. \A u \in Thread : ~Live(u)'
    BY <1>1, <1>3, ThreadFrame DEF WatcherInv, SingleWatcher, Live
  <2>2. timers'[MNOTIFY_TIMER_RECOVER] = "window"
    BY <1>3, ThreadFrame DEF Exit, SetTimer, TypeOK, TimerId
  <2>3. WatchState' = "retrying"
    BY <1>1, <2>1, <2>2 DEF WatchState, FatalBox, Live
  <2> QED
    BY <1>1, <2>3 DEF W!Fail
<1> QED
  BY <1>2, <1>3

\* The recovery timer starts a thread, or is refused one.
LEMMA RecoverWatches ==
    ASSUME TypeOK, WatcherInv, RecoverTimer
    PROVE  W!Restart \/ W!Refuse
<1>1. main = "loop" /\ main' = main
  BY DEF RecoverTimer, mainVars
<1>2. \A u \in Thread : ~Live(u)
  BY DEF RecoverTimer, TimerElapsed, TimerId, WatcherInv, WindowTimerMeansDead
<1>3. WatchState = "retrying"
  BY <1>1, <1>2, WatchFacts DEF RecoverTimer, TimerElapsed
<1>4. CASE FALSE \in ThreadCreated /\ UNCHANGED pc
  <2>1. timers'[MNOTIFY_TIMER_RECOVER] = "off" /\ \A u \in Thread : ~Live(u)'
    BY <1>2, <1>4 DEF RecoverTimer, KillTimer, TypeOK, TimerId, Live
  <2>2. WatchState' = "forgotten"
    BY <1>1, <2>1 DEF WatchState, FatalBox, Live
  <2> QED
    BY <1>1, <1>3, <1>4, <2>2 DEF W!Refuse
<1>5. ASSUME NEW t \in Thread, pc' = [pc EXCEPT ![t] = "probe"] PROVE W!Restart
  <2>1. pc'[t] = "probe" /\ \A u \in Thread : pc'[u] # "unanswered"
    BY <1>2, <1>5 DEF Live, TypeOK
  <2>2. WatchState' = "watching"
    BY <1>1, <2>1 DEF WatchState, FatalBox, Live
  <2> QED
    BY <1>1, <1>3, <2>2 DEF W!Restart
<1> QED
  BY <1>4, <1>5 DEF RecoverTimer

\* A report is answered, and its thread goes on watching, or it is told in
\* the box and the program halts.
LEMMA ReportWatches ==
    ASSUME TypeOK, WatcherInv, NEW t \in Thread, HandleError(t) \/ HandleErrorFatal(t)
    PROVE  W!Halt \/ UNCHANGED <<WatchState, main>>
<1>1. main = "loop" /\ main' = main
  BY DEF HandleError, HandleErrorFatal, mainVars
<1>2. Live(t) /\ pc[t] # "unanswered"
  BY DEF HandleError, HandleErrorFatal, Sending, AfterReport, Live
<1>3. WatchState = "watching" /\ \A u \in Thread : u # t => pc[u] = "dead"
  BY <1>1, <1>2, WatchFacts DEF WatcherInv, SingleWatcher, Live
<1>4. CASE HandleError(t)
  <2>1. pc'[t] \notin {"dead", "unanswered"} /\ \A u \in Thread : u # t => pc'[u] = "dead"
    BY <1>3, <1>4 DEF HandleError, Sending, AfterReport, TypeOK
  <2> QED
    BY <1>1, <1>3, <2>1 DEF WatchState, FatalBox, Live
<1>5. CASE HandleErrorFatal(t)
  <2>1. pc'[t] = "unanswered"
    BY <1>5 DEF HandleErrorFatal, TypeOK
  <2>2. FatalBox'
    BY <2>1 DEF FatalBox
  <2>3. WatchState' = "halted"
    BY <1>1, <2>1, <2>2 DEF WatchState, Live
  <2> QED
    BY <1>1, <1>3, <2>3 DEF W!Halt
<1> QED
  BY <1>4, <1>5

\* What an idle timer that elapses, and its KillTimer, do to the promise.
LEMMA IdleWatches ==
    ASSUME TypeOK, WatcherInv, IdleTimer \/ CallbackKillTimer
    PROVE  W!IdleElapses \/ W!Kill
<1>1. CASE IdleTimer
  <2>1. PICK t \in Thread : Live(t)
    BY <1>1 DEF IdleTimer, TimerElapsed, TimerId, WatcherInv, CallbackTimerMeansLive
  <2>2. main = "loop" /\ main' = "killTimer" /\ UNCHANGED pc
    BY <1>1 DEF IdleTimer, threadVars
  <2>3. WatchState \in {"watching", "halted"}
    BY <2>1, <2>2, WatchFacts
  <2>4. UNCHANGED WatchState
    BY <1>1, <2>2 DEF WatchState, FatalBox, Live, IdleTimer, win32Vars
  <2> QED
    BY <2>2, <2>3, <2>4 DEF W!IdleElapses
<1>2. CASE CallbackKillTimer
  <2>1. main = "killTimer" /\ main' = "setReset" /\ UNCHANGED pc
    BY <1>2 DEF CallbackKillTimer, threadVars
  <2>2. timers'[MNOTIFY_TIMER_RECOVER] = "off"
    BY <1>2 DEF CallbackKillTimer, KillTimer, TypeOK, TimerId,
                MNOTIFY_TIMER_RECOVER, RESTART_IMAP_IDLE_TIMER_ID
  <2>3. WatchState' = IF WatchState = "retrying" THEN "forgotten" ELSE WatchState
    BY <2>1, <2>2 DEF WatchState, FatalBox, Live
  <2> QED
    BY <2>1, <2>3 DEF W!Kill
<1> QED
  BY <1>1, <1>2

\* Every step of the main thread is one of Watcher, or none that it sees.
LEMMA MainWatches ==
    ASSUME TypeOK, WatcherInv, MainNext
    PROVE  [W!Next]_<<WatchState, main = "killTimer">>
<1>1. CASE DismissFatalBox \/ Quit
  <2>1. main = "loop" /\ main' = "exited"
    BY <1>1 DEF DismissFatalBox, Quit
  <2> QED
    BY <2>1 DEF WatchState, W!Exit, W!Next
<1>2. CASE EnterLoop \/ HandleClear \/ HandleCount \/ ShowCount \/ ShowLog
  <2>1. /\ main \notin {"exited", "killTimer"} /\ main' \notin {"exited", "killTimer"}
        /\ UNCHANGED <<pc, timers>>
    BY <1>2 DEF EnterLoop, HandleClear, HandleCount, Retrieve, ShowCount, ShowLog,
                win32Vars, mainVars, threadVars
  <2> QED
    BY <2>1 DEF WatchState, FatalBox, Live
<1>3. CASE CallbackSetReset \/ CallbackDestroyClient
  <2>1. /\ main \notin {"exited", "killTimer"} /\ main' \notin {"exited", "killTimer"}
        /\ UNCHANGED <<pc, timers>>
    BY <1>3 DEF CallbackSetReset, CallbackDestroyClient, win32Vars, threadVars
  <2> QED
    BY <2>1 DEF WatchState, FatalBox, Live
<1> QED
  BY <1>1, <1>2, <1>3, RecoverWatches, ReportWatches, IdleWatches
  DEF MainNext, MainStep, W!Next

\* The threads and the two timers together behave like Watcher: a thread
\* that ends has a restart due in the same step, only the main thread starts
\* one, and a retry is only lost to an idle timer that had elapsed before it
\* was set, or to a thread that is not created; what is lost stays lost
\* (mnotify.c:373, 500-503, 521-529).
THEOREM WatcherRefined == Spec => W!Spec
<1>1. Init => W!Init
  <2> SUFFICES ASSUME Init PROVE WatchState = "watching" /\ ~(main = "killTimer")
    BY DEF W!Init
  <2>1. /\ main = "start" /\ \E t \in Thread : Live(t)
        /\ \A t \in Thread : pc[t] # "unanswered"
    BY DEF Init, MainInit, ThreadInit, Live
  <2> QED
    BY <2>1 DEF WatchState, FatalBox
<1>2. TypeOK /\ WatcherInv /\ WatcherInv' /\ [Next]_vars
        => [W!Next]_<<WatchState, main = "killTimer">>
  <2>1. ASSUME UNCHANGED vars PROVE UNCHANGED <<WatchState, main = "killTimer">>
    BY <2>1 DEF WatchState, FatalBox, Live, vars, win32Vars, mainVars, threadVars
  <2> QED
    BY <2>1, ThreadWatches, MainWatches DEF Next, Exited, W!Next
<1> QED
  BY <1>1, <1>2, TypeCorrect, WatcherInvariant, PTL DEF Spec, W!Spec

-----------------------------------------------------------------------------
(* ListenGuarded *)

\* A thread enters the inner loop by arming the timer; inside it, it neither
\* touches the timer nor opens the connection.
LEMMA InnerLoopStep ==
    ASSUME TypeOK, NEW t \in Thread, ThreadStep(t), pc'[t] \in InnerLoop
    PROVE  \/ timers'[RESTART_IMAP_IDLE_TIMER_ID] = "callback"
           \/ /\ pc[t] \in InnerLoop
              /\ UNCHANGED timers
              /\ GlobalImapIdleClient' = "open" => GlobalImapIdleClient = "open"
<1> USE DEF TypeOK, Goto, InnerLoop, win32Vars, clientVars
<1>1. ASSUME NEW at \in InnerLoop, NEW writes \in BOOLEAN, NEW ok, NEW failed,
             ClientCall(t, at, writes, ok, failed)
      PROVE  /\ pc[t] \in InnerLoop
             /\ UNCHANGED timers
             /\ GlobalImapIdleClient' = "open" => GlobalImapIdleClient = "open"
  BY <1>1, ConnectionFacts DEF ClientCall
<1>2. CASE Idle(t) \/ Listen(t) \/ Done(t)
  BY <1>1, <1>2 DEF Idle, Listen, Done
<1>3. CASE Arm(t)
  BY <1>3 DEF Arm, SetTimer, TimerId
<1>4. CASE ListenExpunge(t) \/ Check(t) \/ Decrement(t) \/ Compare(t)
  BY <1>4 DEF ListenExpunge, Check, Decrement, Compare
<1>5. CASE Search(t)
  BY <1>5, ConnectionFacts DEF Search
<1>6. ~(Probe(t) \/ LocalSetupFails(t, "probe") \/ Exit(t) \/ IdleTop(t))
  BY DEF Probe, LocalSetupFails, Exit, IdleTop
<1>7. ~(Connect(t) \/ Greet(t) \/ Login(t) \/ Examine(t))
  BY DEF Connect, Greet, Login, Examine, ClientCall
<1>8. ~(Announce(t) \/ CheckReset(t) \/ DestroyClient(t))
  BY DEF Announce, CheckReset, DestroyClient
<1>9. ~(Poll(t) \/ LocalSetupFails(t, "poll") \/ PollSearch(t) \/ PollCompare(t))
  BY DEF Poll, LocalSetupFails, PollSearch, PollCompare
<1>10. ~(PollAnnounce(t) \/ PollStore(t) \/ Sleep(t))
  BY DEF PollAnnounce, PollStore, Sleep
<1> QED
  BY <1>2, <1>3, <1>4, <1>5, <1>6, <1>7, <1>8, <1>9, <1>10 DEF ThreadStep

\* Every step keeps the reads of the IDLE loop guarded.
LEMMA ListenGuardedStep ==
    ASSUME TypeOK, WatcherInv, ListenGuarded, Next
    PROVE  ListenGuarded'
<1> SUFFICES ASSUME NEW u \in Thread,
                    pc'[u] \in InnerLoop,
                    GlobalImapIdleClient' = "open",
                    main' # "exited"
             PROVE  \/ timers'[RESTART_IMAP_IDLE_TIMER_ID] = "callback"
                    \/ main' \in {"setReset", "destroyClient"}
  BY DEF ListenGuarded
<1>1. ASSUME NEW t \in Thread, ThreadStep(t)
      PROVE  \/ timers'[RESTART_IMAP_IDLE_TIMER_ID] = "callback"
             \/ main' \in {"setReset", "destroyClient"}
  <2>1. u = t
    BY <1>1, ThreadFrame DEF WatcherInv, SingleWatcher, Live, InnerLoop
  <2> QED
    BY <1>1, <2>1, InnerLoopStep, ThreadFrame DEF ListenGuarded, mainVars
<1>2. ASSUME MainNext
      PROVE  \/ timers'[RESTART_IMAP_IDLE_TIMER_ID] = "callback"
             \/ main' \in {"setReset", "destroyClient"}
  <2> USE <1>2 DEF win32Vars, globalVars, clientVars, mainVars, threadVars
  <2>1. CASE RecoverTimer
    \* No thread lives, and the new one is not in the inner loop.
    <3>1. ~Live(u)
      BY <2>1 DEF RecoverTimer, TimerElapsed, TimerId, WatcherInv, WindowTimerMeansDead
    <3> QED
      BY <2>1, <3>1 DEF RecoverTimer, TypeOK, Live, InnerLoop
  <2>2. ASSUME ~RecoverTimer PROVE pc[u] \in InnerLoop
    BY <2>2, MainFrame DEF Reported, Sending, AfterReport, InnerLoop
  <2>3. ASSUME NEW t \in Thread, HandleError(t) \/ HandleErrorFatal(t)
        PROVE  UNCHANGED <<timers, main, GlobalImapIdleClient>>
    BY <2>3 DEF HandleError, HandleErrorFatal
  <2>4. ASSUME EnterLoop \/ HandleClear \/ HandleCount \/ ShowCount \/ IdleTimer \/ ShowLog
        PROVE  /\ UNCHANGED <<timers, GlobalImapIdleClient>>
               /\ main \in {"start", "loop", "showCount"}
    BY <2>4 DEF EnterLoop, HandleClear, HandleCount, Retrieve, ShowCount, IdleTimer, ShowLog
  <2>5. CASE CallbackKillTimer \/ CallbackSetReset
    BY <2>5 DEF CallbackKillTimer, CallbackSetReset
  <2>6. ~CallbackDestroyClient
    BY ConnectionFacts DEF CallbackDestroyClient, TypeOK
  <2>7. ~DismissFatalBox /\ ~Quit
    BY DEF DismissFatalBox, Quit
  <2> QED
    BY <2>1, <2>2, <2>3, <2>4, <2>5, <2>6, <2>7 DEF MainNext, MainStep, ListenGuarded
<1>3. ASSUME Exited
      PROVE  \/ timers'[RESTART_IMAP_IDLE_TIMER_ID] = "callback"
             \/ main' \in {"setReset", "destroyClient"}
  BY <1>3 DEF Exited, vars, mainVars
<1> QED
  BY <1>1, <1>2, <1>3 DEF Next

\* No read inside the IDLE loop is left without the timer that ends it
\* (mnotify.c:78-80, 370-376, 405-406).
THEOREM ReadsGuarded == Spec => []ListenGuarded
<1>1. Init => ListenGuarded
  BY DEF Init, ThreadInit, ListenGuarded
<1>2. TypeOK /\ WatcherInv /\ ListenGuarded /\ [Next]_vars => ListenGuarded'
  <2>1. ListenGuarded /\ UNCHANGED vars => ListenGuarded'
    BY DEF ListenGuarded, vars, win32Vars, clientVars, mainVars, threadVars
  <2> QED
    BY <2>1, ListenGuardedStep
<1> QED
  BY <1>1, <1>2, TypeCorrect, WatcherInvariant, PTL DEF Spec

-----------------------------------------------------------------------------
(* WarningIcon *)

\* A box that is shown stays until the process ends.
LEMMA BoxStays ==
    ASSUME TypeOK, FatalBox, \/ MainNext \/ \E t \in Thread : ThreadStep(t)
    PROVE  FatalBox'
<1>1. PICK u \in Thread : pc[u] = "unanswered"
  BY DEF FatalBox
<1>2. ASSUME NEW t \in Thread, ThreadStep(t) PROVE pc'[u] = pc[u]
  BY <1>1, <1>2, ThreadFrame
<1>3. CASE RecoverTimer
  BY <1>1, <1>3 DEF RecoverTimer, NewThread, Live, TypeOK, FatalBox
<1>4. ASSUME MainNext, ~RecoverTimer PROVE pc'[u] = pc[u]
  BY <1>1, <1>4, MainFrame DEF Reported, Sending, AfterReport
<1> QED
  BY <1>1, <1>2, <1>3, <1>4 DEF FatalBox

\* The warning triangle is only shown while errors were reported that the
\* user has not looked at, and always then, but for the box that tells of a
\* log that cannot be written (mnotify.c:117, 535-541, 598-608, 621-634;
\* README.md:31).
THEOREM WarningShown == Spec => []WarningIcon
<1>1. Init => WarningIcon
  BY DEF Init, MainInit, WarningIcon, Icon
<1>2. TypeOK /\ WarningIcon /\ [Next]_vars => WarningIcon'
  <2> SUFFICES ASSUME TypeOK, WarningIcon, [Next]_vars PROVE WarningIcon'
    OBVIOUS
  <2> USE DEF WarningIcon, win32Vars, globalVars, clientVars, mainVars, threadVars
  <2>1. ASSUME NEW t \in Thread, ThreadStep(t) PROVE WarningIcon'
    BY <2>1, ThreadFrame, BoxStays
  <2>2. ASSUME NEW t \in Thread, HandleError(t) PROVE WarningIcon'
    BY <2>2 DEF HandleError, Icon
  <2>3. ASSUME NEW t \in Thread, HandleErrorFatal(t) PROVE WarningIcon'
    BY <2>3 DEF HandleErrorFatal, FatalBox, TypeOK
  <2>4. CASE EnterLoop \/ HandleClear \/ HandleCount
    BY <2>4, BoxStays
    DEF EnterLoop, HandleClear, HandleCount, Retrieve, MainNext, MainStep
  <2>5. CASE ShowCount
    BY <2>5 DEF ShowCount, Icon
  <2>6. CASE IdleTimer \/ CallbackKillTimer \/ CallbackSetReset \/ CallbackDestroyClient
    BY <2>6, BoxStays
    DEF IdleTimer, CallbackKillTimer, CallbackSetReset, CallbackDestroyClient, MainNext,
        MainStep
  <2>7. CASE RecoverTimer
    BY <2>7, BoxStays DEF RecoverTimer, MainNext, MainStep
  <2>8. CASE DismissFatalBox \/ Quit
    BY <2>8 DEF DismissFatalBox, Quit
  <2>9. CASE ShowLog
    BY <2>9 DEF ShowLog, Icon
  <2>10. CASE UNCHANGED vars
    BY <2>10 DEF vars, FatalBox
  <2> QED
    BY <2>1, <2>2, <2>3, <2>4, <2>5, <2>6, <2>7, <2>8, <2>9, <2>10
    DEF Next, MainNext, MainStep, Exited
<1> QED
  BY <1>1, <1>2, TypeCorrect, PTL DEF Spec
-----------------------------------------------------------------------------
(* ExpungeRaisesOnlyByRace *)

\* A thread about to decrement has read a count above zero.
LoadedAboveZero == \A t \in Thread : pc[t] = "decrement" => loaded[t] > 0

\* Only its own check brings a thread there, only its own decrement takes it
\* away, and no other step writes what it has loaded.
LEMMA DecrementSteps ==
    ASSUME TypeOK, NEW t \in Thread, ThreadStep(t)
    PROVE  /\ \A u \in Thread : u # t => pc'[u] = pc[u] /\ loaded'[u] = loaded[u]
           /\ pc'[t] = "decrement" => loaded'[t] > 0
           /\ pc[t] = "decrement" => Decrement(t)
<1> USE DEF TypeOK, Goto, clientVars, globalVars, mainVars, win32Vars
<1>1. CASE Check(t)
  BY <1>1 DEF Check
<1>2. CASE Decrement(t)
  BY <1>2 DEF Decrement
<1>3. ASSUME NEW at, at # "decrement", NEW writes, NEW ok, ok # "decrement",
             NEW failed, failed # "decrement", ClientCall(t, at, writes, ok, failed)
      PROVE  /\ UNCHANGED loaded
             /\ \A u \in Thread : u # t => pc'[u] = pc[u]
             /\ pc'[t] # "decrement" /\ pc[t] # "decrement"
  BY <1>3 DEF ClientCall
<1>4. CASE Greet(t) \/ Login(t) \/ Examine(t) \/ Idle(t) \/ Listen(t) \/ Done(t)
  BY <1>3, <1>4 DEF Greet, Login, Examine, Idle, Listen, Done
<1>5. CASE Probe(t) \/ LocalSetupFails(t, "probe") \/ Exit(t) \/ IdleTop(t) \/ Connect(t)
  BY <1>5 DEF Probe, LocalSetupFails, Exit, IdleTop, Connect
<1>6. CASE Arm(t) \/ ListenExpunge(t) \/ Search(t) \/ Compare(t) \/ Announce(t)
  BY <1>6 DEF Arm, ListenExpunge, Search, Compare, Announce
<1>7. CASE CheckReset(t) \/ DestroyClient(t)
  BY <1>7 DEF CheckReset, DestroyClient
<1>8. CASE Poll(t) \/ LocalSetupFails(t, "poll") \/ PollSearch(t) \/ PollCompare(t)
  BY <1>8 DEF Poll, LocalSetupFails, PollSearch, PollCompare
<1>9. CASE PollAnnounce(t) \/ PollStore(t) \/ Sleep(t)
  BY <1>9 DEF PollAnnounce, PollStore, Sleep
<1> QED
  BY <1>1, <1>2, <1>4, <1>5, <1>6, <1>7, <1>8, <1>9 DEF ThreadStep

\* No step of the main thread leaves or enters a thread's decrement.
LEMMA MainKeepsLoaded ==
    ASSUME TypeOK, MainNext
    PROVE  /\ UNCHANGED loaded
           /\ \A u \in Thread : pc[u] = "decrement" <=> pc'[u] = "decrement"
<1>1. UNCHANGED loaded
  BY DEF MainNext, MainStep, EnterLoop, HandleError, HandleClear, HandleCount, ShowCount, IdleTimer,
         CallbackKillTimer, CallbackSetReset, CallbackDestroyClient, RecoverTimer,
         HandleErrorFatal, DismissFatalBox, ShowLog, Quit, threadVars
<1>2. CASE RecoverTimer
  BY <1>1, <1>2 DEF RecoverTimer, NewThread, TypeOK, Live
<1>3. CASE ~RecoverTimer
  <2>1. \A u \in Thread :
            Reported(u) => pc[u] # "decrement" /\ pc'[u] # "decrement"
    BY DEF Reported, Sending, AfterReport
  <2> QED
    BY <1>1, <1>3, <2>1, MainFrame
<1> QED
  BY <1>2, <1>3

\* A thread at the decrement has read a count above zero.
LEMMA LoadedInvariant == Spec => []LoadedAboveZero
<1>1. Init => LoadedAboveZero
  BY DEF Init, ThreadInit, LoadedAboveZero
<1>2. TypeOK /\ LoadedAboveZero /\ [Next]_vars => LoadedAboveZero'
  <2> SUFFICES ASSUME TypeOK, LoadedAboveZero, [Next]_vars,
                      NEW t \in Thread, pc'[t] = "decrement"
               PROVE  loaded'[t] > 0
    BY DEF LoadedAboveZero
  <2>1. ASSUME NEW u \in Thread, ThreadStep(u) PROVE loaded'[t] > 0
    <3>1. CASE u = t
      BY <2>1, <3>1, DecrementSteps
    <3>2. CASE u # t
      BY <2>1, <3>2, DecrementSteps DEF LoadedAboveZero
    <3> QED
      BY <3>1, <3>2
  <2>2. CASE MainNext
    BY <2>2, MainKeepsLoaded DEF LoadedAboveZero
  <2>3. CASE UNCHANGED vars
    BY <2>3 DEF LoadedAboveZero, vars, threadVars
  <2> QED
    BY <2>1, <2>2, <2>3 DEF Next, Exited
<1> QED
  BY <1>1, <1>2, TypeCorrect, PTL DEF Spec

\* An EXPUNGE lowers the count, unless the main thread stored another one
\* between the thread's read and its write (mnotify.c:424-430).
THEOREM ExpungeLowers == Spec => ExpungeRaisesOnlyByRace
<1>1. ASSUME TypeOK, LoadedAboveZero, [Next]_vars,
             NEW t \in Thread, pc[t] = "decrement", pc'[t] = "listen",
             EmailCount' > EmailCount
      PROVE  EmailCount # loaded[t]
  <2>1. CASE MainNext
    BY <1>1, <2>1, MainKeepsLoaded
  <2>2. CASE \E u \in Thread : ThreadStep(u)
    <3>1. Decrement(t)
      BY <1>1, <2>2, DecrementSteps
    <3>2. SUFFICES ASSUME EmailCount = loaded[t] PROVE FALSE
      OBVIOUS
    <3>3. EmailCount' = loaded[t] - 1
      BY <1>1, <3>1, <3>2 DEF Decrement, Dec, LoadedAboveZero
    <3> QED
      BY <1>1, <3>2, <3>3, MailsAssumption DEF TypeOK, Count
  <2>3. CASE UNCHANGED vars
    BY <1>1, <2>3 DEF vars, threadVars
  <2> QED
    BY <1>1, <2>1, <2>2, <2>3 DEF Next, Exited
<1>2. TypeOK /\ LoadedAboveZero /\ [Next]_vars
        => [\A t \in Thread : pc[t] = "decrement" /\ pc'[t] = "listen" /\ EmailCount' > EmailCount
                                => EmailCount # loaded[t]]_vars
  BY <1>1
<1> QED
  BY <1>2, TypeCorrect, LoadedInvariant, PTL DEF Spec, ExpungeRaisesOnlyByRace
=============================================================================
