-------------------------------- MODULE Win32 --------------------------------
(***************************************************************************)
(* The part of the Windows message system that src/mnotify.c relies on:    *)
(* the queue of posted messages of the main thread and the timers of its   *)
(* window.  It is external code, modelled from how mnotify.c uses it.      *)
(*                                                                         *)
(*   - PostMessage never blocks; when the queue is at its limit it fails,  *)
(*     and every caller in mnotify.c ignores the result, so the message is *)
(*     silently dropped.                                                   *)
(*   - A timer is identified by its window and its number.  SetTimer on an *)
(*     identifier in use replaces the timer and its procedure; KillTimer   *)
(*     removes whatever timer has the identifier.                          *)
(*   - A timer keeps firing until it is killed.                            *)
(***************************************************************************)
EXTENDS Integers, Sequences

CONSTANT QueueLimit     \* how many posted messages the queue holds

ASSUME QueueLimitAssumption == QueueLimit \in Nat \ {0}

VARIABLES
    posted,     \* the messages posted to the window and not yet retrieved
    timers      \* what is behind each timer identifier of the window

win32Vars == <<posted, timers>>

\* The two numbers the program gives its timers, both for GlobalWindow.
MNOTIFY_TIMER_RECOVER == 1
RESTART_IMAP_IDLE_TIMER_ID == 1

TimerId == {MNOTIFY_TIMER_RECOVER, RESTART_IMAP_IDLE_TIMER_ID}

\* "off": no such timer.  "window": it sends WM_TIMER to WindowProc.
\* "callback": it calls ImapPerformIdleTimerCallback.
TimerState == {"off", "window", "callback"}

Win32Init ==
    /\ posted = <<>>
    /\ timers = [id \in TimerId |-> "off"]

\* The queue after msg is posted to queue.
Posted(queue, msg) ==
    IF Len(queue) < QueueLimit THEN Append(queue, msg) ELSE queue

SetTimer(id, target) == timers' = [timers EXCEPT ![id] = target]

KillTimer(id) == timers' = [timers EXCEPT ![id] = "off"]

\* GetMessage generates WM_TIMER only when no other message is waiting.
TimerElapsed(id, target) ==
    /\ timers[id] = target
    /\ posted = <<>>
=============================================================================
