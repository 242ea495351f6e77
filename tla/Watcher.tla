-------------------------------- MODULE Watcher --------------------------------
(***************************************************************************)
(* What the program keeps of its promise to watch the mailbox for as long  *)
(* as it runs (README.md:5, 27): a background thread watches, or one is    *)
(* due to be started again.  A retry that is due is carried out, with two  *)
(* exceptions: an idle timer that elapsed before the thread ended kills    *)
(* it, for the two timers have one number, or no thread can be created.    *)
(***************************************************************************)
CONSTANT ThreadCreated      \* the results the creation of a thread may have

VARIABLES
    watch,
    killing     \* an idle timer has elapsed and will kill the timer it finds

Watch == {"watching", "retrying", "forgotten", "halted", "exited"}

Init == watch = "watching" /\ killing = FALSE

IdleElapses ==
    /\ watch \in {"watching", "halted"}
    /\ ~killing
    /\ killing' = TRUE
    /\ UNCHANGED watch

\* The timer is killed; when it was the retry, nothing brings that back.
Kill ==
    /\ killing
    /\ killing' = FALSE
    /\ watch' = IF watch = "retrying" THEN "forgotten" ELSE watch

\* The background thread ends; a retry is due at once.
Fail == watch = "watching" /\ watch' = "retrying" /\ UNCHANGED killing

Restart == watch = "retrying" /\ ~killing /\ watch' = "watching" /\ UNCHANGED killing

\* No thread is created for the retry, and it is not due any more.
Refuse ==
    /\ FALSE \in ThreadCreated
    /\ watch = "retrying"
    /\ ~killing
    /\ watch' = "forgotten"
    /\ UNCHANGED killing

\* The thread has reported what cannot be logged: the user is told, and
\* nothing but the end of the program comes after that.
Halt == watch = "watching" /\ ~killing /\ watch' = "halted" /\ UNCHANGED killing

Exit == watch # "exited" /\ ~killing /\ watch' = "exited" /\ UNCHANGED killing

Next == IdleElapses \/ Kill \/ Fail \/ Restart \/ Refuse \/ Halt \/ Exit

Spec == Init /\ [][Next]_<<watch, killing>>

\* A timer that elapsed acts, and a retry does not stay due for ever.
FairSpec == Spec /\ WF_<<watch, killing>>(Kill \/ Restart \/ Refuse)
=============================================================================
