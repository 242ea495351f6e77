------------------------------- MODULE LineQueue -------------------------------
(***************************************************************************)
(* What the calls of src/imap_client.c need of imap_read_line: they get    *)
(* the lines of the server whole and in order, except that a new call      *)
(* drops those that had already been received.  ImapClient reads lines     *)
(* this way.                                                               *)
(***************************************************************************)
EXTENDS Integers, Sequences

VARIABLES
    coming,     \* the lines that are still to be received
    kept,       \* those received and not yet returned
    line        \* the line in the caller's hands, 0 if it has none

queueVars == <<coming, kept, line>>

Init ==
    /\ coming \in Seq(Nat)
    /\ kept = <<>>
    /\ line = 0

\* A new call empties its line and drops what is kept.
NewCall ==
    /\ kept' = <<>>
    /\ line' = 0
    /\ UNCHANGED coming

ReadKept ==
    /\ kept # <<>>
    /\ line' = Head(kept)
    /\ kept' = Tail(kept)
    /\ UNCHANGED coming

\* As many lines come as happen to have been sent at once.
Receive ==
    /\ kept = <<>>
    /\ \E n \in 1..Len(coming) :
          /\ line' = Head(coming)
          /\ kept' = SubSeq(coming, 2, n)
          /\ coming' = SubSeq(coming, n + 1, Len(coming))

Next == NewCall \/ ReadKept \/ Receive

Spec == Init /\ [][Next]_queueVars
=============================================================================
