------------------------------ MODULE ByteStream ------------------------------
(***************************************************************************)
(* What a socket promises to the two ends of one of its directions: the    *)
(* bytes one end has to say reach the other in order, none left out and    *)
(* none twice, until the stream ends or fails, and none after that.        *)
(***************************************************************************)
EXTENDS Integers, Sequences

VARIABLES
    data,       \* what there is to say
    delivered,  \* what was handed over
    status      \* "open", "ended" (a hang-up was reported) or "failed"

streamVars == <<data, delivered, status>>

Init ==
    /\ data \in Seq(Nat)
    /\ delivered = <<>>
    /\ status = "open"

Deliver ==
    /\ status = "open"
    /\ \E n \in (Len(delivered) + 1)..Len(data) : delivered' = SubSeq(data, 1, n)
    /\ UNCHANGED <<data, status>>

End == status = "open" /\ status' = "ended" /\ UNCHANGED <<data, delivered>>

\* An end that was reported may still turn out a failure of the connection.
Fail == status' = "failed" /\ UNCHANGED <<data, delivered>>

Next == Deliver \/ End \/ Fail

Spec == Init /\ [][Next]_streamVars
=============================================================================
