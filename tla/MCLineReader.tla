---------------------------- MODULE MCLineReader ----------------------------
(* Instances of LineReader small enough for TLC: texts of up to three lines, *)
(* none longer than fits in the buffer together with a record.              *)
EXTENDS LineReader, SequencesExt

CONSTANTS MaxLines, MaxContent

\* A line of n characters before its end.
LineOf(n) == [i \in 1..n |-> "x"] \o <<"CR", "LF">>

MCTexts == UNION {{FlattenSeq([i \in 1..k |-> LineOf(lengths[i])]) :
                      lengths \in [1..k -> 0..MaxContent]} : k \in 1..MaxLines}
=============================================================================
