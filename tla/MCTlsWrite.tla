----------------------------- MODULE MCTlsWrite -----------------------------
(* Instances of TlsWrite small enough for TLC. *)
EXTENDS TlsWrite
=============================================================================
