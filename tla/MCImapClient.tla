---------------------------- MODULE MCImapClient ----------------------------
(* Instances of ImapClient small enough for TLC. *)
EXTENDS ImapClient
=============================================================================
