------------------------------- MODULE MCChat -------------------------------
(* Small instances of Chat.                                                  *)
EXTENDS Chat
=============================================================================
