------------------------------ MODULE MCWatch -------------------------------
(* Small instances of Watch.                                                 *)
EXTENDS Watch
=============================================================================
