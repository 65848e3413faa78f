--------------------------- MODULE MCServiceSocket ---------------------------
(* TLC instances of ServiceSocket. *)
EXTENDS ServiceSocket

CONSTANTS s1, s2
=============================================================================
