---------------------------- MODULE MCLifecycle ----------------------------
(* TLC instances of Lifecycle. *)
EXTENDS Lifecycle

CONSTANTS s1, s2, c1, c2

(* the code of the skill's stop is that of the lifecycle command *)
SomeKinds == AllKinds \ {<<"skill", "stop">>}
=============================================================================
