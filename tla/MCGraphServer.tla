---------------------------- MODULE MCGraphServer ----------------------------
(* TLC instances of GraphServer. *)
EXTENDS GraphServer, TLC

CONSTANTS c1, c2, c3

Line(kind, items, size) == [kind |-> kind, items |-> items, large |-> size = "large"]

(* a lookup, a batch with a navigation and a large response, a line answered     *)
(* without being dispatched                                                      *)
MixedLines == {Line("call", <<"lookup">>, "small"), Line("call", <<"path", "lookup">>, "large"),
               Line("error", <<>>, "small")}

(* every way a line can end: answered, cancelled, cut off, abandoned *)
LongLines  == {Line("call", <<"expand">>, "small"), Line("call", <<"lookup", "path">>, "small"),
               Line("oversized", <<>>, "small"), Line("call", <<"lookup", "badMethod">>, "small")}
BadLines   == {Line("call", <<"lookup">>, "small"), Line("call", <<"badMethod">>, "small")}

Symmetry == Permutations(Clients)
=============================================================================
