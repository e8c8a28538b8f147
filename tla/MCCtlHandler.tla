----------------------------- MODULE MCCtlHandler -----------------------------
(* Two connections of one host, or of two hosts, that differ in one bit of   *)
(* their port.                                                               *)
EXTENDS CtlHandler, TLC

CONSTANTS s1, s2

OneHost == (s1 :> [ip |-> 1, port |-> {0}]) @@ (s2 :> [ip |-> 1, port |-> {1}])

TwoAndOne == (s1 :> 2) @@ (s2 :> 1)
EightEach == (s1 :> 8) @@ (s2 :> 0)

===============================================================================
