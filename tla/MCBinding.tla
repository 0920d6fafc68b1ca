------------------------------ MODULE MCBinding -----------------------------
(* Constants for model-checking Binding.                                   *)
EXTENDS Binding

CONSTANTS c1, p1, s1

OneClient == {c1}
OnePeer == {p1}
OneServer == {s1}
AtOne == [p \in Peers |-> s1]

=============================================================================
