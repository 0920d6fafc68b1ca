----------------------------- MODULE MCAdmission -----------------------------
(* Constants for model-checking Admission.                                 *)
EXTENDS Admission

CONSTANTS p1, p2, c1

TwoPeers == {p1, p2}
OneCloser == {c1}

=============================================================================
