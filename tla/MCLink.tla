------------------------------- MODULE MCLink -------------------------------
(* Constants for model-checking Link.                                      *)
EXTENDS Link

CONSTANT a1

OneApp == {a1}
TwoLens == {1, 2}

\* Two reads of these defer pongs, close in both ways and violate.
MixedChunks == {<<"ping">>, <<"text", "empty">>, <<"bad">>}
\* Heartbeats that are answered, and a close.
BeatChunks == {<<"ours">>, <<"close">>}
\* A pong nobody asked for, and a close.
StrayChunks == {<<"pong", "close">>}
ClosingChunks == {<<"text", "close">>}

=============================================================================
