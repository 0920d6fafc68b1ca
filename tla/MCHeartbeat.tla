----------------------------- MODULE MCHeartbeat -----------------------------
(* Heartbeat for model checking; the configurations give its constants.    *)
EXTENDS Heartbeat

=============================================================================
