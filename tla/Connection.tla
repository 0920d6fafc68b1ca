----------------------------- MODULE Connection -----------------------------
(***************************************************************************)
(* What one connection promises the application, whatever the network and  *)
(* the callers do: a state that only moves forward, and a stream of events *)
(* that opens at most once and ends with exactly one close event.          *)
(* Link implements this specification.                                     *)
(***************************************************************************)
EXTENDS Integers, Sequences

VARIABLES
    state,   \* what Conn::state() returns
    events,  \* this connection's undelivered events in the hub's queue
    hubUp    \* FALSE once the hub was dropped

connVars == <<state, events, hubUp>>

States == {"connecting", "open", "closing", "closed"}
Abnormal == 1006
Inbound == {"message", "ping", "pong"}
Events == [kind : Inbound \cup {"open", "error", "drain", "close"}, code : Nat]
Event(kind) == [kind |-> kind, code |-> 0]
CloseEvent(code) == [kind |-> "close", code |-> code]
\* Events::send: an event sent once the hub is closed is refused.
Sent(event) == IF hubUp THEN Append(events, event) ELSE events

ConnInit == state = "connecting" /\ events = <<>> /\ hubUp = TRUE

Opens ==
    /\ state = "connecting"
    /\ state' = "open"
    /\ events' = Sent(Event("open"))
    /\ UNCHANGED hubUp

\* Errors may come in any state; traffic only between open and close.
Reports(kind) ==
    /\ state # "closed"
    /\ kind # "error" => state # "connecting"
    /\ events' = Sent(Event(kind))
    /\ UNCHANGED <<state, hubUp>>

StartsClosing ==
    /\ state = "open"
    /\ state' = "closing"
    /\ UNCHANGED <<events, hubUp>>

\* A status other than 1006 is reported only after a closing handshake began.
Ends(code) ==
    /\ state # "closed"
    /\ code # Abnormal => state = "closing"
    /\ state' = "closed"
    /\ events' = Sent(CloseEvent(code))
    /\ UNCHANGED hubUp

Takes ==
    /\ hubUp
    /\ events # <<>>
    /\ events' = Tail(events)
    /\ UNCHANGED <<state, hubUp>>

HubCloses == hubUp /\ hubUp' = FALSE /\ UNCHANGED <<state, events>>

\* Nobody is left to receive: queued events go, a queued connection ends.
HubDrains ==
    /\ ~hubUp
    /\ events' = <<>>
    /\ state' \in {state, "closed"}
    /\ UNCHANGED hubUp

ConnNext ==
    \/ Opens \/ StartsClosing \/ Takes \/ HubCloses \/ HubDrains
    \/ \E kind \in Inbound \cup {"error", "drain"} : Reports(kind)
    \/ \E code \in {1000, 1002, 1005, Abnormal} : Ends(code)

ConnSpec == ConnInit /\ [][ConnNext]_connVars

(* Event::Close is "always the last event of a connection" (event.rs), and *)
(* it is queued in the same step that makes the state closed.              *)
CloseIsFinal ==
    \A i \in 1..Len(events) :
        events[i].kind = "close" => state = "closed" /\ i = Len(events)

=============================================================================
