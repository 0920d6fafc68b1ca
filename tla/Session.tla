------------------------------ MODULE Session ------------------------------
(***************************************************************************)
(* Two connections of this library, a client's and a server's, at the ends *)
(* of one TCP connection: how they close it together.  Each end is a Link  *)
(* reduced to what the other end can see; Link has the threads, locks and  *)
(* wakeups behind every step.  Inboxes do not fill up here, and both ends  *)
(* keep the protocol.                                                      *)
(***************************************************************************)
EXTENDS Integers, Sequences

CONSTANT MaxSends  \* bound on the messages of each end

ASSUME SessionAssumption == MaxSends \in Nat

VARIABLES
    state,     \* Flags.state of each end
    sentClose, \* the code of the close frame it queued, or 0
    received,  \* Flags.received, or 0
    passed,    \* Flags.deadline has passed
    queue,     \* what its writer has to write
    wire,      \* written by it and not yet read by the other end
    fin,       \* it has shut its sending direction
    rd,        \* its read_loop: "read", "flush" or "over"
    sends,     \* messages it sent
    got,       \* messages it delivered
    reported,  \* the code of its close event, or 0
    faulted    \* some end was terminated or timed out

endVars == <<state, sentClose, received, passed, queue, wire, fin, rd, sends, got, reported>>
vars == <<endVars, faulted>>

Ends == {"client", "server"}
Peer(e) == IF e = "client" THEN "server" ELSE "client"
Own == [client |-> 1000, server |-> 1001]
Abnormal == 1006
Data == 1
Fin == 2
Reset == 3
IsClose(item) == item >= 1000
Set(f, e, v) == [f EXCEPT ![e] = v]

Init ==
    /\ state = [e \in Ends |-> "open"] /\ rd = [e \in Ends |-> "read"]
    /\ sentClose = [e \in Ends |-> 0] /\ received = [e \in Ends |-> 0]
    /\ passed = [e \in Ends |-> FALSE] /\ fin = [e \in Ends |-> FALSE]
    /\ queue = [e \in Ends |-> <<>>] /\ wire = [e \in Ends |-> <<>>]
    /\ sends = [e \in Ends |-> 0] /\ got = [e \in Ends |-> 0]
    /\ reported = [e \in Ends |-> 0] /\ faulted = FALSE

(***************************************************************************)
(* The application.                                                        *)
(***************************************************************************)
Send(e) ==
    /\ state[e] = "open" /\ sends[e] < MaxSends
    /\ sends' = Set(sends, e, sends[e] + 1)
    /\ queue' = Set(queue, e, Append(queue[e], Data))
    /\ UNCHANGED <<state, sentClose, received, passed, wire, fin, rd, got, reported>>

Pushed(e, items) == queue[e] \o items

Close(e) ==
    /\ state[e] = "open"
    /\ state' = Set(state, e, "closing") /\ sentClose' = Set(sentClose, e, Own[e])
    /\ queue' = Set(queue, e, Pushed(e, <<Own[e]>>))
    /\ UNCHANGED <<received, passed, wire, fin, rd, sends, got, reported>>

(***************************************************************************)
(* finish(): the close event, the writer stopped, the socket shut both     *)
(* ways.  Input that is unread then, or comes later, may reset the         *)
(* connection, and what was still on its way to the peer is lost.          *)
(***************************************************************************)
Shuts(e) == IF fin[e] THEN wire[e] ELSE Append(wire[e], Fin)
Finish(e, code) ==
    /\ state[e] # "closed"
    /\ state' = Set(state, e, "closed") /\ reported' = Set(reported, e, code)
    /\ queue' = Set(queue, e, <<>>) /\ rd' = Set(rd, e, "over") /\ fin' = Set(fin, e, TRUE)
    /\ \E left \in {Shuts(e)} \cup (IF wire[Peer(e)] \in {<<>>, <<Fin>>} THEN {} ELSE {<<Reset>>}) :
          wire' = [wire EXCEPT ![e] = left, ![Peer(e)] = <<>>]
    /\ UNCHANGED <<sentClose, received, passed, sends, got>>

EndCode(e) == IF received[e] # 0 THEN received[e] ELSE Abnormal

Terminate(e) == Finish(e, Abnormal) /\ faulted' = TRUE

\* The close timeout, for which an end waits once it is closing.
Timeout(e) ==
    /\ state[e] = "closing" /\ ~passed[e]
    /\ faulted' = TRUE
    /\ passed' = Set(passed, e, TRUE) /\ rd' = Set(rd, e, "flush")
    /\ UNCHANGED <<state, sentClose, received, queue, wire, fin, sends, got, reported>>

(***************************************************************************)
(* The writer.                                                             *)
(***************************************************************************)
Put(e, item) ==
    IF state[Peer(e)] # "closed" THEN wire' = Set(wire, e, Append(wire[e], item))
    ELSE \/ UNCHANGED wire
         \/ item # Fin /\ wire' = Set(wire, Peer(e), <<Reset>>)

Write(e) ==
    /\ queue[e] # <<>>
    /\ Put(e, Head(queue[e]))
    /\ queue' = Set(queue, e, Tail(queue[e]))
    /\ fin' = Set(fin, e, fin[e] \/ Head(queue[e]) = Fin)
    /\ UNCHANGED <<state, sentClose, received, passed, rd, sends, got, reported>>

\* A write to a connection that the peer reset.
WriteFails(e) == queue[e] # <<>> /\ wire[Peer(e)] = <<Reset>> /\ Finish(e, EndCode(e))

(***************************************************************************)
(* The reader: once the peer's close is there, the rest is discarded.      *)
(***************************************************************************)
Arrives(e) == rd[e] = "read" /\ wire[Peer(e)] # <<>>
Takes(e) == wire' = Set(wire, Peer(e), Tail(wire[Peer(e)]))

ReadMessage(e) ==
    /\ Arrives(e) /\ Takes(e)
    /\ Head(wire[Peer(e)]) = Data \/ (IsClose(Head(wire[Peer(e)])) /\ received[e] # 0)
    /\ got' = Set(got, e, got[e] + (IF received[e] = 0 THEN 1 ELSE 0))
    /\ UNCHANGED <<state, sentClose, received, passed, queue, fin, rd, sends, reported>>

\* closing(): answer once, and on the server shut the sending direction behind it.
Answer(e, code) == IF sentClose[e] = 0 THEN <<code>> ELSE <<>>
ShutAfter_None(e) == <<>>
ShutAfter(e) == IF e = "server" THEN <<Fin>> ELSE <<>>

ReadClose(e) ==
    LET code == Head(wire[Peer(e)]) IN
    /\ Arrives(e) /\ IsClose(code) /\ received[e] = 0 /\ Takes(e)
    /\ received' = Set(received, e, code)
    /\ state' = Set(state, e, "closing")
    /\ sentClose' = Set(sentClose, e, IF sentClose[e] = 0 THEN code ELSE sentClose[e])
    /\ queue' = Set(queue, e, Pushed(e, Answer(e, code) \o ShutAfter(e)))
    /\ UNCHANGED <<passed, fin, rd, sends, got, reported>>

ReadEnd(e) ==
    /\ Arrives(e) /\ Head(wire[Peer(e)]) \in {Fin, Reset} /\ Takes(e)
    /\ rd' = Set(rd, e, "flush")
    /\ UNCHANGED <<state, sentClose, received, passed, queue, fin, sends, got, reported>>

\* flush_close(), then end().
Flushed(e) == received[e] = 0 \/ queue[e] = <<>> \/ passed[e]
FlushClose(e) == rd[e] = "flush" /\ Flushed(e) /\ Finish(e, EndCode(e))

Task(e) == Write(e) \/ WriteFails(e) \/ ReadMessage(e) \/ ReadClose(e) \/ ReadEnd(e) \/ FlushClose(e)
Call(e) == Send(e) \/ Close(e)
Next == \E e \in Ends : \/ (Call(e) \/ Task(e)) /\ UNCHANGED faulted
                        \/ Terminate(e) \/ Timeout(e)

\* Both tasks are polled and the network delivers; nobody has to call close(), and
\* no timeout has to pass.
Spec == Init /\ [][Next]_vars
Reads(e) == ReadMessage(e) \/ ReadClose(e) \/ ReadEnd(e)
LiveSpec ==
    /\ Spec
    /\ \A e \in Ends : WF_endVars(Write(e)) /\ WF_endVars(Reads(e)) /\ WF_endVars(FlushClose(e))

(***************************************************************************)
(* Correctness.                                                            *)
(***************************************************************************)


\* The closing handshake needs no timeout, whoever starts it and whatever crosses it
\* or cuts it off: once one end closes, both report it.
HandshakeCompletes ==
    \A e \in Ends : state[e] = "closing" ~> \A x \in Ends : state[x] = "closed"

=============================================================================
