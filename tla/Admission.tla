------------------------------ MODULE Admission ------------------------------
(***************************************************************************)
(* How a server admits connections: the accept loop, one serve() worker    *)
(* per accepted socket, the upgrade decision of the application, and the   *)
(* events that carry admission slots through the hub's queue.  A slot is   *)
(* an Arc<Permit>: it is taken while any of its owners lives (the worker,  *)
(* the Events handle inside the Link, every queued envelope), so the two   *)
(* counters are derived here from the owners.  A connection that is up is  *)
(* what module Connection says of it: traffic and then one close event.    *)
(***************************************************************************)
EXTENDS Integers, Sequences, FiniteSets

CONSTANTS
    Peers,           \* sockets the listener will accept, each once
    Closers,         \* threads that call Server::close or drop the Server
    MaxConnections,  \* Options.max_connections
    MaxPending,      \* MAX_PENDING
    MaxTraffic       \* bound on undelivered traffic events of a connection

ASSUME AdmissionAssumption ==
    /\ IsFiniteSet(Peers)
    /\ {MaxConnections, MaxPending} \subseteq Nat \ {0}
    /\ MaxTraffic \in Nat

VARIABLES
    stop,       \* Shared.stop
    hub,        \* "up", or where Hub::drop is: "draining", "dropping", "gone"
    acceptor,   \* the accept loop: "top", "polled" (nothing stopped it) or "gone"
    stage,      \* where serve() is, per peer
    admission,  \* peers whose Events handle still owns the connection slot
    reply,      \* the decision of each peer's request
    queue,      \* the hub's queue of envelopes
    closing     \* where each closer is in Server::close

hubUp == hub = "up"  \* Events::closed is not set
workVars == <<stage, admission, reply, queue>>
vars == <<stop, hub, acceptor, workVars, closing>>

Stages == {"away", "head", "decide", "switch", "reject", "accepted", "opening", "run",
           "ended", "over"}
Handshake == {"head", "decide", "switch", "reject"}
Kinds == {"request", "connection", "traffic", "close"}
Queued(kind, p, slot, pending) ==
    [kind |-> kind, peer |-> p, slot |-> slot, pending |-> pending]

Init ==
    /\ stop = FALSE /\ hub = "up" /\ acceptor = "top"
    /\ stage = [p \in Peers |-> "away"] /\ reply = [p \in Peers |-> "none"]
    /\ admission = {} /\ queue = <<>>
    /\ closing = [c \in Closers |-> "idle"]

(***************************************************************************)
(* Permits.  serve() owns the connection slot until it returns and the     *)
(* pending slot until the handshake's result was looked at.                *)
(***************************************************************************)
Envelopes == {queue[i] : i \in 1..Len(queue)}
HoldsSlot(p) ==
    \/ stage[p] \notin {"away", "over"} \/ p \in admission
    \/ \E env \in Envelopes : env.peer = p /\ env.slot
HoldsPending(p) ==
    \/ stage[p] \in Handshake \cup {"accepted"}
    \/ \E env \in Envelopes : env.peer = p /\ env.pending
Connections == Cardinality({p \in Peers : HoldsSlot(p)})
Pending == Cardinality({p \in Peers : HoldsPending(p)})

\* Permit::acquire
Acquire_Inclusive(count, limit) == count <= limit
Acquire(count, limit) == count < limit

\* The slot an envelope takes along: the close event takes it away from the
\* Events handle, every other event gets a clone.
AfterSend_KeepsSlot(kind, p) == admission
AfterSend(kind, p) == IF kind = "close" THEN admission \ {p} ELSE admission

EnvelopeSlot(kind, p) == p \in admission

RequestPending(kind) == kind = "request"

\* Events::send_pending looks at closed and then sends: what it sends lands, or
\* is refused.  A send that looked before Hub::drop may land until the receiver
\* is gone.
Outcomes == IF hubUp THEN {TRUE} ELSE IF hub = "gone" THEN {FALSE} ELSE BOOLEAN
SendPending(kind, p, lands) ==
    /\ admission' = AfterSend(kind, p)
    /\ queue' = IF lands
                THEN Append(queue, Queued(kind, p, EnvelopeSlot(kind, p), RequestPending(kind)))
                ELSE queue

At(p, next) == stage' = [stage EXCEPT ![p] = next]
\* serve() returns: its own slots go, and the Events handle if no Link has it.
Over(p) == At(p, "over") /\ admission' = admission \ {p}

(***************************************************************************)
(* The accept loop.  Its select looks at stop and at the hub first; either *)
(* may be set right after that.                                            *)
(***************************************************************************)
Poll ==
    /\ acceptor = "top" /\ ~stop /\ hubUp
    /\ acceptor' = "polled"
    /\ UNCHANGED <<stop, hub, workVars, closing>>

\* A failed accept() sleeps and tries again.
AcceptFails ==
    /\ acceptor = "polled"
    /\ acceptor' = "top"
    /\ UNCHANGED <<stop, hub, workVars, closing>>

\* Without both permits the socket is dropped, and so is a first permit.
Accept(p) ==
    /\ acceptor = "polled" /\ stage[p] = "away"
    /\ acceptor' = "top"
    /\ IF Acquire(Connections, MaxConnections) /\ Acquire(Pending, MaxPending)
       THEN At(p, "head") /\ admission' = admission \cup {p}
       ELSE At(p, "over") /\ UNCHANGED admission
    /\ UNCHANGED <<stop, hub, reply, queue, closing>>

AcceptEnds ==
    /\ acceptor # "gone" /\ (stop \/ ~hubUp)
    /\ acceptor' = "gone"
    /\ UNCHANGED <<stop, hub, workVars, closing>>

(***************************************************************************)
(* serve(): the handshake under its deadline, and what becomes of it.      *)
(***************************************************************************)
\* The select of serve() drops the handshake future at whatever it awaits.
ServeStops(p) ==
    /\ stage[p] \in Handshake /\ (stop \/ ~hubUp)
    /\ Over(p)
    /\ UNCHANGED <<stop, hub, acceptor, reply, queue, closing>>

\* The TLS handshake, the request head or writing the 101 failed, or a
\* rejected request got its response (or its second passed).
HandshakeFails(p) ==
    /\ stage[p] \in {"head", "switch", "reject"}
    /\ Over(p)
    /\ UNCHANGED <<stop, hub, acceptor, reply, queue, closing>>

\* The head was too large, too late or not an upgrade request.
HeadRejected(p) ==
    /\ stage[p] = "head"
    /\ At(p, "reject")
    /\ UNCHANGED <<stop, hub, acceptor, admission, reply, queue, closing>>

\* The application is asked; a refused event drops the request.
Ask(p) ==
    /\ stage[p] = "head"
    /\ \E lands \in Outcomes :
          IF lands
          THEN /\ SendPending("request", p, TRUE)
               /\ At(p, "decide")
               /\ reply' = [reply EXCEPT ![p] = "queued"]
          ELSE Over(p) /\ UNCHANGED <<reply, queue>>
    /\ UNCHANGED <<stop, hub, acceptor, closing>>

\* An acceptance may name a protocol that was not offered; everything but an
\* acceptance, and a late one, is a rejection.
Decided_Waits(p) == IF reply[p] = "accept" THEN {"switch"}
                    ELSE IF reply[p] \in {"reject", "dropped"} THEN {"reject"} ELSE {}
Decided(p) == IF reply[p] = "accept" THEN {"switch", "reject"} ELSE {"reject"}

Decide(p) ==
    /\ stage[p] = "decide"
    /\ \E next \in Decided(p) : At(p, next)
    /\ UNCHANGED <<stop, hub, acceptor, admission, reply, queue, closing>>

Switch(p) ==
    /\ stage[p] = "switch"
    /\ At(p, "accepted")
    /\ UNCHANGED <<stop, hub, acceptor, admission, reply, queue, closing>>

\* The last look at stop and the hub; after it the pending slot is dropped.
Check(p) ==
    /\ stage[p] = "accepted"
    /\ IF stop \/ ~hubUp THEN Over(p) ELSE At(p, "opening") /\ UNCHANGED admission
    /\ UNCHANGED <<stop, hub, acceptor, reply, queue, closing>>

\* Link::start and Link::emit look at closed again after sending, and terminate
\* the link when it is set: the close event then only gives its slot back.
Emit(p, kind) ==
    /\ \E lands \in Outcomes :
          queue' = IF lands THEN Append(queue, Queued(kind, p, EnvelopeSlot(kind, p), FALSE))
                            ELSE queue
    /\ admission' = IF hubUp THEN AfterSend(kind, p) ELSE AfterSend("close", p)
    /\ At(p, IF hubUp THEN "run" ELSE "ended")

Open(p) ==
    /\ stage[p] = "opening"
    /\ Emit(p, "connection")
    /\ UNCHANGED <<stop, hub, acceptor, reply, closing>>

Waiting(p, kind) == {i \in 1..Len(queue) : queue[i].peer = p /\ queue[i].kind = kind}

Traffic(p) ==
    /\ stage[p] = "run"
    /\ Cardinality(Waiting(p, "traffic")) < MaxTraffic
    /\ Emit(p, "traffic")
    /\ UNCHANGED <<stop, hub, acceptor, reply, closing>>

\* Link::finish, by the task or by an application thread.
Finish(p) ==
    /\ stage[p] = "run"
    /\ \E lands \in Outcomes : SendPending("close", p, lands)
    /\ At(p, "ended")
    /\ UNCHANGED <<stop, hub, acceptor, reply, closing>>

\* The worker returns; the application may keep the Conn, and its Events.
WorkerEnds(p) ==
    /\ stage[p] = "ended"
    /\ At(p, "over")
    /\ UNCHANGED <<stop, hub, acceptor, admission, reply, queue, closing>>

Serve(p) ==
    \/ ServeStops(p) \/ HandshakeFails(p) \/ HeadRejected(p) \/ Ask(p) \/ Decide(p)
    \/ Switch(p) \/ Check(p) \/ Open(p) \/ WorkerEnds(p)

(***************************************************************************)
(* The application.                                                        *)
(***************************************************************************)
\* Hub::recv drops the envelope, and with it the slots it owns.
Recv ==
    /\ hubUp /\ queue # <<>>
    /\ queue' = Tail(queue)
    /\ reply' = IF Head(queue).kind = "request"
                THEN [reply EXCEPT ![Head(queue).peer] = "held"] ELSE reply
    /\ UNCHANGED <<stop, hub, acceptor, stage, admission, closing>>

\* ReplySender::send answers once; a sender may be dropped instead.
Answer(p, decision) ==
    /\ reply[p] = "held"
    /\ reply' = [reply EXCEPT ![p] = decision]
    /\ UNCHANGED <<stop, hub, acceptor, stage, admission, queue, closing>>

HubClose ==
    /\ hubUp
    /\ hub' = "draining"
    /\ UNCHANGED <<stop, acceptor, workVars, closing>>

\* Hub::drop takes one envelope; a connection nobody received is terminated,
\* and the sender of a request's reply is dropped with the event.
HubDrain ==
    /\ hub = "draining" /\ queue # <<>>
    /\ LET env == Head(queue)
           ends == env.kind = "connection" /\ stage[env.peer] = "run"
       IN /\ stage' = IF ends THEN [stage EXCEPT ![env.peer] = "ended"] ELSE stage
          /\ admission' = IF ends THEN AfterSend("close", env.peer) ELSE admission
          /\ reply' = IF env.kind = "request"
                      THEN [reply EXCEPT ![env.peer] = "dropped"] ELSE reply
    /\ queue' = Tail(queue)
    /\ UNCHANGED <<stop, hub, acceptor, closing>>

HubDrained ==
    /\ hub = "draining" /\ queue = <<>>
    /\ hub' = "dropping"
    /\ UNCHANGED <<stop, acceptor, workVars, closing>>

\* Dropping the receiver discards what landed after the last try_recv.
HubGone ==
    /\ hub = "dropping"
    /\ hub' = "gone"
    /\ queue' = <<>>
    /\ reply' = [p \in Peers |-> IF Waiting(p, "request") # {} THEN "dropped" ELSE reply[p]]
    /\ UNCHANGED <<stop, acceptor, stage, admission, closing>>

\* Server::close: the first caller waits for the accept loop, for a second.
Close(c) ==
    /\ closing[c] = "idle"
    /\ stop' = TRUE
    /\ closing' = [closing EXCEPT ![c] = IF stop THEN "back" ELSE "waiting"]
    /\ UNCHANGED <<hub, acceptor, workVars>>

\* The accept loop has let go of the listener, or the second it gets is over.
CloseReturns(c) ==
    /\ closing[c] = "waiting"
    /\ closing' = [closing EXCEPT ![c] = "back"]
    /\ UNCHANGED <<stop, hub, acceptor, workVars>>

Next ==
    \/ Poll \/ AcceptFails \/ AcceptEnds
    \/ \E p \in Peers : Accept(p) \/ Serve(p) \/ Traffic(p) \/ Finish(p)
    \/ \E p \in Peers, decision \in {"accept", "reject", "dropped"} : Answer(p, decision)
    \/ Recv \/ HubClose \/ HubDrain \/ HubDrained \/ HubGone
    \/ \E c \in Closers : Close(c) \/ CloseReturns(c)

Spec == Init /\ [][Next]_vars

(***************************************************************************)
(* Fairness: workers are polled and their deadlines pass, Hub::drop goes   *)
(* on, a link whose hub is gone ends (HubDropEnds of module Link), and the *)
(* application keeps receiving.  It need not answer, nor close anything.   *)
(***************************************************************************)
Fairness ==
    /\ WF_vars(Recv) /\ WF_vars(HubDrain) /\ WF_vars(HubDrained) /\ WF_vars(HubGone)
    /\ WF_vars(AcceptEnds)
    /\ \A p \in Peers : WF_vars(Serve(p)) /\ WF_vars(~hubUp /\ Finish(p))
    /\ \A c \in Closers : WF_vars(CloseReturns(c))

LiveSpec == Spec /\ Fairness

-----------------------------------------------------------------------------
\* The values each variable takes.
TypeOK ==
    /\ stop \in BOOLEAN /\ hub \in {"up", "draining", "dropping", "gone"}
    /\ acceptor \in {"top", "polled", "gone"}
    /\ stage \in [Peers -> Stages]
    /\ admission \subseteq Peers
    /\ reply \in [Peers -> {"none", "queued", "held", "accept", "reject", "dropped"}]
    /\ queue \in Seq([kind : Kinds, peer : Peers, slot : BOOLEAN, pending : BOOLEAN])
    /\ closing \in [Closers -> {"idle", "waiting", "back"}]

(* limits.connections and MAX_PENDING bound the slots in use, whoever owns *)
(* them.                                                                   *)
AdmissionBounded == Connections <= MaxConnections /\ Pending <= MaxPending

(* An application that does not receive piles up events of at most         *)
(* max_connections connections: the close event of a connection that ended *)
(* keeps its slot taken until it is received (Events::send_pending).       *)
UndeliveredBounded == Cardinality({env.peer : env \in Envelopes}) <= MaxConnections

(* "A request retains its handshake slot even if its worker times out"     *)
(* (queue.rs): at most MAX_PENDING requests wait to be received.           *)
RequestsBounded ==
    Cardinality({env.peer : env \in {e \in Envelopes : e.kind = "request"}}) <= MaxPending

(* A connection that ended and whose events were all delivered holds no    *)
(* slot, even when the application keeps its Conn forever.                 *)
RetainedConnFrees ==
    \A p \in Peers : stage[p] = "over" /\ (\A env \in Envelopes : env.peer # p)
        => ~HoldsSlot(p) /\ ~HoldsPending(p)

(* A handshake does not keep its pending slot: deadlines end it, and the   *)
(* application or Hub::drop takes its request from the queue.              *)
PendingFrees == \A p \in Peers : HoldsPending(p) ~> ~HoldsPending(p)

(* Dropping the hub gives every slot back.                                 *)
HubDropFrees == ~hubUp ~> Connections = 0

=============================================================================
