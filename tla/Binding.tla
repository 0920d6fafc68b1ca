------------------------------ MODULE Binding ------------------------------
(***************************************************************************)
(* The Lua binding: one Lua state, its event loop and tables of sockets    *)
(* and servers, the native registry between Lua and the core, and the hub  *)
(* whose queue joins them.  Lua is one thread; the network acts at any     *)
(* time.  Connections are what module Connection says of them, upgrade     *)
(* requests what module Admission says.                                    *)
(***************************************************************************)
EXTENDS Integers, Sequences, FiniteSets

CONSTANTS
    Clients,    \* ids that ws.connect() will get
    Peers,      \* ids of connections a server accepts; also their tokens
    Servers,    \* ids that ws.listen() will get
    ServerOf,   \* the server each peer connects to
    MaxQueue    \* bound on queued events, for network traffic

Ids == Clients \cup Peers
NoEvent == [kind |-> "none", id |-> 0]

ASSUME BindingAssumption ==
    /\ ServerOf \in [Peers -> Servers] /\ MaxQueue \in Nat
    /\ Clients \cap Peers = {} /\ Servers \cap Ids = {}

VARIABLES
    native,    \* what core says of each connection
    upgrade,   \* how far core is with each peer's request
    queue,     \* the hub's queue
    conns,     \* Registry.conns
    owners,    \* the keys of Registry.owners
    listening, \* Registry.servers
    replies,   \* Registry.replies
    sockets,   \* loop.sockets
    opened,    \* sockets with _opened
    servers,   \* loop.servers
    lua,       \* what Lua is doing
    current    \* the event it handles

coreVars == <<native, upgrade, queue>>
registryVars == <<conns, owners, listening, replies>>
tableVars == <<sockets, opened, servers>>
vars == <<coreVars, registryVars, tableVars, lua, current>>

Event(kind, id) == [kind |-> kind, id |-> id]
Alive(id) == native[id] \in {"connecting", "open", "closing"}

Init ==
    /\ native = [id \in Ids |-> "none"] /\ upgrade = [p \in Peers |-> "away"]
    /\ queue = <<>> /\ conns = {} /\ owners = {} /\ listening = {} /\ replies = {}
    /\ sockets = {} /\ opened = {} /\ servers = {}
    /\ lua = "main" /\ current = NoEvent

(***************************************************************************)
(* The network threads.                                                    *)
(***************************************************************************)
Queues(events) == queue' = queue \o events
Becomes(id, state) == native' = [native EXCEPT ![id] = state]
Upgrades(p, from, to) == upgrade[p] = from /\ upgrade' = [upgrade EXCEPT ![p] = to]
Network == lua # "gone" /\ UNCHANGED <<registryVars, tableVars, lua, current>>

NetOpen(id) ==
    /\ id \in Clients /\ native[id] = "connecting"
    /\ Becomes(id, "open") /\ Queues(<<Event("open", id)>>)
    /\ Network /\ UNCHANGED upgrade

Traffic(id) ==
    /\ native[id] \in {"open", "closing"} /\ Len(queue) < MaxQueue
    /\ Queues(<<Event("message", id)>>)
    /\ Network /\ UNCHANGED <<native, upgrade>>

PeerCloses(id) ==
    /\ native[id] = "open"
    /\ Becomes(id, "closing")
    /\ Network /\ UNCHANGED <<queue, upgrade>>

\* The connection ends, with an error event first or without.
NetEnds(id, errors) ==
    /\ Alive(id)
    /\ Becomes(id, "closed")
    /\ Queues(errors \o <<Event("close", id)>>)
    /\ Network /\ UNCHANGED upgrade

Request(p) ==
    /\ ServerOf[p] \in listening
    /\ Upgrades(p, "away", "asked") /\ Queues(<<Event("request", p)>>)
    /\ Network /\ UNCHANGED native

\* The handshake deadline passes before the decision.
Expires(p) == Upgrades(p, "asked", "over") /\ Network /\ UNCHANGED <<native, queue>>

\* serve() looks at the stop signal once more, and then sends the event.
Accepted(p) ==
    /\ Upgrades(p, "accepted", IF ServerOf[p] \in listening THEN "opening" ELSE "over")
    /\ Network /\ UNCHANGED <<native, queue>>

Connection(p) ==
    /\ Upgrades(p, "opening", "over")
    /\ Becomes(p, "open") /\ Queues(<<Event("connection", p)>>)
    /\ Network

(***************************************************************************)
(* What the application may call: before and after run(), and in a         *)
(* callback of it.                                                         *)
(***************************************************************************)
UserCode == lua \in {"main", "done", "callback", "deciding"}
User == UserCode /\ UNCHANGED <<lua, current>>

\* ws_connect, then Socket.new.
Connect(id) ==
    /\ User /\ id \in Clients /\ native[id] = "none"
    /\ Becomes(id, "connecting")
    /\ conns' = conns \cup {id} /\ owners' = owners \cup {id}
    /\ sockets' = sockets \cup {id}
    /\ UNCHANGED <<upgrade, queue, listening, replies, opened, servers>>

Listen(s) ==
    /\ User /\ s \notin servers
    /\ \A p \in Peers : ServerOf[p] = s => upgrade[p] = "away"
    /\ listening' = listening \cup {s} /\ owners' = owners \cup {s}
    /\ servers' = servers \cup {s}
    /\ UNCHANGED <<coreVars, conns, replies, sockets, opened>>

\* Conn::close and Conn::terminate, of the connections in ids.
Closed(ids) ==
    [id \in Ids |-> IF id \notin ids THEN native[id]
                    ELSE CASE native[id] = "open" -> "closing"
                           [] native[id] = "connecting" -> "closed"
                           [] OTHER -> native[id]]

\* Socket:close().  An id that left the registry is left alone.
Close(id) ==
    /\ User /\ id \in conns
    /\ native' = Closed({id})
    /\ IF native[id] = "connecting"
       THEN Queues(<<Event("error", id), Event("close", id)>>) ELSE UNCHANGED queue
    /\ UNCHANGED <<upgrade, registryVars, tableVars>>

Terminate(id) ==
    /\ User /\ id \in conns /\ Alive(id)
    /\ Becomes(id, "closed") /\ Queues(<<Event("close", id)>>)
    /\ UNCHANGED <<upgrade, registryVars, tableVars>>

\* Server:close(): ws_unlisten, and 1001 for the sockets it knows.
ServerClose(s) ==
    /\ User /\ s \in servers
    /\ servers' = servers \ {s}
    /\ listening' = listening \ {s} /\ owners' = owners \ {s}
    /\ native' = Closed({p \in Peers \cap sockets : ServerOf[p] = s})
    /\ UNCHANGED <<upgrade, queue, conns, replies, sockets, opened>>

(***************************************************************************)
(* The loop: core.wait() takes an event and flattens it under the registry *)
(* lock, and its handler runs.                                             *)
(***************************************************************************)
Active == sockets # {} \/ servers # {}

Run ==
    /\ lua \in {"main", "done"}
    /\ lua' = IF Active THEN "loop" ELSE "done"
    /\ UNCHANGED <<coreVars, registryVars, tableVars, current>>

\* run() looks whether anything is left; poll() returns anyway.
Returns ==
    /\ lua = "loop"
    /\ lua' = IF Active THEN "main" ELSE "done"
    /\ UNCHANGED <<coreVars, registryVars, tableVars, current>>

Takes(kind) ==
    /\ lua = "loop" /\ queue # <<>> /\ Head(queue).kind = kind
    /\ queue' = Tail(queue) /\ current' = Head(queue)

Calls(id) == lua' = IF id \in sockets THEN "callback" ELSE "loop"

TakesOpen ==
    /\ Takes("open")
    /\ LET id == current'.id IN
       /\ opened' = IF id \in sockets THEN opened \cup {id} ELSE opened
       /\ Calls(id)
    /\ UNCHANGED <<native, upgrade, registryVars, sockets, servers>>

TakesMessage ==
    /\ Takes("message") /\ Calls(current'.id)
    /\ UNCHANGED <<native, upgrade, registryVars, tableVars>>

\* Without a listener, a client's error is raised from run().
TakesError(listener) ==
    /\ Takes("error")
    /\ IF ~listener /\ current'.id \in sockets \cap Clients THEN lua' = "main" ELSE Calls(current'.id)
    /\ UNCHANGED <<native, upgrade, registryVars, tableVars>>

Forgotten_Owned(id) == conns' = conns \ {id} /\ UNCHANGED owners
Forgotten(id) == conns' = conns \ {id} /\ owners' = owners \ {id}

Removed_Accepted(id) == IF id \in Clients THEN sockets ELSE sockets \ {id}
Removed(id) == sockets \ {id}

TakesClose ==
    /\ Takes("close")
    /\ LET id == current'.id IN
       /\ Forgotten(id) /\ Calls(id)
       /\ sockets' = Removed(id)
    /\ UNCHANGED <<native, upgrade, listening, replies, opened, servers>>

\* The handlers answer 503 and close with 1001 for a server that was closed.
Reply(p, decision) ==
    /\ replies' = replies \ {p}
    /\ upgrade' = IF upgrade[p] = "asked" THEN [upgrade EXCEPT ![p] = decision] ELSE upgrade

TakesRequest ==
    /\ Takes("request")
    /\ LET p == current'.id IN
       IF ServerOf[p] \in servers
       THEN lua' = "deciding" /\ replies' = replies \cup {p} /\ UNCHANGED upgrade
       ELSE lua' = "loop" /\ Reply(p, "over")
    /\ UNCHANGED <<native, conns, owners, listening, tableVars>>

\* Registry entries of an accepted connection; a new Socket counts as opened.
Registers_Wanted(p) ==
    IF ServerOf[p] \in servers THEN conns' = conns \cup {p} /\ owners' = owners \cup {p}
    ELSE UNCHANGED <<conns, owners>>
Registers(p) == conns' = conns \cup {p} /\ owners' = owners \cup {p}

NewSocket_Unopened(p) == sockets' = sockets \cup {p} /\ UNCHANGED opened
NewSocket(p) == sockets' = sockets \cup {p} /\ opened' = opened \cup {p}

TakesConnection ==
    /\ Takes("connection")
    /\ LET p == current'.id IN
       /\ Registers(p)
       /\ IF ServerOf[p] \in servers
          THEN NewSocket(p) /\ lua' = "callback" /\ UNCHANGED native
          ELSE native' = Closed({p}) /\ lua' = "loop" /\ UNCHANGED <<sockets, opened>>
    /\ UNCHANGED <<upgrade, listening, replies, servers>>

\* accept() returned true: the application may have closed the server in it.
Decision(p) == IF ServerOf[p] \in servers THEN "accepted" ELSE "over"

\* accept() returns true, returns false with a status, or raises; a bad status
\* is raised too.  Both errors leave run().
Answers_Returned(p, decision, raises) ==
    IF raises THEN UNCHANGED <<replies, upgrade>> ELSE Reply(p, decision)
Answers(p, decision, raises) == Reply(p, decision)

Decides(accepts, raises) ==
    /\ lua = "deciding"
    /\ Answers(current.id, IF accepts THEN Decision(current.id) ELSE "over", raises)
    /\ lua' = IF raises THEN "main" ELSE "loop"
    /\ UNCHANGED <<native, queue, conns, owners, listening, tableVars, current>>

CallbackReturns(raises) ==
    /\ lua = "callback"
    /\ lua' = IF raises THEN "main" ELSE "loop"
    /\ UNCHANGED <<coreVars, registryVars, tableVars, current>>

\* The Lua state closes: ws_shutdown ends what the hub owns and drops it.
Shutdown ==
    /\ lua \in {"main", "done"}
    /\ lua' = "gone"
    /\ native' = [id \in Ids |-> IF native[id] = "none" THEN "none" ELSE "closed"]
    /\ upgrade' = [p \in Peers |-> "over"] /\ queue' = <<>>
    /\ conns' = conns \ owners /\ listening' = listening \ owners
    /\ owners' = {} /\ replies' = {}
    /\ UNCHANGED <<tableVars, current>>

Net ==
    \/ \E id \in Ids : NetOpen(id) \/ Traffic(id) \/ PeerCloses(id)
    \/ \E id \in Ids : \E errors \in {<<>>, <<Event("error", id)>>} : NetEnds(id, errors)
    \/ \E p \in Peers : Request(p) \/ Expires(p) \/ Accepted(p) \/ Connection(p)
App ==
    \/ \E id \in Ids : Connect(id) \/ Close(id) \/ Terminate(id)
    \/ \E s \in Servers : Listen(s) \/ ServerClose(s)
    \/ Run \/ Shutdown
Handle ==
    \/ TakesOpen \/ TakesMessage \/ TakesClose \/ TakesRequest \/ TakesConnection
    \/ \E listener \in BOOLEAN : TakesError(listener)
Return ==
    \/ \E raises \in BOOLEAN : CallbackReturns(raises)
    \/ Decides(TRUE, FALSE) \/ \E raises \in BOOLEAN : Decides(FALSE, raises)

Next == Net \/ App \/ Handle \/ Return \/ Returns

Spec == Init /\ [][Next]_vars

\* Lua runs: a callback returns and the loop takes what is queued.
LiveSpec == Spec /\ WF_vars(Handle) /\ WF_vars(Return) /\ WF_vars(~Active /\ Returns)

InQueue(kind, id) == \E i \in 1..Len(queue) : queue[i] = Event(kind, id)

(* The registry is exactly what it was asked to keep: an owner entry for   *)
(* each connection and server, and no connection after its close event was *)
(* taken.  So ws_shutdown finds everything, and entries do not pile up in  *)
(* a process that opens and closes connections forever.                    *)
RegistryExact ==
    /\ owners = conns \cup listening
    /\ \A id \in conns : native[id] = "closed" => InQueue("close", id)

(* "Inbound data counts as consumed once it is handed over" (event.rs):    *)
(* each queued message will find its connection in the registry, so the    *)
(* reader's credit for it always comes back.                               *)
InboundKnown ==
    \A i \in 1..Len(queue) : queue[i].kind = "message" =>
        \/ queue[i].id \in conns
        \/ \E j \in 1..(i - 1) : queue[j] = Event("connection", queue[i].id)

(* Every upgrade request the loop takes is answered before the handler is  *)
(* left, also when accept() raises, closes the server or returns nonsense. *)
RequestsAnswered == replies = IF lua = "deciding" THEN {current.id} ELSE {}

\* The state of a socket as Lua reads it.
State(id) ==
    CASE id \notin sockets -> "closed"
      [] id \notin conns \/ native[id] = "closed" -> "closing"
      [] native[id] = "open" /\ id \notin opened -> "connecting"
      [] OTHER -> native[id]

(* "this one follows the events delivered so far, as in browsers"          *)
(* (socket.lua): a listener of open, connection or message finds the       *)
(* socket open, or closing when the network is ahead; a close listener     *)
(* finds it closed.                                                        *)
ListenersSeeState ==
    lua = "callback" =>
        CASE current.kind \in {"open", "connection", "message"} ->
                 State(current.id) \in {"open", "closing"}
          [] current.kind = "error" -> State(current.id) # "closed"
          [] OTHER -> State(current.id) = "closed"

(* "Runs until no sockets, servers or timers remain" (loop.lua): once all  *)
(* servers are closed and all connections have ended, run() returns; no    *)
(* stale entry keeps it waiting for an event that does not come.           *)
Quiet == servers = {} /\ \A id \in Ids : ~Alive(id)
RunEnds == <>[]Quiet => []<>(lua \in {"main", "done", "gone"})

(* README.md: Server:close() shall "Stop the server and close its          *)
(* connections", and run() shall "Run until all clients, servers and       *)
(* timers are closed": when run() has returned no accepted connection is   *)
(* still open.                                                             *)
RunLeavesNoneOpen == lua = "done" => \A p \in Peers : native[p] # "open"

=============================================================================
