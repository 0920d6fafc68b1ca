-------------------------------- MODULE Link --------------------------------
(***************************************************************************)
(* One WebSocket connection after its transport exists or is being made:   *)
(* core/src/net/link.  Application threads call it through a Conn; one     *)
(* runtime task polls its reader and its writer future, which therefore    *)
(* interleave with each other only at awaits but with the application at   *)
(* every lock.  A step below is what one thread does while it holds flags  *)
(* (with queue nested in it), or queue alone, or one atomic.               *)
(***************************************************************************)
EXTENDS Connection

CONSTANTS
    Apps,        \* application threads
    Task,        \* the connection's runtime task
    Lens,        \* encoded lengths of application frames, in units (below)
    Buffer,      \* Config.buffer, in units
    PongLimit,   \* PONG_LIMIT, in units
    InboxLimit,  \* INBOX_LIMIT, in undelivered inbound events
    Chunks,      \* what one read may complete: sequences of messages
    ChunkMax,    \* the longest of them
    Heartbeat,   \* whether heartbeats are configured
    Tls,         \* whether the transport is TLS
    Faults,      \* which disturbances the environment causes
    MaxSends,    \* bound on accepted or refused send calls
    MaxReads     \* bound on successful reads, the handshake's leftover included

\* Decoded messages: an application pong and the answer to our heartbeat, a
\* close with status 1000 and one without, and a protocol violation.
Msgs == {"text", "ping", "pong", "ours", "close", "empty", "bad"}

ASSUME LinkAssumption ==
    /\ Task \notin Apps
    /\ Lens \subseteq Nat \ {0}
    /\ {Buffer, PongLimit, InboxLimit} \subseteq Nat \ {0}
    /\ {ChunkMax, MaxSends, MaxReads} \subseteq Nat
    /\ \A chunk \in Chunks : chunk \in Seq(Msgs) /\ Len(chunk) <= ChunkMax
    /\ Heartbeat \in BOOLEAN /\ Tls \in BOOLEAN
    \* terminate() calls, a dropped hub, a dropped task, failing I/O
    /\ Faults \subseteq {"terminate", "hub", "task", "io"}

VARIABLES
    server,     \* Link.server
    \* Flags, under the flags lock; state is declared in Connection.
    sentClose, received, failed,
    deadline,   \* "none", "set" or "passed"
    \* Queue, under the queue lock, and the atomic it guards.
    items, done, shutdown, drain, pong, buffered,
    inbox,      \* undelivered inbound events charged to the connection
    permits,    \* the Notify objects holding a stored permit
    stopped,    \* the Signal set by finish()
    tcp,        \* Link.io: "none" before it is set, "up", "down"
    \* The task: its stage, the reader's and the writer's position and locals.
    task, rd, ok, last, rbuf, armed, probe, wr, held,
    \* What left through the socket: our close frame, our FIN, the newest pong.
    outClose, outShut, outPong,
    \* Callers: position in send, close or Hub::drop, and the refused length.
    call, want,
    fin,        \* per thread: what is left of a running fail() or finish()
    conn,       \* the application holds the Conn
    pings, sends, reads

closeVars == <<sentClose, received, failed, deadline>>
queueVars == <<items, done, shutdown, drain, pong, buffered>>
ioVars == <<stopped, tcp>>
parseVars == <<ok, last, rbuf, pings, reads>>
readVars == <<rd, armed, probe, parseVars>>
outVars == <<outClose, outShut, outPong>>
writeVars == <<wr, held, outVars>>
taskVars == <<task, readVars, writeVars>>
callVars == <<call, want, conn, sends>>
vars == <<server, connVars, closeVars, queueVars, inbox, permits, ioVars,
          taskVars, callVars, fin>>

Procs == Apps \cup {Task}
Calls == {"idle", "full", "notify", "drop"}
Stages == {"-", "error", "finish", "stop", "signal", "shut"}
NoCode == 0
Violation == 1002

(***************************************************************************)
(* Outbound bytes.  A unit is what one successful socket write transfers:  *)
(* an application frame is as many units as it takes writes, its last one  *)
(* named "data"; every control frame is one unit.  Item::Shutdown is a     *)
(* unit that carries no bytes.                                             *)
(***************************************************************************)
Unit(op, tag) == [op |-> op, tag |-> tag]
Units == [op : {"part", "data", "hb", "pong", "close", "shutdown"}, tag : Nat]
DataFrame(n) == [i \in 1..n |-> Unit(IF i = n THEN "data" ELSE "part", 0)]
CloseFrame == <<Unit("close", 0)>>

Init ==
    /\ ConnInit
    /\ server \in BOOLEAN
    /\ sentClose = FALSE /\ received = NoCode /\ failed = NoCode /\ deadline = "none"
    /\ items = <<>> /\ done = FALSE /\ shutdown = FALSE
    /\ drain = 0 /\ pong = 0 /\ buffered = 0
    /\ inbox = 0 /\ permits = {} /\ stopped = FALSE /\ tcp = "none"
    /\ task = "establish" /\ rd = "off" /\ ok = TRUE /\ last = FALSE /\ rbuf = <<>>
    /\ armed = "none" /\ probe = "none" /\ wr = "off" /\ held = <<>>
    /\ outClose = FALSE /\ outShut = FALSE /\ outPong = 0
    /\ call = [a \in Apps |-> "idle"] /\ want = [a \in Apps |-> 0]
    /\ fin = [p \in Procs |-> "-"]
    /\ conn = ~server
    /\ pings = 0 /\ sends = 0 /\ reads = 0

(***************************************************************************)
(* Who may step.  send() keeps flags between its two looks at the buffer.  *)
(* The task runs one future at a time, and a future that is not at an      *)
(* await (or at a cooperative yield: "top", "swap") runs on.               *)
(***************************************************************************)
FlagsFree_Released == TRUE
FlagsFree == \A a \in Apps : call[a] # "full"
TaskFree == fin[Task] = "-"
ReaderParked == rd \in {"off", "top", "inbox", "net", "flushing", "done"}
WriterParked == wr \in {"off", "swap", "idle", "write", "done"}
ReaderTurn == task = "run" /\ TaskFree /\ WriterParked
WriterTurn == task = "run" /\ TaskFree /\ ReaderParked
Idle(a) == call[a] = "idle" /\ fin[a] = "-"

(***************************************************************************)
(* Shared helpers.                                                         *)
(***************************************************************************)
\* Events::closed and Events::wait_closed
HubGone == ~hubUp

\* Link::fits
Fits(len) == buffered = 0 \/ buffered + len <= Buffer

\* push_frame and enqueue do nothing before io is set or after stop_writer.
CanPush == tcp # "none" /\ ~done
WakeWriter_Silent == {}
WakeWriter == IF CanPush THEN {"ready"} ELSE {}

\* Queue frames and then, if shut, Item::Shutdown; the caller holds flags.
Enqueue_Uncounted(frames, shut) ==
    /\ items' = IF CanPush THEN items \o frames ELSE items
    /\ UNCHANGED <<buffered, shutdown>>
Enqueue(frames, shut) ==
    /\ items' = IF CanPush THEN items \o frames \o
                    (IF shut THEN <<Unit("shutdown", 0)>> ELSE <<>>) ELSE items
    /\ buffered' = IF CanPush THEN buffered + Len(frames) ELSE buffered
    /\ shutdown' = (shutdown \/ (CanPush /\ shut))

\* finish() up to the unlock of flags: the state and the close event.
Finish(p, code) ==
    IF state = "closed"
    THEN /\ fin' = [fin EXCEPT ![p] = "-"]
         /\ UNCHANGED <<state, events>>
    ELSE /\ state' = "closed"
         /\ events' = Sent(CloseEvent(code))
         /\ fin' = [fin EXCEPT ![p] = "stop"]

\* emit() under flags; a refused event terminates the connection.
Emit(p, kind) ==
    IF state # "closed" /\ hubUp
    THEN /\ events' = Append(events, Event(kind))
         /\ UNCHANGED <<state, fin>>
    ELSE Finish(p, Abnormal)

\* end(): the peer's status, ours after a violation, or 1006.
EndCode_Normal == IF received # NoCode THEN received
                  ELSE IF failed # NoCode THEN failed ELSE 1000
EndCode == IF received # NoCode THEN received
           ELSE IF failed # NoCode THEN failed ELSE Abnormal

\* deadline.get_or_insert
ArmDeadline == deadline' = IF deadline = "none" THEN "set" ELSE deadline

(***************************************************************************)
(* fail() and finish() outside flags, by any thread.                       *)
(***************************************************************************)
FailEmit(p) ==
    /\ fin[p] = "error" /\ FlagsFree
    /\ IF state # "closed" /\ hubUp
       THEN /\ events' = Append(events, Event("error"))
            /\ fin' = [fin EXCEPT ![p] = "finish"]
            /\ UNCHANGED state
       ELSE Finish(p, Abnormal)
    /\ UNCHANGED <<server, hubUp, closeVars, queueVars, inbox, permits, ioVars,
                   taskVars, callVars>>

FailFinish(p) ==
    /\ fin[p] = "finish" /\ FlagsFree
    /\ Finish(p, Abnormal)
    /\ UNCHANGED <<server, hubUp, closeVars, queueVars, inbox, permits, ioVars,
                   taskVars, callVars>>

\* stop_writer leaves buffered alone: the writer may still hold a batch.
StopWriter(p) ==
    /\ fin[p] = "stop"
    /\ done' = TRUE /\ items' = <<>> /\ pong' = 0 /\ shutdown' = FALSE
    /\ permits' = permits \cup {"ready"}
    /\ fin' = [fin EXCEPT ![p] = "signal"]
    /\ UNCHANGED <<server, connVars, closeVars, drain, buffered, inbox, ioVars,
                   taskVars, callVars>>

SignalStop(p) ==
    /\ fin[p] = "signal"
    /\ stopped' = TRUE
    /\ permits' = permits \cup {"drained"}
    /\ fin' = [fin EXCEPT ![p] = "shut"]
    /\ UNCHANGED <<server, connVars, closeVars, queueVars, inbox, tcp, taskVars,
                   callVars>>

ShutIo(p) ==
    /\ fin[p] = "shut"
    /\ tcp' = IF tcp = "up" THEN "down" ELSE tcp
    /\ fin' = [fin EXCEPT ![p] = "-"]
    /\ UNCHANGED <<server, connVars, closeVars, queueVars, inbox, permits, stopped,
                   taskVars, callVars>>

Ending(p) == FailEmit(p) \/ FailFinish(p) \/ StopWriter(p) \/ SignalStop(p) \/ ShutIo(p)

(***************************************************************************)
(* The application: Conn::send, close, terminate, Hub::recv and Hub::drop. *)
(* A send refused because the connection is not open changes nothing.      *)
(***************************************************************************)
Send(a, len) ==
    /\ Idle(a) /\ conn /\ FlagsFree /\ sends < MaxSends
    /\ state = "open" /\ ~sentClose
    /\ sends' = sends + 1
    /\ IF Fits(len)
       THEN /\ Enqueue(DataFrame(len), FALSE)
            /\ permits' = permits \cup WakeWriter
            /\ UNCHANGED <<call, want>>
       ELSE /\ call' = [call EXCEPT ![a] = "full"]
            /\ want' = [want EXCEPT ![a] = len]
            /\ UNCHANGED <<items, buffered, shutdown, permits>>
    /\ UNCHANGED <<server, connVars, closeVars, done, drain, pong, inbox, ioVars,
                   taskVars, conn, fin>>

Recheck_Skipped(len) == FALSE

\* The second look, under the queue lock that progress() takes too.
Recheck(len) == Fits(len)

SendFull(a) ==
    /\ call[a] = "full"
    /\ IF Recheck(want[a])
       THEN /\ Enqueue(DataFrame(want[a]), FALSE)
            /\ permits' = permits \cup WakeWriter
            /\ UNCHANGED drain
       ELSE /\ drain' = want[a]
            /\ UNCHANGED <<items, buffered, shutdown, permits>>
    /\ call' = [call EXCEPT ![a] = "idle"]
    /\ want' = [want EXCEPT ![a] = 0]
    /\ UNCHANGED <<server, connVars, closeVars, done, pong, inbox, ioVars, taskVars,
                   conn, sends, fin>>

\* close() of an open connection.
CloseOpen(a) ==
    /\ Idle(a) /\ conn /\ FlagsFree
    /\ state = "open"
    /\ sentClose' = TRUE /\ state' = "closing" /\ deadline' = "set"
    /\ Enqueue(CloseFrame, FALSE)
    /\ permits' = permits \cup WakeWriter \cup {"changed"}
    /\ UNCHANGED <<server, events, hubUp, received, failed, done, drain, pong, inbox,
                   ioVars, taskVars, callVars, fin>>

\* close() before the connection is open lets go of flags and then fails it.
CloseConnecting(a) ==
    /\ Idle(a) /\ conn /\ FlagsFree
    /\ state = "connecting"
    /\ fin' = [fin EXCEPT ![a] = "error"]
    /\ call' = [call EXCEPT ![a] = "notify"]
    /\ UNCHANGED <<server, connVars, closeVars, queueVars, inbox, permits, ioVars,
                   taskVars, want, conn, sends>>

\* The end of close(), also of one that found nothing to close.
CloseNotify(a) ==
    /\ fin[a] = "-"
    /\ \/ call[a] = "notify"
       \/ call[a] = "idle" /\ conn /\ FlagsFree /\ state \in {"closing", "closed"}
    /\ permits' = permits \cup {"changed"}
    /\ call' = [call EXCEPT ![a] = "idle"]
    /\ UNCHANGED <<server, connVars, closeVars, queueVars, inbox, ioVars, taskVars,
                   want, conn, sends, fin>>

Terminate(a) ==
    /\ "terminate" \in Faults /\ Idle(a) /\ conn /\ FlagsFree
    /\ state # "closed"
    /\ Finish(a, Abnormal)
    /\ UNCHANGED <<server, hubUp, closeVars, queueVars, inbox, permits, ioVars,
                   taskVars, callVars>>

\* Hub::recv, and Conn::consumed for an inbound event.
Recv(a) ==
    /\ Idle(a) /\ hubUp /\ events # <<>>
    /\ events' = Tail(events)
    /\ conn' = (conn \/ Head(events).kind = "open")
    /\ IF Head(events).kind \in Inbound
       THEN inbox' = inbox - 1 /\ permits' = permits \cup {"consumed"}
       ELSE UNCHANGED <<inbox, permits>>
    /\ UNCHANGED <<server, state, hubUp, closeVars, queueVars, ioVars, taskVars, call,
                   want, sends, fin>>

HubClose(a) ==
    /\ "hub" \in Faults /\ Idle(a) /\ hubUp
    /\ hubUp' = FALSE
    /\ call' = [call EXCEPT ![a] = "drop"]
    /\ UNCHANGED <<server, state, events, closeVars, queueVars, inbox, permits, ioVars,
                   taskVars, want, conn, sends, fin>>

\* Hub::drop empties the queue and terminates an accepted connection in it.
HubDrain(a) ==
    /\ call[a] = "drop" /\ FlagsFree
    /\ events' = <<>>
    /\ call' = [call EXCEPT ![a] = "idle"]
    /\ IF server /\ state # "closed" /\ \E i \in 1..Len(events) : events[i].kind = "open"
       THEN state' = "closed" /\ fin' = [fin EXCEPT ![a] = "stop"]
       ELSE UNCHANGED <<state, fin>>
    /\ UNCHANGED <<server, hubUp, closeVars, queueVars, inbox, permits, ioVars,
                   taskVars, want, conn, sends>>

App(a) ==
    \/ \E len \in Lens : Send(a, len)
    \/ SendFull(a) \/ CloseOpen(a) \/ CloseConnecting(a) \/ CloseNotify(a)
    \/ Terminate(a) \/ Recv(a) \/ HubClose(a) \/ HubDrain(a)

(***************************************************************************)
(* The task before its loops: Hub::connect's task for a client, the end of *)
(* serve() for a server, whose Link is created once the handshake is over. *)
(***************************************************************************)
Established ==
    /\ task = "establish" /\ TaskFree
    /\ tcp' = "up"
    /\ task' = "start"
    /\ UNCHANGED <<server, connVars, closeVars, queueVars, inbox, permits, stopped,
                   readVars, writeVars, callVars, fin>>

\* The other arms of the client's select: stopped, hub closed, error or timeout.
EstablishEnds ==
    /\ task = "establish" /\ TaskFree /\ ~server
    /\ task' = "over"
    /\ \/ stopped /\ UNCHANGED <<state, events, fin>>
       \/ HubGone /\ FlagsFree /\ Finish(Task, Abnormal)
       \/ fin' = [fin EXCEPT ![Task] = "error"] /\ UNCHANGED <<state, events>>
    /\ UNCHANGED <<server, hubUp, closeVars, queueVars, inbox, permits, ioVars,
                   readVars, writeVars, callVars>>

StartLate_KeepsSocket ==
    /\ task = "start" /\ TaskFree /\ FlagsFree
    /\ state # "connecting"
    /\ task' = "over"
    /\ UNCHANGED <<server, connVars, closeVars, queueVars, inbox, permits, ioVars,
                   readVars, writeVars, callVars, fin>>

\* start() finds the connection closed already and drops the socket itself.
StartLate ==
    /\ task = "start" /\ TaskFree /\ FlagsFree
    /\ state # "connecting"
    /\ tcp' = "down"
    /\ task' = "over"
    /\ UNCHANGED <<server, connVars, closeVars, queueVars, inbox, permits, stopped,
                   readVars, writeVars, callVars, fin>>

\* start(): open, and run the loops unless the open event was refused.
Start(rest) ==
    /\ task = "start" /\ TaskFree /\ FlagsFree
    /\ state = "connecting"
    /\ IF rest = <<>> THEN UNCHANGED reads ELSE reads < MaxReads /\ reads' = reads + 1
    /\ state' = "open"
    /\ events' = Sent(Event("open"))
    /\ IF hubUp
       THEN task' = "run" /\ rd' = "top" /\ wr' = "swap" /\ rbuf' = rest /\ UNCHANGED fin
       ELSE /\ task' = "over" /\ fin' = [fin EXCEPT ![Task] = "finish"]
            /\ UNCHANGED <<rd, wr, rbuf>>
    /\ UNCHANGED <<server, hubUp, closeVars, queueVars, inbox, permits, ioVars, ok,
                   last, pings, armed, probe, held, outVars, callVars>>

\* A future that ended drops its locals: read_loop, and write_pending's batch.
ReaderGone ==
    /\ rd' = "done" /\ armed' = "none" /\ probe' = "none"
    /\ ok' = FALSE /\ last' = TRUE /\ rbuf' = <<>>
WriterGone == wr' = "done" /\ held' = <<>>

\* Both loops returned, or the task was dropped at an await: Lease::drop.
TaskEnd ==
    /\ task = "run" /\ TaskFree /\ FlagsFree
    /\ \/ rd = "done" /\ wr = "done"
       \/ "task" \in Faults /\ ReaderParked /\ WriterParked
    /\ task' = "over"
    /\ ReaderGone /\ WriterGone
    /\ Finish(Task, Abnormal)
    /\ UNCHANGED <<server, hubUp, closeVars, queueVars, inbox, permits, ioVars,
                   pings, reads, outVars, callVars>>

DeadlinePasses ==
    /\ deadline = "set"
    /\ deadline' = "passed"
    /\ UNCHANGED <<server, connVars, sentClose, received, failed, queueVars, inbox,
                   permits, ioVars, taskVars, callVars, fin>>

(***************************************************************************)
(* read_loop.  last is TRUE once the loop was left.  dispatch() of an      *)
(* empty buffer changes nothing and is skipped.                            *)
(***************************************************************************)
Leave ==
    /\ rd' = IF ok /\ rbuf # <<>> THEN "dispatch" ELSE "flush"
    /\ last' = TRUE
    /\ armed' = "none"

Resume == rd' = "top" /\ armed' = "none" /\ UNCHANGED last

ReadTop ==
    /\ rd = "top" /\ ReaderTurn
    /\ IF ~HubGone
       THEN /\ rd' = IF ok /\ rbuf # <<>> THEN "dispatch" ELSE "check"
            /\ UNCHANGED <<last, armed, state, events, fin>>
       ELSE FlagsFree /\ Finish(Task, Abnormal) /\ Leave
    /\ UNCHANGED <<server, hubUp, closeVars, queueVars, inbox, permits, ioVars, task,
                   probe, ok, rbuf, pings, reads, writeVars, callVars>>

AfterDispatch == IF last THEN "flush" ELSE "check"

\* One turn of dispatch(): what is left unparsed after the last is never used.
Handling == rd = "dispatch" /\ ReaderTurn /\ FlagsFree
Handled(closing) ==
    LET stop == closing \/ state' = "closed" IN
    /\ rbuf' = IF stop THEN <<>> ELSE Tail(rbuf)
    /\ ok' = (ok /\ ~stop)
    /\ rd' = IF rbuf' = <<>> THEN AfterDispatch ELSE "dispatch"
    /\ UNCHANGED <<last, reads, armed, probe>>

\* deliver()
Overfull == inbox >= InboxLimit /\ state # "open"
Deliver(kind) ==
    IF Overfull
    THEN UNCHANGED <<inbox, state, events, fin>>
    ELSE inbox' = inbox + 1 /\ Emit(Task, kind)

HandleText ==
    /\ Handling /\ Head(rbuf) = "text"
    /\ IF received # NoCode THEN UNCHANGED <<inbox, state, events, fin>>
                            ELSE Deliver("message")
    /\ Handled(FALSE)
    /\ UNCHANGED <<server, hubUp, closeVars, queueVars, permits, ioVars, task, pings,
                   writeVars, callVars>>

MayPong == state # "closed" /\ received = NoCode /\ failed = NoCode

AnswerPing_KeepsDeferred(n) ==
    IF buffered < PongLimit
    THEN /\ Enqueue(<<Unit("pong", n)>>, FALSE)
         /\ permits' = permits \cup WakeWriter
         /\ UNCHANGED pong
    ELSE /\ pong' = n
         /\ UNCHANGED <<items, buffered, shutdown, permits>>

\* Answer at once, superseding a deferred pong, or defer the newest one.
AnswerPing(n) ==
    IF buffered < PongLimit
    THEN /\ pong' = 0
         /\ Enqueue(<<Unit("pong", n)>>, FALSE)
         /\ permits' = permits \cup WakeWriter
    ELSE /\ pong' = n
         /\ permits' = permits \cup {"ready"}
         /\ UNCHANGED <<items, buffered, shutdown>>

HandlePing ==
    /\ Handling /\ Head(rbuf) = "ping"
    /\ pings' = pings + 1
    /\ IF MayPong THEN AnswerPing(pings + 1)
                  ELSE UNCHANGED <<pong, items, buffered, shutdown, permits>>
    /\ Deliver("ping")
    /\ Handled(FALSE)
    /\ UNCHANGED <<server, hubUp, closeVars, done, drain, ioVars, task, writeVars,
                   callVars>>

HandlePong ==
    /\ Handling /\ Head(rbuf) \in {"pong", "ours"}
    /\ IF Head(rbuf) = "ours" THEN UNCHANGED <<inbox, state, events, fin>>
                              ELSE Deliver("pong")
    /\ Handled(FALSE)
    /\ UNCHANGED <<server, hubUp, closeVars, queueVars, permits, ioVars, task, pings,
                   writeVars, callVars>>

\* closing(): echo unless our close frame is out; a server shuts TCP down first.
Reply == IF sentClose THEN <<>> ELSE CloseFrame

HandleClose ==
    /\ Handling /\ Head(rbuf) \in {"close", "empty"}
    /\ IF state = "closed" \/ received # NoCode
       THEN UNCHANGED <<state, closeVars, queueVars, permits>>
       ELSE /\ received' = IF Head(rbuf) = "close" THEN 1000 ELSE 1005
            /\ state' = "closing"
            /\ ArmDeadline
            /\ sentClose' = TRUE
            /\ Enqueue(Reply, server)
            /\ pong' = IF server /\ CanPush THEN 0 ELSE pong
            /\ permits' = permits \cup
                   (IF Reply # <<>> \/ server THEN WakeWriter ELSE {})
            /\ UNCHANGED <<failed, done, drain>>
    /\ Handled(TRUE)
    /\ UNCHANGED <<server, events, hubUp, inbox, ioVars, task, pings, writeVars,
                   callVars, fin>>

\* violation(): the error event, and then the close frame and the shutdown.
HandleBad ==
    /\ Handling /\ Head(rbuf) = "bad"
    /\ Emit(Task, "error")
    /\ rd' = "violation"
    /\ UNCHANGED <<server, hubUp, closeVars, queueVars, inbox, permits, ioVars, task,
                   armed, probe, parseVars, writeVars, callVars>>

Violate ==
    /\ rd = "violation" /\ ReaderTurn /\ FlagsFree
    /\ IF state = "closed"
       THEN UNCHANGED <<state, closeVars, queueVars, permits>>
       ELSE /\ failed' = Violation
            /\ state' = "closing"
            /\ ArmDeadline
            /\ sentClose' = TRUE
            /\ Enqueue(Reply, TRUE)
            /\ pong' = IF CanPush THEN 0 ELSE pong
            /\ permits' = permits \cup WakeWriter
            /\ UNCHANGED <<received, done, drain>>
    /\ Handled(TRUE)
    /\ UNCHANGED <<server, events, hubUp, inbox, ioVars, task, pings, writeVars,
                   callVars, fin>>

\* wait_inbox(): an open connection whose inbox is full stops reading.
Throttled_Closing == inbox >= InboxLimit
Throttled == state = "open" /\ inbox >= InboxLimit

Check ==
    /\ rd = "check" /\ ReaderTurn /\ FlagsFree
    /\ IF state = "closed" \/ deadline = "passed" THEN Leave
       ELSE /\ rd' = IF Throttled THEN "inbox" ELSE "net"
            /\ armed' = IF Throttled THEN "none"
                        ELSE IF deadline = "set" THEN "deadline"
                        ELSE IF Heartbeat THEN "heartbeat" ELSE "none"
            /\ UNCHANGED last
    /\ UNCHANGED <<server, connVars, closeVars, queueVars, inbox, permits, ioVars,
                   task, probe, ok, rbuf, pings, reads, writeVars, callVars, fin>>

(***************************************************************************)
(* The reader's selects.  They are biased, but another thread can set what *)
(* an earlier arm waits for right after it was polled, so any arm that is  *)
(* ready may be taken.                                                     *)
(***************************************************************************)
Waiting == rd \in {"inbox", "net"} /\ ReaderTurn

WakeStopped ==
    /\ Waiting
    /\ \/ stopped /\ UNCHANGED <<state, events, fin>>
       \/ HubGone /\ FlagsFree /\ Finish(Task, Abnormal)
    /\ Leave
    /\ UNCHANGED <<server, hubUp, closeVars, queueVars, inbox, permits, ioVars, task,
                   probe, ok, rbuf, pings, reads, writeVars, callVars>>

WakeNotified(permit) ==
    /\ Waiting
    /\ permit = "consumed" => rd = "inbox"
    /\ permit \in permits
    /\ permits' = permits \ {permit}
    /\ Resume
    /\ UNCHANGED <<server, connVars, closeVars, queueVars, inbox, ioVars, task, probe,
                   ok, rbuf, pings, reads, writeVars, callVars, fin>>

\* After dispatch() returned false, what is read is discarded.
ReadChunk(chunk) ==
    /\ Waiting /\ rd = "net" /\ reads < MaxReads
    /\ reads' = reads + 1
    /\ rbuf' = IF ok THEN rbuf \o chunk ELSE rbuf
    /\ Resume
    /\ UNCHANGED <<server, connVars, closeVars, queueVars, inbox, permits, ioVars,
                   task, probe, ok, pings, writeVars, callVars, fin>>

\* End of stream or an I/O error; a TLS error fails the connection.
ReadEnds ==
    /\ Waiting /\ rd = "net"
    /\ \/ UNCHANGED fin
       \/ Tls /\ "io" \in Faults /\ fin' = [fin EXCEPT ![Task] = "error"]
    /\ Leave
    /\ UNCHANGED <<server, connVars, closeVars, queueVars, inbox, permits, ioVars,
                   task, probe, ok, rbuf, pings, reads, writeVars, callVars>>

TimerDeadline ==
    /\ Waiting /\ rd = "net" /\ armed = "deadline"
    /\ deadline = "passed"
    /\ Resume
    /\ UNCHANGED <<server, connVars, closeVars, queueVars, inbox, permits, ioVars,
                   task, probe, ok, rbuf, pings, reads, writeVars, callVars, fin>>

\* A new ping follows one that was sent, never one still in the queue.
MayBeat_Again == state = "open"
MayBeat == state = "open" /\ probe # "queued"

\* heartbeat(): what the clock decides (module Heartbeat) is left open here.
\* A ping in the queue can only stall; one sent may be unanswered or answered.
TimerHeartbeat ==
    /\ Waiting /\ rd = "net" /\ armed = "heartbeat" /\ FlagsFree
    /\ \/ Resume /\ UNCHANGED fin
       \/ /\ MayBeat
          /\ rd' = "beat" /\ armed' = "none"
          /\ UNCHANGED <<last, fin>>
       \/ /\ state = "open" /\ probe # "none"
          /\ fin' = [fin EXCEPT ![Task] = "error"]
          /\ Leave
    /\ UNCHANGED <<server, connVars, closeVars, queueVars, inbox, permits, ioVars,
                   task, probe, ok, rbuf, pings, reads, writeVars, callVars>>

\* Action::Ping looks at the state again, under flags.
StillOpen == state = "open"

Beat ==
    /\ rd = "beat" /\ ReaderTurn /\ FlagsFree
    /\ IF StillOpen
       THEN /\ Enqueue(<<Unit("hb", 0)>>, FALSE)
            /\ permits' = permits \cup WakeWriter
            /\ probe' = "queued"
       ELSE UNCHANGED <<items, buffered, shutdown, permits, probe>>
    /\ Resume
    /\ UNCHANGED <<server, connVars, closeVars, done, drain, pong, inbox, ioVars, task,
                   ok, rbuf, pings, reads, writeVars, callVars, fin>>

\* flush_close(): only after the peer's close frame or a violation, which set
\* the deadline too and which no other thread writes.
Pending_BytesOnly == ~done /\ buffered > 0
Pending == ~done /\ (buffered > 0 \/ shutdown)

Flush ==
    /\ rd = "flush" /\ ReaderTurn /\ FlagsFree
    /\ rd' = IF (received # NoCode \/ failed # NoCode) /\ deadline # "none" /\ Pending
             THEN "flushing" ELSE "end"
    /\ UNCHANGED <<server, connVars, closeVars, queueVars, inbox, permits, ioVars,
                   task, armed, probe, parseVars, writeVars, callVars, fin>>

FlushWake ==
    /\ rd = "flushing" /\ ReaderTurn
    /\ \/ (stopped \/ deadline = "passed") /\ rd' = "end" /\ UNCHANGED permits
       \/ "drained" \in permits /\ permits' = permits \ {"drained"} /\ rd' = "flush"
    /\ UNCHANGED <<server, connVars, closeVars, queueVars, inbox, ioVars, task, armed,
                   probe, parseVars, writeVars, callVars, fin>>

\* end(); nothing but the task writes received and failed.
ReadDone ==
    /\ rd = "end" /\ ReaderTurn /\ FlagsFree
    /\ Finish(Task, EndCode)
    /\ ReaderGone
    /\ UNCHANGED <<server, hubUp, closeVars, queueVars, inbox, permits, ioVars, task,
                   pings, reads, writeVars, callVars>>

ReaderRuns ==
    \/ ReadTop \/ HandleText \/ HandlePing \/ HandlePong \/ HandleClose
    \/ HandleBad \/ Violate \/ Check \/ Beat \/ Flush \/ ReadDone

ReaderWakes ==
    \/ WakeStopped \/ TimerDeadline \/ FlushWake
    \/ \E permit \in {"changed", "consumed"} : WakeNotified(permit)

Reader ==
    \/ ReaderRuns \/ ReaderWakes \/ ReadEnds \/ TimerHeartbeat
    \/ \E chunk \in Chunks : ReadChunk(chunk)

(***************************************************************************)
(* write_loop and write_pending.  held is the batch swapped out of items.  *)
(***************************************************************************)
Batch == IF held' = <<>> THEN "swap" ELSE "write"

Swap ==
    /\ wr = "swap" /\ WriterTurn
    /\ IF done
       THEN WriterGone /\ UNCHANGED items
       ELSE /\ held' = items /\ items' = <<>>
            /\ wr' = IF pong # 0 THEN "pong"
                     ELSE IF items = <<>> THEN "idle" ELSE "write"
    /\ UNCHANGED <<server, connVars, closeVars, done, shutdown, drain, pong, buffered,
                   inbox, permits, ioVars, task, readVars, outVars, callVars, fin>>

WakeReady ==
    /\ wr = "idle" /\ WriterTurn
    /\ "ready" \in permits
    /\ permits' = permits \ {"ready"}
    /\ wr' = "swap"
    /\ UNCHANGED <<server, connVars, closeVars, queueVars, inbox, ioVars, task,
                   readVars, held, outVars, callVars, fin>>

\* The TLS transport asks for a flush after reading made it owe bytes.
TlsFlush ==
    /\ wr = "idle" /\ WriterTurn /\ Tls
    /\ wr' = "swap"
    /\ UNCHANGED <<server, connVars, closeVars, queueVars, inbox, permits, ioVars,
                   task, readVars, held, outVars, callVars, fin>>

FlushPong ==
    /\ wr = "pong" /\ WriterTurn /\ FlagsFree
    /\ pong' = 0
    /\ IF MayPong /\ pong # 0
       THEN /\ Enqueue(<<Unit("pong", pong)>>, FALSE)
            /\ permits' = permits \cup WakeWriter
       ELSE UNCHANGED <<items, buffered, shutdown, permits>>
    /\ UNCHANGED held
    /\ wr' = Batch
    /\ UNCHANGED <<server, connVars, closeVars, done, drain, inbox, ioVars, task,
                   readVars, outVars, callVars, fin>>

\* progress(): whether the refused send would fit what is left.
Room(left) == drain # 0 /\ (left = 0 \/ left + drain <= Buffer)

WriteUnit ==
    /\ wr = "write" /\ WriterTurn /\ tcp = "up"
    /\ Head(held).op # "shutdown"
    /\ held' = Tail(held)
    /\ outClose' = (outClose \/ Head(held).op = "close")
    /\ outPong' = IF Head(held).op = "pong" THEN Head(held).tag ELSE outPong
    /\ buffered' = buffered - 1
    /\ drain' = IF Room(buffered - 1) THEN 0 ELSE drain
    /\ wr' = IF Room(buffered - 1) THEN "drain" ELSE Batch
    /\ probe' = IF Head(held).op = "hb" THEN "sent" ELSE probe
    /\ permits' = permits \cup {"drained"} \cup
           (IF Head(held).op = "hb" THEN {"changed"} ELSE {})
    /\ UNCHANGED <<server, connVars, closeVars, items, done, shutdown, pong, inbox,
                   ioVars, task, rd, armed, parseVars, outShut, callVars, fin>>

EmitDrain ==
    /\ wr = "drain" /\ WriterTurn /\ FlagsFree
    /\ Emit(Task, "drain")
    /\ UNCHANGED held
    /\ wr' = Batch
    /\ UNCHANGED <<server, hubUp, closeVars, queueVars, inbox, permits, ioVars, task,
                   readVars, outVars, callVars>>

WriteShutdown ==
    /\ wr = "write" /\ WriterTurn /\ tcp = "up"
    /\ Head(held).op = "shutdown"
    /\ held' = Tail(held)
    /\ outShut' = TRUE
    /\ shutdown' = FALSE
    /\ permits' = permits \cup {"drained"}
    /\ wr' = Batch
    /\ UNCHANGED <<server, connVars, closeVars, items, done, drain, pong, buffered,
                   inbox, ioVars, task, readVars, outClose, outPong, callVars, fin>>

\* A write, flush or shutdown failed.
WriteFails ==
    /\ wr = "write" \/ (Tls /\ wr = "idle")
    /\ "io" \in Faults /\ WriterTurn /\ FlagsFree
    /\ Finish(Task, EndCode)
    /\ WriterGone
    /\ UNCHANGED <<server, hubUp, closeVars, queueVars, inbox, permits, ioVars, task,
                   readVars, outVars, callVars>>

\* The outer select of write_loop drops write_pending at whatever it awaits.
WriterStops ==
    /\ wr \in {"swap", "idle", "write"} /\ WriterTurn
    /\ \/ stopped /\ UNCHANGED <<state, events, fin>>
       \/ HubGone /\ FlagsFree /\ Finish(Task, Abnormal)
    /\ WriterGone
    /\ UNCHANGED <<server, hubUp, closeVars, queueVars, inbox, permits, ioVars, task,
                   readVars, outVars, callVars>>

WriterRuns == Swap \/ WakeReady \/ FlushPong \/ EmitDrain \/ WriterStops
WriterNet == TlsFlush \/ WriteUnit \/ WriteShutdown \/ WriteFails
Writer == WriterRuns \/ WriterNet

Next ==
    \/ \E a \in Apps : App(a)
    \/ \E p \in Procs : Ending(p)
    \/ Established \/ EstablishEnds \/ StartLate \/ TaskEnd \/ DeadlinePasses
    \/ \E rest \in Chunks \cup {<<>>} : Start(rest)
    \/ Reader \/ Writer

Spec == Init /\ [][Next]_vars

(***************************************************************************)
(* Fairness: the task is polled whenever it can go on, a thread inside the *)
(* library finishes its call, and the close timeout passes.  Nothing is    *)
(* assumed of the network, of heartbeats or of what the application calls. *)
(***************************************************************************)
Fairness ==
    /\ \A p \in Procs : WF_vars(Ending(p))
    /\ \A a \in Apps : WF_vars(SendFull(a)) /\ WF_vars(HubDrain(a))
    /\ WF_vars(EstablishEnds) /\ WF_vars(StartLate) /\ WF_vars(server /\ Established)
    /\ WF_vars(\E rest \in Chunks \cup {<<>>} : Start(rest))
    /\ WF_vars(rd = "done" /\ wr = "done" /\ TaskEnd)
    /\ WF_vars(DeadlinePasses)
    /\ WF_vars(ReaderRuns) /\ WF_vars(ReaderWakes) /\ WF_vars(WriterRuns)

LiveSpec == Spec /\ Fairness

-----------------------------------------------------------------------------
\* The values each variable takes, with the counts that must not underflow.
AppTypes ==
    /\ server \in BOOLEAN /\ hubUp \in BOOLEAN /\ conn \in BOOLEAN
    /\ state \in States /\ events \in Seq(Events)
    /\ call \in [Apps -> Calls] /\ want \in [Apps -> Nat] /\ sends \in Nat
    /\ fin \in [Procs -> Stages]
CloseTypes ==
    /\ sentClose \in BOOLEAN /\ deadline \in {"none", "set", "passed"}
    /\ received \in {NoCode, 1000, 1005} /\ failed \in {NoCode, Violation}
    /\ stopped \in BOOLEAN /\ tcp \in {"none", "up", "down"}
    /\ permits \subseteq {"ready", "consumed", "drained", "changed"}
    /\ inbox \in Int
QueueTypes ==
    /\ items \in Seq(Units) /\ held \in Seq(Units)
    /\ done \in BOOLEAN /\ shutdown \in BOOLEAN
    /\ drain \in Nat /\ pong \in Nat /\ buffered \in Nat
TaskTypes ==
    /\ task \in {"establish", "start", "run", "over"}
    /\ rd \in {"off", "top", "dispatch", "violation", "check", "inbox", "net", "beat",
               "flush", "flushing", "end", "done"}
    /\ ok \in BOOLEAN /\ last \in BOOLEAN /\ rbuf \in Seq(Msgs)
    /\ armed \in {"none", "deadline", "heartbeat"} /\ probe \in {"none", "queued", "sent"}
    /\ pings \in Nat /\ reads \in Nat
WriterTypes ==
    /\ wr \in {"off", "swap", "idle", "pong", "write", "drain", "done"}
    /\ outClose \in BOOLEAN /\ outShut \in BOOLEAN /\ outPong \in Nat
TypeOK == AppTypes /\ CloseTypes /\ QueueTypes /\ TaskTypes /\ WriterTypes

\* Everything queued for the socket, in the order it will be written.
Line == held \o items

(* Accounting: while the queue is live, buffered is exactly the bytes that *)
(* wait in it or in the writer's batch, and the shutdown flag says whether *)
(* a Shutdown item waits; so progress() cannot take more than is there.    *)
Bytes(units) ==
    IF units # <<>> /\ units[Len(units)].op = "shutdown" THEN Len(units) - 1 ELSE Len(units)
Accounting ==
    /\ ~done /\ wr # "done" =>
                /\ buffered = Bytes(Line)
                /\ shutdown <=> Len(Line) > Bytes(Line)
    /\ done => items = <<>> /\ buffered >= Bytes(held)

(* The closing handshake on the wire: our one close frame is the last      *)
(* frame but for pongs, a FIN is the very last thing, and while the queue  *)
(* is live a close frame was queued exactly when sent_close is set.        *)
CloseFrameIsLast ==
    /\ \A i, j \in 1..Len(Line) : i < j =>
        /\ Line[i].op # "shutdown"
        /\ Line[i].op = "close" => Line[j].op \in {"pong", "shutdown"}
    /\ outClose => \A i \in 1..Len(Line) : Line[i].op \in {"pong", "shutdown"}
    /\ outShut => Line = <<>>
    /\ ~done /\ wr # "done" => (sentClose <=> outClose \/ \E i \in 1..Len(Line) : Line[i].op = "close")

(* Pongs go out in the order of the pings they answer, each at most once:  *)
(* a deferred pong is never sent after a newer one.                        *)
PongsInOrder ==
    LET pongs == <<outPong>> \o
                 SelectSeq([i \in 1..Len(Line) |->
                               IF Line[i].op = "pong" THEN Line[i].tag ELSE 0],
                           LAMBDA tag : tag # 0) \o
                 (IF pong = 0 THEN <<>> ELSE <<pong>>)
    IN \A i, j \in 1..Len(pongs) : i < j => pongs[i] < pongs[j]

(* No missed drain: a refused send that would now fit is never left        *)
(* waiting for a Drain event that progress() did not send.                 *)
NoMissedDrain == drain # 0 /\ ~done => ~Fits(drain)

\* A thread is still to set stopped, so everything waiting will be woken.
StopComing == stopped \/ \E p \in Procs : fin[p] \in {"stop", "signal"}

(* No lost wakeup: a future parked on a Notify while its condition already *)
(* holds has a permit waiting, or the stop signal is set or coming.        *)
NoLostWakeup ==
    /\ wr = "idle" /\ (items # <<>> \/ pong # 0 \/ done) => "ready" \in permits
    /\ rd = "inbox" /\ inbox < InboxLimit => "consumed" \in permits
    /\ rd = "inbox" /\ state = "closing" => "changed" \in permits
    /\ rd = "net" /\ deadline # "none" => armed = "deadline" \/ "changed" \in permits
    /\ rd = "flushing" /\ ~Pending => "drained" \in permits \/ StopComing
    /\ state = "closed" => StopComing

(* The inbox never holds more than the events of one read past its limit,  *)
(* also while closing, when the reader no longer waits for the application.*)
InboxBounded == inbox <= InboxLimit - 1 + ChunkMax


(* No leaked socket: once closed, a socket that is still up is about to be *)
(* shut down, by a thread inside finish() or by start().                   *)
SocketReleased ==
    state = "closed" /\ tcp = "up" =>
        task = "start" \/ \E p \in Procs : fin[p] \in {"stop", "signal", "shut"}

(* One heartbeat at a time: a ping frame waits in the queue only while the *)
(* reader knows it as its unsent probe.                                    *)
OneProbe ==
    LET beats == {i \in 1..Len(Line) : Line[i].op = "hb"}
    IN /\ \A i, j \in beats : i = j
       /\ beats # {} /\ rd # "done" => probe = "queued"
       /\ probe = "queued" /\ ~done /\ wr # "done" => beats # {}

(* close() aborts only a connection that was not established: the error    *)
(* it reports, "connection closed before it was established", is true.     *)
AbortsOnlyPending ==
    \A a \in Apps : call[a] = "notify" /\ fin[a] = "error" => state # "open"

(* The peer's close frame and our own violation exclude each other, each   *)
(* starts the close timeout, and an open connection has none of them.      *)
ClosingIsArmed ==
    /\ received = NoCode \/ failed = NoCode
    /\ (received # NoCode \/ failed # NoCode \/ sentClose) => deadline # "none"
    /\ deadline # "none" => state \in {"closing", "closed"}

(* The close reply leaves first: a reader that ends the connection after   *)
(* the peer's close or a violation, in time, finds the close frame written *)
(* and, where one was queued, TCP shut down in our direction.              *)
FlushedBeforeEnd ==
    [][ReadDone /\ state # "closed" /\ EndCode # Abnormal /\ deadline = "set"
        => outClose /\ (server \/ failed # NoCode => outShut)]_vars

(* The connection implements the application's view of it.                 *)
ImplementsConnection == ConnSpec

(* Closing ends: once the close timeout is armed, the connection is closed *)
(* at once or the hub is dropped, in whatever state that finds it, the     *)
(* task returns and the socket is down.                                    *)
ClosingEnds ==
    deadline # "none" \/ state = "closed" \/ ~hubUp
        ~> state = "closed" /\ task = "over" /\ tcp # "up"

=============================================================================
