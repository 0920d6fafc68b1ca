----------------------------- MODULE LinkTypes -----------------------------
(*****************************************************************************)
(* Type correctness of Link, and where its closing handshake stands. The    *)
(* types of the reader's buffer need the second. First the frames of every  *)
(* proof about Link: what each thread's steps leave alone, and the few ways *)
(* in which the task touches the state, the events and its own stage of     *)
(* fail() or finish().                                                      *)
(*****************************************************************************)
EXTENDS Link, TLAPS

(* Who writes what: fail() and finish() outside flags leave the task, the  *)
(* callers and the inbox alone.                                            *)
LEMMA EndingFrame ==
    ASSUME NEW p, Ending(p)
    PROVE  UNCHANGED <<server, hubUp, closeVars, drain, buffered, inbox, taskVars, callVars>>
  BY DEF Ending, FailEmit, FailFinish, StopWriter, SignalStop, ShutIo, connVars, queueVars, ioVars

(* An application call never touches the task, the socket or the peer's    *)
(* side of the closing handshake.                                          *)
LEMMA AppFrame ==
    ASSUME NEW a, App(a)
    PROVE  UNCHANGED <<server, received, failed, done, ioVars, taskVars>>
  BY DEF App, Send, SendFull, CloseOpen, CloseConnecting, CloseNotify, Terminate, Recv, HubClose,
         HubDrain, closeVars, queueVars, connVars

(* The reader leaves the writer, the callers and the socket alone.         *)
LEMMA ReaderFrame ==
    ASSUME Reader
    PROVE  UNCHANGED <<server, hubUp, done, drain, ioVars, task, writeVars, callVars>>
<1>1. CASE ReaderRuns
  BY <1>1 DEF ReaderRuns, ReadTop, HandleText, HandlePing, HandlePong, HandleClose, HandleBad,
              Violate, Check, Beat, Flush, ReadDone, queueVars, connVars
<1>2. CASE ReaderWakes
  BY <1>2 DEF ReaderWakes, WakeStopped, TimerDeadline, FlushWake, WakeNotified, queueVars, connVars
<1>3. CASE ReadEnds \/ TimerHeartbeat \/ \E chunk \in Chunks : ReadChunk(chunk)
  BY <1>3 DEF ReadEnds, TimerHeartbeat, ReadChunk, queueVars, connVars
<1> QED
  BY <1>1, <1>2, <1>3 DEF Reader

(* The writer leaves the closing flags, the inbox and the reader's         *)
(* position alone.                                                         *)
LEMMA WriterFrame ==
    ASSUME Writer
    PROVE  UNCHANGED <<server, hubUp, closeVars, done, inbox, ioVars, task, rd, armed, parseVars, callVars>>
  BY DEF Writer, WriterRuns, WriterNet, Swap, WakeReady, FlushPong, EmitDrain, WriterStops,
         TlsFlush, WriteUnit, WriteShutdown, WriteFails, queueVars, connVars, readVars

(* Every way the task touches the state, the events or its own stage.      *)
Kinds == Inbound \cup {"error", "drain"}
Moves ==
    \/ UNCHANGED <<state, events, fin>>
    \/ FlagsFree /\ Finish(Task, Abnormal)
    \/ FlagsFree /\ Finish(Task, EndCode)
    \/ FlagsFree /\ \E kind \in Kinds : Emit(Task, kind)
    \/ fin' = [fin EXCEPT ![Task] = "error"] /\ UNCHANGED <<state, events>>
    \/ FlagsFree /\ state # "closed" /\ state' = "closing" /\ UNCHANGED <<events, fin>>

(* Every reader step is one of the task's moves.                           *)
LEMMA ReaderMoves ==
    ASSUME Reader
    PROVE  Moves /\ TaskFree /\ task = "run"
<1> USE DEF ReaderTurn
<1>1. CASE ReadTop \/ Check \/ Beat \/ Flush \/ ReadDone
  BY <1>1 DEF ReadTop, Check, Beat, Flush, ReadDone, connVars, Moves
<1>2. CASE HandleText
  BY <1>2 DEF HandleText, Handling, Deliver, Moves, Kinds, Inbound
<1>3. CASE HandlePing
  BY <1>3 DEF HandlePing, Handling, Deliver, Moves, Kinds, Inbound
<1>4. CASE HandlePong
  BY <1>4 DEF HandlePong, Handling, Deliver, Moves, Kinds, Inbound
<1>5. CASE HandleClose \/ HandleBad \/ Violate
  BY <1>5 DEF HandleClose, HandleBad, Violate, Handling, Moves, Kinds, Inbound
<1>6. CASE ReaderWakes
  BY <1>6 DEF ReaderWakes, WakeStopped, TimerDeadline, FlushWake, WakeNotified, Waiting, connVars, Moves
<1>7. CASE ReadEnds \/ TimerHeartbeat \/ \E chunk \in Chunks : ReadChunk(chunk)
  BY <1>7 DEF ReadEnds, TimerHeartbeat, ReadChunk, Waiting, connVars, Moves
<1> QED
  BY <1>1, <1>2, <1>3, <1>4, <1>5, <1>6, <1>7 DEF Reader, ReaderRuns

(* Every writer step is one of the task's moves.                           *)
LEMMA WriterMoves ==
    ASSUME Writer
    PROVE  Moves /\ TaskFree /\ task = "run"
<1>1. CASE Swap \/ WakeReady \/ TlsFlush \/ FlushPong \/ WriteUnit \/ WriteShutdown
  BY <1>1 DEF Swap, WakeReady, TlsFlush, FlushPong, WriteUnit, WriteShutdown, WriterTurn, connVars, Moves
<1>2. CASE EmitDrain \/ WriterStops \/ WriteFails
  BY <1>2 DEF EmitDrain, WriterStops, WriteFails, WriterTurn, connVars, Moves, Kinds
<1> QED
  BY <1>1, <1>2 DEF Writer, WriterRuns, WriterNet

(* finish() keeps the types of the state, the events and the stages.       *)
LEMMA FinishTypes ==
    ASSUME AppTypes, NEW p \in Procs, NEW code \in Nat, Finish(p, code)
    PROVE  state' \in States /\ events' \in Seq(Events) /\ fin' \in [Procs -> Stages]
<1>1. Sent(CloseEvent(code)) \in Seq(Events)
  <2>1. events \in Seq(Events) /\ CloseEvent(code) \in Events
    BY DEF AppTypes, CloseEvent, Events
  <2> QED
    BY <2>1 DEF Sent
<1> QED
  BY <1>1 DEF AppTypes, Finish, States, Stages

(* An event emit() sends is an event.                                      *)
LEMMA EventTypes ==
    ASSUME AppTypes, NEW kind \in Kinds \cup {"open"}
    PROVE  Append(events, Event(kind)) \in Seq(Events) /\ Sent(Event(kind)) \in Seq(Events)
<1>1. events \in Seq(Events) /\ Event(kind) \in Events
  BY DEF AppTypes, Event, Events, Kinds
<1> QED
  BY <1>1 DEF Sent

(* The task's moves keep those types too.                                  *)
LEMMA MovesTypes ==
    ASSUME AppTypes, CloseTypes, Moves
    PROVE  state' \in States /\ events' \in Seq(Events) /\ fin' \in [Procs -> Stages]
<1>0. Task \in Procs /\ Abnormal \in Nat /\ EndCode \in Nat
  BY DEF Procs, Abnormal, EndCode, CloseTypes, NoCode, Violation
<1>1. CASE FlagsFree /\ (Finish(Task, Abnormal) \/ Finish(Task, EndCode))
  BY <1>0, <1>1, FinishTypes
<1>2. ASSUME NEW kind \in Kinds, Emit(Task, kind), ~Finish(Task, Abnormal)
      PROVE  state' \in States /\ events' \in Seq(Events) /\ fin' \in [Procs -> Stages]
  BY <1>2, EventTypes DEF Emit, AppTypes
<1>3. CASE \/ UNCHANGED <<state, events, fin>>
           \/ fin' = [fin EXCEPT ![Task] = "error"] /\ UNCHANGED <<state, events>>
           \/ FlagsFree /\ state # "closed" /\ state' = "closing" /\ UNCHANGED <<events, fin>>
  BY <1>0, <1>3 DEF AppTypes, States, Stages
<1> QED
  BY <1>0, <1>1, <1>2, <1>3, FinishTypes DEF Moves

(* Every step keeps the types of what the application sees and of its      *)
(* calls.                                                                  *)
LEMMA AppTypesStep ==
    ASSUME TypeOK, Next
    PROVE  AppTypes'
<1>0. AppTypes /\ CloseTypes
  BY DEF TypeOK
<1>1. ASSUME UNCHANGED <<server, hubUp, callVars>>, state' \in States, events' \in Seq(Events), fin' \in [Procs -> Stages]
      PROVE  AppTypes'
  BY <1>0, <1>1 DEF AppTypes, callVars
<1>2. ASSUME NEW p \in Procs, Ending(p) PROVE AppTypes'
  <2>1. CASE Finish(p, Abnormal)
    BY <1>0, <1>1, <1>2, <2>1, FinishTypes, EndingFrame DEF Abnormal
  <2>2. CASE FailEmit(p) /\ ~Finish(p, Abnormal)
    BY <1>0, <1>1, <1>2, <2>2, EventTypes, EndingFrame DEF FailEmit, Kinds, AppTypes, Stages
  <2>3. CASE StopWriter(p) \/ SignalStop(p) \/ ShutIo(p)
    BY <1>0, <1>1, <1>2, <2>3, EndingFrame DEF StopWriter, SignalStop, ShutIo, connVars, AppTypes, Stages
  <2> QED
    BY <1>2, <2>1, <2>2, <2>3 DEF Ending, FailFinish
<1>3. CASE Reader \/ Writer
  BY <1>0, <1>1, <1>3, MovesTypes, ReaderMoves, WriterMoves, ReaderFrame, WriterFrame
<1>4. CASE Established \/ EstablishEnds \/ StartLate \/ TaskEnd \/ DeadlinePasses
  <2>1. UNCHANGED <<server, hubUp, callVars>> /\ Moves
    BY <1>4 DEF Established, EstablishEnds, StartLate, TaskEnd, DeadlinePasses, connVars, Moves
  <2> QED
    BY <1>0, <1>1, <2>1, MovesTypes
<1>5. ASSUME NEW rest, Start(rest) PROVE AppTypes'
  BY <1>0, <1>1, <1>5, EventTypes DEF Start, Kinds, AppTypes, Stages, States, Procs
<1>6. ASSUME NEW a \in Apps, App(a) PROVE AppTypes'
  <2>1. a \in Procs
    BY DEF Procs
  <2>2. ASSUME NEW len \in Lens, Send(a, len) PROVE AppTypes'
    <3>1. len \in Nat
      BY LinkAssumption
    <3>2. CASE Fits(len)
      BY <1>0, <2>2, <3>1, <3>2 DEF Send, AppTypes, connVars
    <3>3. CASE ~Fits(len)
      <4>1. call' \in [Apps -> Calls] /\ want' \in [Apps -> Nat]
        BY <1>0, <2>2, <3>1, <3>3 DEF Send, AppTypes, Calls
      <4> QED
        BY <1>0, <2>2, <4>1 DEF Send, AppTypes, connVars
    <3> QED
      BY <3>2, <3>3
  <2>3. CASE SendFull(a)
    BY <1>0, <2>3 DEF SendFull, AppTypes, Calls, connVars
  <2>4. CASE CloseNotify(a)
    BY <1>0, <2>4 DEF CloseNotify, AppTypes, Calls, connVars
  <2>8. CASE HubClose(a)
    BY <1>0, <2>8 DEF HubClose, AppTypes, Calls
  <2>9. CASE CloseOpen(a)
    BY <1>0, <2>9 DEF CloseOpen, AppTypes, States, callVars
  <2>10. CASE CloseConnecting(a)
    BY <1>0, <2>1, <2>10 DEF CloseConnecting, AppTypes, Calls, Stages, connVars
  <2>5. CASE Terminate(a)
    BY <1>0, <1>1, <2>1, <2>5, FinishTypes DEF Terminate, Abnormal
  <2>6. CASE Recv(a)
    <3>1. events \in Seq(Events) /\ events # <<>> 
      BY <1>0, <2>6 DEF Recv, AppTypes
    <3>2. Tail(events) \in Seq(Events)
      BY <3>1
    <3>3. conn' \in BOOLEAN
      BY <2>6 DEF Recv
    <3> QED
      BY <1>0, <2>6, <3>2, <3>3 DEF Recv, AppTypes
  <2>7. CASE HubDrain(a)
    BY <1>0, <2>1, <2>7 DEF HubDrain, AppTypes, Calls, States, Stages
  <2> QED
    BY <1>6, <2>2, <2>3, <2>4, <2>5, <2>6, <2>7, <2>8, <2>9, <2>10 DEF App
<1> QED
  BY <1>2, <1>3, <1>4, <1>5, <1>6 DEF Next

(* Every step keeps the types of the flags, the permits and the socket.    *)
LEMMA CloseTypesStep ==
    ASSUME TypeOK, Next
    PROVE  CloseTypes'
<1>0. CloseTypes
  BY DEF TypeOK
<1>1. ASSUME NEW p \in Procs, Ending(p) PROVE CloseTypes'
  <2>1. CASE UNCHANGED <<closeVars, permits, inbox, ioVars>>
    BY <1>0, <2>1 DEF CloseTypes, closeVars, ioVars
  <2>2. CASE StopWriter(p)
    BY <1>0, <2>2 DEF StopWriter, CloseTypes, closeVars, ioVars
  <2>3. CASE SignalStop(p)
    BY <1>0, <2>3 DEF SignalStop, CloseTypes, closeVars
  <2>4. CASE ShutIo(p)
    BY <1>0, <2>4 DEF ShutIo, CloseTypes, closeVars
  <2> QED
    BY <1>1, <2>1, <2>2, <2>3, <2>4 DEF Ending, FailEmit, FailFinish
<1>2. CASE Writer
  <2>1. permits' \subseteq permits \cup {"ready", "drained", "changed"}
    BY <1>2 DEF Writer, WriterRuns, WriterNet, Swap, WakeReady, FlushPong, EmitDrain, WriterStops,
         TlsFlush, WriteUnit, WriteShutdown, WriteFails, WakeWriter
  <2> QED
    BY <1>0, <1>2, <2>1, WriterFrame DEF CloseTypes, closeVars, ioVars
<1>3. CASE Established \/ EstablishEnds \/ StartLate \/ TaskEnd \/ DeadlinePasses \/ \E rest : Start(rest)
  <2>1. UNCHANGED <<sentClose, received, failed, permits, inbox, stopped>>
    BY <1>3 DEF closeVars, ioVars, Established, EstablishEnds, StartLate, TaskEnd, DeadlinePasses, Start
  <2>2. tcp' \in {tcp, "up", "down"} /\ deadline' \in {deadline, "passed"}
    BY <1>3 DEF closeVars, ioVars, Established, EstablishEnds, StartLate, TaskEnd, DeadlinePasses, Start
  <2> QED
    BY <1>0, <2>1, <2>2 DEF CloseTypes
<1>4. ASSUME NEW a \in Apps, App(a) PROVE CloseTypes'
  <2>1. permits' \subseteq permits \cup {"ready", "changed", "consumed"}
    BY <1>4 DEF App, Send, SendFull, CloseOpen, CloseConnecting, CloseNotify, Terminate, Recv, HubClose,
         HubDrain, WakeWriter
  <2>2. inbox' \in {inbox, inbox - 1} /\ (sentClose' = sentClose \/ sentClose' = TRUE) /\ deadline' \in {deadline, "set"}
    BY <1>4 DEF closeVars, App, Send, SendFull, CloseOpen, CloseConnecting, CloseNotify, Terminate, Recv, HubClose, HubDrain
  <2>3. inbox' \in Int /\ deadline' \in {"none", "set", "passed"}
    BY <1>0, <2>2 DEF CloseTypes
  <2>5. sentClose' \in BOOLEAN
    <3>1. sentClose \in BOOLEAN /\ TRUE \in BOOLEAN
      BY <1>0 DEF CloseTypes
    <3> QED
      BY <2>2, <3>1, Zenon
  <2>4. UNCHANGED <<received, failed, stopped, tcp>>
    BY <1>4, AppFrame DEF ioVars
  <2> QED
    BY <1>0, <2>1, <2>3, <2>4, <2>5 DEF CloseTypes
<1>5. CASE Reader
  <2>1. permits' \subseteq permits \cup {"ready", "drained", "changed"}
    <3>1. CASE ReaderRuns
      BY <3>1 DEF ReaderRuns, ReadTop, HandleText, HandlePing, HandlePong, HandleClose, HandleBad,
              Violate, Check, Beat, Flush, ReadDone, AnswerPing, WakeWriter
    <3>2. CASE ~ReaderRuns
      BY <1>5, <3>2 DEF Reader, ReaderWakes, WakeStopped, TimerDeadline, FlushWake, WakeNotified, ReadEnds, TimerHeartbeat, ReadChunk
    <3> QED BY <3>1, <3>2
  <2>2. inbox' \in {inbox, inbox + 1}
      BY <1>5 DEF Reader, ReaderRuns, ReadTop, HandleText, HandlePing, HandlePong, HandleClose, HandleBad,
              Violate, Check, Beat, Flush, ReadDone, ReaderWakes, WakeStopped, TimerDeadline, FlushWake, WakeNotified,
              ReadEnds, TimerHeartbeat, ReadChunk, Deliver
  <2>3. CASE UNCHANGED closeVars
    BY <1>0, <1>5, <2>1, <2>2, <2>3, ReaderFrame DEF CloseTypes, closeVars, ioVars
  <2>4. CASE /\ received' \in {received, 1000, 1005} /\ failed' \in {failed, Violation}
             /\ ArmDeadline /\ sentClose' = TRUE
    <3>1. sentClose' \in BOOLEAN
      BY <2>4
    <3>2. received' \in {NoCode, 1000, 1005} /\ failed' \in {NoCode, Violation}
      BY <1>0, <2>4 DEF CloseTypes
    <3>3. deadline' \in {"none", "set", "passed"}
      BY <1>0, <2>4 DEF CloseTypes, ArmDeadline
    <3> QED
      BY <1>0, <1>5, <2>1, <2>2, <3>1, <3>2, <3>3, ReaderFrame DEF CloseTypes, ioVars
  <2>5. CASE HandleClose
    <3>1. CASE state = "closed" \/ received # NoCode
      BY <2>3, <2>5, <3>1 DEF HandleClose
    <3>2. CASE ~(state = "closed" \/ received # NoCode)
      BY <2>4, <2>5, <3>2 DEF HandleClose
    <3> QED
      BY <3>1, <3>2
  <2>6. CASE Violate
    <3>1. CASE state = "closed"
      BY <2>3, <2>6, <3>1 DEF Violate
    <3>2. CASE state # "closed"
      BY <2>4, <2>6, <3>2 DEF Violate
    <3> QED
      BY <3>1, <3>2
  <2>7. CASE Reader /\ ~HandleClose /\ ~Violate
    BY <2>3, <2>7 DEF Reader, ReaderRuns, ReadTop, HandleText, HandlePing, HandlePong, HandleBad,
              Check, Beat, Flush, ReadDone, ReaderWakes, WakeStopped, TimerDeadline, FlushWake, WakeNotified,
              ReadEnds, TimerHeartbeat, ReadChunk
  <2> QED
    BY <1>5, <2>5, <2>6, <2>7
<1> QED
  BY <1>1, <1>2, <1>3, <1>4, <1>5 DEF Next

(* Every step keeps the types of the writer, which writes only from a      *)
(* nonempty batch.                                                         *)
LEMMA WriterTypesStep ==
    ASSUME TypeOK, Next, wr = "write" => held # <<>>
    PROVE  WriterTypes'
<1>0. WriterTypes /\ QueueTypes
  BY DEF TypeOK
<1>1. CASE (\E p \in Procs : Ending(p)) \/ (\E a \in Apps : App(a)) \/ Reader
  BY <1>0, <1>1, EndingFrame, AppFrame, ReaderFrame DEF WriterTypes, taskVars, writeVars, outVars
<1>2. CASE Established \/ EstablishEnds \/ StartLate \/ TaskEnd \/ DeadlinePasses \/ \E rest : Start(rest)
  BY <1>0, <1>2 DEF WriterTypes, taskVars, writeVars, outVars, Established, EstablishEnds, StartLate, TaskEnd, WriterGone, DeadlinePasses, Start
<1>3. CASE WriteUnit
  <2>1. held \in Seq(Units) /\ held # <<>>
    BY <1>0, <1>3 DEF QueueTypes, WriteUnit
  <2>2. Head(held) \in Units
    BY <2>1
  <2>3. Head(held).tag \in Nat
    BY <2>2 DEF Units
  <2> QED
    BY <1>0, <1>3, <2>3 DEF WriterTypes, WriteUnit, Batch
<1>4. CASE Writer /\ ~WriteUnit
  BY <1>0, <1>4 DEF WriterTypes, Writer, WriterRuns, WriterNet, Swap, WakeReady, FlushPong, EmitDrain, WriterStops,
         TlsFlush, WriteShutdown, WriteFails, WriterGone, Batch, outVars
<1> QED
  BY <1>1, <1>2, <1>3, <1>4 DEF Next

Answered == received # NoCode \/ failed # NoCode

(* Where the closing handshake stands: the close timeout is armed, nothing *)
(* is parsed any more once it was answered, and a caller that holds flags  *)
(* between its two looks at the buffer keeps the connection open.          *)
ClosingInv ==
    /\ ClosingIsArmed
    /\ task = "run" => state # "connecting"
    /\ Answered => state \in {"closing", "closed"} /\ ~ok
    /\ rd \in {"dispatch", "violation"} => ok
    /\ rd = "dispatch" => rbuf # <<>>
    /\ \A a \in Apps : call[a] = "full" => state = "open" /\ ~sentClose
    /\ \A a \in Apps : call[a] = "drop" => ~hubUp

(* The reader keeps the types of its buffer and of its counts.             *)
LEMMA ParseTypes ==
    ASSUME TaskTypes, ClosingInv, Reader
    PROVE  ok' \in BOOLEAN /\ last' \in BOOLEAN /\ rbuf' \in Seq(Msgs) /\ pings' \in Nat /\ reads' \in Nat
<1>0. rbuf \in Seq(Msgs) /\ pings \in Nat /\ reads \in Nat /\ ok \in BOOLEAN /\ last \in BOOLEAN
  BY DEF TaskTypes
<1>1. ASSUME NEW closing \in BOOLEAN, Handled(closing), rd = "dispatch" \/ closing, pings' \in Nat
      PROVE  ok' \in BOOLEAN /\ last' \in BOOLEAN /\ rbuf' \in Seq(Msgs) /\ pings' \in Nat /\ reads' \in Nat
  <2>1. rd = "dispatch" => Tail(rbuf) \in Seq(Msgs)
    BY <1>0 DEF ClosingInv
  <2>2. rbuf' \in Seq(Msgs)
    BY <1>1, <2>1 DEF Handled
  <2> QED
    BY <1>0, <1>1, <2>2 DEF Handled
<1>2. CASE HandleText \/ HandlePong
  BY <1>0, <1>1, <1>2 DEF HandleText, HandlePong, Handling
<1>3. CASE HandlePing
  <2>1. pings' = pings + 1 /\ rd = "dispatch" /\ Handled(FALSE)
    BY <1>3, Zenon DEF HandlePing, Handling
  <2>2. pings' \in Nat
    BY <1>0, <2>1
  <2> QED
    BY <1>1, <2>1, <2>2, Zenon
<1>4. CASE HandleClose
  BY <1>0, <1>1, <1>4 DEF HandleClose
<1>12. CASE Violate
  BY <1>0, <1>1, <1>12 DEF Violate
<1>5. CASE HandleBad \/ Flush \/ FlushWake
  BY <1>0, <1>5 DEF HandleBad, Flush, FlushWake, parseVars
<1>6. CASE ReadTop \/ Check
  BY <1>0, <1>6 DEF ReadTop, Check, Leave
<1>7. CASE Beat
  BY <1>0, <1>7 DEF Beat, Resume
<1>13. CASE ReadDone
  <2>1. <<>> \in Seq(Msgs) /\ TRUE \in BOOLEAN /\ FALSE \in BOOLEAN
    OBVIOUS
  <2> QED
    BY <1>0, <1>13, <2>1, Zenon DEF ReadDone, ReaderGone
<1>8. CASE WakeStopped \/ TimerDeadline
  BY <1>0, <1>8 DEF WakeStopped, TimerDeadline, Leave, Resume
<1>9. CASE \E permit \in {"changed", "consumed"} : WakeNotified(permit)
  BY <1>0, <1>9 DEF WakeNotified, Resume
<1>10. ASSUME NEW chunk \in Chunks, ReadChunk(chunk)
       PROVE  ok' \in BOOLEAN /\ last' \in BOOLEAN /\ rbuf' \in Seq(Msgs) /\ pings' \in Nat /\ reads' \in Nat
  <2>1. chunk \in Seq(Msgs)
    BY LinkAssumption
  <2>2. rbuf \o chunk \in Seq(Msgs)
    BY <1>0, <2>1
  <2> QED
    BY <1>0, <1>10, <2>2 DEF ReadChunk, Resume
<1>11. CASE ReadEnds \/ TimerHeartbeat
  BY <1>0, <1>11 DEF ReadEnds, TimerHeartbeat, Leave, Resume
<1> QED
  BY <1>2, <1>3, <1>4, <1>5, <1>6, <1>7, <1>8, <1>9, <1>10, <1>11, <1>12, <1>13 DEF Reader, ReaderRuns, ReaderWakes

(* The reader moves between its positions.                                 *)
LEMMA ControlTypes ==
    ASSUME TaskTypes, Reader
    PROVE  /\ rd' \in {"off", "top", "dispatch", "violation", "check", "inbox", "net", "beat",
               "flush", "flushing", "end", "done"}
           /\ armed' \in {"none", "deadline", "heartbeat"} /\ probe' \in {"none", "queued", "sent"}
<1>0. armed \in {"none", "deadline", "heartbeat"} /\ probe \in {"none", "queued", "sent"}
  BY DEF TaskTypes
<1>1. CASE HandleText \/ HandlePong \/ HandlePing \/ HandleClose \/ Violate
  BY <1>0, <1>1 DEF HandleText, HandlePong, HandlePing, HandleClose, Violate, Handled, AfterDispatch
<1>2. CASE HandleBad \/ Flush \/ FlushWake
  BY <1>0, <1>2 DEF HandleBad, Flush, FlushWake
<1>3. CASE ReadTop \/ Check
  BY <1>0, <1>3 DEF ReadTop, Check, Leave
<1>4. CASE Beat \/ ReadDone
  BY <1>0, <1>4 DEF Beat, ReadDone, ReaderGone, Resume
<1>5. CASE WakeStopped \/ TimerDeadline
  BY <1>0, <1>5 DEF WakeStopped, TimerDeadline, Leave, Resume
<1>6. CASE \E permit \in {"changed", "consumed"} : WakeNotified(permit)
  BY <1>0, <1>6 DEF WakeNotified, Resume
<1>7. CASE ReadEnds \/ TimerHeartbeat \/ \E chunk \in Chunks : ReadChunk(chunk)
  BY <1>0, <1>7 DEF ReadEnds, TimerHeartbeat, ReadChunk, Leave, Resume
<1> QED
  BY <1>1, <1>2, <1>3, <1>4, <1>5, <1>6, <1>7 DEF Reader, ReaderRuns, ReaderWakes

(* Every step keeps the types of the task and its reader.                  *)
LEMMA TaskTypesStep ==
    ASSUME TypeOK, ClosingInv, Next
    PROVE  TaskTypes'
<1>0. TaskTypes
  BY DEF TypeOK
<1>1. CASE (\E p \in Procs : Ending(p)) \/ (\E a \in Apps : App(a))
  BY <1>0, <1>1, EndingFrame, AppFrame DEF TaskTypes, taskVars, readVars, parseVars
<1>2. CASE Reader
  BY <1>0, <1>2, ReaderFrame, ParseTypes, ControlTypes DEF TaskTypes
<1>3. CASE Writer
  <2>1. probe' \in {probe, "sent"}
    BY <1>3 DEF Writer, WriterRuns, WriterNet, Swap, WakeReady, FlushPong, EmitDrain, WriterStops,
         TlsFlush, WriteUnit, WriteShutdown, WriteFails, readVars
  <2> QED
    BY <1>0, <1>3, <2>1, WriterFrame DEF TaskTypes, parseVars
<1>4. CASE Established \/ EstablishEnds \/ StartLate \/ DeadlinePasses
  BY <1>0, <1>4 DEF Established, EstablishEnds, StartLate, DeadlinePasses, taskVars, readVars, parseVars, TaskTypes
<1>5. CASE TaskEnd
  <2>1. rbuf' = <<>> /\ ok' = FALSE /\ last' = TRUE
    BY <1>5 DEF TaskEnd, ReaderGone
  <2>2. ok' \in BOOLEAN /\ last' \in BOOLEAN
    BY <2>1
  <2> QED
    BY <1>0, <1>5, <2>1, <2>2 DEF TaskEnd, ReaderGone, TaskTypes
<1>6. ASSUME NEW rest \in Chunks \cup {<<>>}, Start(rest) PROVE TaskTypes'
  <2>1. rest \in Seq(Msgs)
    <3>1. rest \in Chunks => rest \in Seq(Msgs)
      BY LinkAssumption
    <3>2. <<>> \in Seq(Msgs)
      OBVIOUS
    <3> QED
      BY <3>1, <3>2
  <2>2. reads' \in Nat
    BY <1>0, <1>6 DEF Start, TaskTypes
  <2> QED
    BY <1>0, <1>6, <2>1, <2>2 DEF Start, TaskTypes
<1> QED
  BY <1>1, <1>2, <1>3, <1>4, <1>5, <1>6 DEF Next

(* A move of the task leaves the state alone or starts or ends the         *)
(* closing.                                                                *)
LEMMA StateMoves ==
    ASSUME Moves
    PROVE  state' = state \/ (FlagsFree /\ state' \in {"closing", "closed"})
  BY DEF Moves, Finish, Emit

(* Once dispatch() returned false the reader never parses again.           *)
LEMMA ReaderParses ==
    ASSUME ClosingInv, Reader
    PROVE  /\ ok' => ok
           /\ rd' \in {"dispatch", "violation"} => ok'
           /\ rd' = "dispatch" => rbuf' # <<>>
<1> DEFINE G == /\ ok' => ok
                /\ rd' \in {"dispatch", "violation"} => ok'
                /\ rd' = "dispatch" => rbuf' # <<>>
<1>0. /\ rd \in {"dispatch", "violation"} => ok
      /\ rd = "dispatch" => rbuf # <<>>
  BY DEF ClosingInv
<1>1. ASSUME NEW closing \in BOOLEAN, Handled(closing), ok PROVE G
  BY <1>1 DEF Handled, AfterDispatch
<1>2. CASE HandleText \/ HandlePong
  BY <1>0, <1>1, <1>2 DEF HandleText, HandlePong, Handling
<1>3. CASE HandlePing \/ HandleClose
  BY <1>0, <1>1, <1>3 DEF HandlePing, HandleClose, Handling
<1>4. CASE Violate
  BY <1>0, <1>1, <1>4 DEF Violate
<1>5. CASE HandleBad
  BY <1>0, <1>5 DEF HandleBad, Handling, parseVars
<1>6. CASE Flush \/ FlushWake
  BY <1>6 DEF Flush, FlushWake, parseVars
<1>7. CASE ReadTop
  BY <1>7 DEF ReadTop, Leave
<1>8. CASE Check
  BY <1>8 DEF Check, Leave
<1>9. CASE Beat
  BY <1>9 DEF Beat, Resume
<1>10. CASE ReadDone
  BY <1>10 DEF ReadDone, ReaderGone
<1>11. CASE WakeStopped \/ TimerDeadline
  BY <1>11, SMTT(30) DEF WakeStopped, TimerDeadline, Leave, Resume
<1>12. CASE \E permit \in {"changed", "consumed"} : WakeNotified(permit)
  BY <1>12 DEF WakeNotified, Resume
<1>13. CASE ReadEnds
  BY <1>13 DEF ReadEnds, Leave
<1>14. CASE TimerHeartbeat
  BY <1>14 DEF TimerHeartbeat, Leave, Resume
<1>15. CASE \E chunk \in Chunks : ReadChunk(chunk)
  BY <1>15 DEF ReadChunk, Resume
<1> QED
  BY <1>2, <1>3, <1>4, <1>5, <1>6, <1>7, <1>8, <1>9, <1>10, <1>11, <1>12, <1>13, <1>14, <1>15
     DEF Reader, ReaderRuns, ReaderWakes

(* Every step keeps ClosingInv.                                            *)
LEMMA ClosingStep ==
    ASSUME TypeOK, ClosingInv, Next
    PROVE  ClosingInv'
<1>0. AppTypes /\ CloseTypes
  BY DEF TypeOK
<1>1. ASSUME UNCHANGED <<hubUp, call, closeVars, task, rd, parseVars>>,
             state' = state \/ (FlagsFree /\ state' \in {"closing", "closed"})
      PROVE  ClosingInv'
  BY <1>1 DEF ClosingInv, ClosingIsArmed, Answered, FlagsFree, closeVars, parseVars
<1>2. ASSUME NEW p \in Procs, Ending(p) PROVE ClosingInv'
  <2>1. state' = state \/ (FlagsFree /\ state' = "closed")
    BY <1>2 DEF Ending, FailEmit, FailFinish, Finish, StopWriter, SignalStop, ShutIo, connVars
  <2> QED
    BY <1>1, <1>2, <2>1, EndingFrame DEF taskVars, readVars, callVars
<1>3. CASE Writer
  BY <1>1, <1>3, StateMoves, WriterMoves, WriterFrame DEF callVars
<1>4. CASE Reader
  <2>1. hubUp' = hubUp /\ call' = call /\ task' = task /\ task = "run"
    BY <1>4, ReaderFrame, ReaderMoves DEF callVars
  <2>2. state' = state \/ (FlagsFree /\ state' \in {"closing", "closed"})
    BY <1>4, ReaderMoves, StateMoves
  <2>3. CASE UNCHANGED closeVars
    BY <1>4, <2>1, <2>2, <2>3, ReaderParses DEF ClosingInv, ClosingIsArmed, Answered, FlagsFree, closeVars
  <2>4. CASE /\ ok /\ ~ok' /\ FlagsFree /\ state' = "closing" /\ deadline' # "none"
             /\ received' = received \/ failed' = failed
    BY <1>4, <2>1, <2>4, ReaderParses DEF ClosingInv, ClosingIsArmed, Answered, FlagsFree
  <2>5. CASE HandleClose
    <3>1. CASE state = "closed" \/ received # NoCode
      BY <2>3, <2>5, <3>1 DEF HandleClose
    <3>2. CASE ~(state = "closed" \/ received # NoCode)
      <4>1. ok /\ ~ok' /\ FlagsFree
        BY <2>5 DEF HandleClose, Handling, Handled, ClosingInv
      <4>2. state' = "closing" /\ deadline' # "none" /\ failed' = failed
        BY <2>5, <3>2 DEF HandleClose, ArmDeadline
      <4> QED
        BY <2>4, <4>1, <4>2
    <3> QED
      BY <3>1, <3>2
  <2>6. CASE Violate
    <3>1. CASE state = "closed"
      BY <2>3, <2>6, <3>1 DEF Violate
    <3>2. CASE state # "closed"
      BY <2>4, <2>6, <3>2 DEF Violate, Handled, ClosingInv, ArmDeadline
    <3> QED
      BY <3>1, <3>2
  <2>7. CASE Reader /\ ~HandleClose /\ ~Violate
    BY <2>3, <2>7 DEF Reader, ReaderRuns, ReadTop, HandleText, HandlePing, HandlePong, HandleBad,
              Check, Beat, Flush, ReadDone, ReaderWakes, WakeStopped, TimerDeadline, FlushWake, WakeNotified,
              ReadEnds, TimerHeartbeat, ReadChunk
  <2> QED
    BY <1>4, <2>5, <2>6, <2>7
<1>5. CASE Established \/ EstablishEnds \/ StartLate
  <2>1. UNCHANGED <<hubUp, call, closeVars, rd, parseVars>> /\ Moves /\ task' \in {"start", "over"}
    BY <1>5 DEF Established, EstablishEnds, StartLate, connVars, callVars, readVars, Moves
  <2> QED
    BY <2>1, StateMoves DEF ClosingInv, ClosingIsArmed, Answered, FlagsFree, closeVars, parseVars
<1>6. CASE DeadlinePasses
  BY <1>6 DEF DeadlinePasses, connVars, taskVars, readVars, parseVars, callVars, ClosingInv, ClosingIsArmed, Answered
<1>7. CASE TaskEnd
  <2>1. UNCHANGED <<hubUp, call, closeVars>> /\ Moves /\ task' = "over" /\ rd' = "done" /\ ~ok'
    BY <1>7 DEF TaskEnd, ReaderGone, callVars, Moves
  <2> QED
    BY <2>1, StateMoves DEF ClosingInv, ClosingIsArmed, Answered, FlagsFree, closeVars
<1>8. ASSUME NEW rest, Start(rest) PROVE ClosingInv'
  <2>1. UNCHANGED <<hubUp, call, closeVars, ok>> /\ FlagsFree /\ state = "connecting" /\ state' = "open" 
    BY <1>8 DEF Start, callVars
  <2>2. rd' = "top" \/ UNCHANGED <<rd, rbuf>>
    BY <1>8 DEF Start
  <2> QED
    BY <2>1, <2>2 DEF ClosingInv, ClosingIsArmed, Answered, FlagsFree, closeVars
<1>9. ASSUME NEW a \in Apps, App(a) PROVE ClosingInv'
  <2>0. call \in [Apps -> Calls] /\ UNCHANGED <<received, failed, task, rd, ok, rbuf>>
    BY <1>0, <1>9, AppFrame DEF AppTypes, taskVars, readVars, parseVars
  <2>2. ASSUME NEW len \in Lens, Send(a, len) PROVE ClosingInv'
    <3>1. CASE Fits(len)
      BY <2>0, <2>2, <3>1 DEF Send, connVars, ClosingInv, ClosingIsArmed, Answered, closeVars
    <3>2. CASE ~Fits(len)
      BY <2>0, <2>2, <3>2 DEF Send, connVars, ClosingInv, ClosingIsArmed, Answered, closeVars
    <3> QED
      BY <3>1, <3>2
  <2>3. CASE SendFull(a)
    BY <2>0, <2>3 DEF SendFull, ClosingInv, ClosingIsArmed, Answered, FlagsFree, closeVars, connVars
  <2>4. CASE CloseOpen(a)
    BY <2>0, <2>4 DEF CloseOpen, callVars, ClosingInv, ClosingIsArmed, Answered, FlagsFree
  <2>5. CASE CloseConnecting(a)
    BY <2>0, <2>5 DEF CloseConnecting, ClosingInv, ClosingIsArmed, Answered, FlagsFree, closeVars, connVars
  <2>6. CASE CloseNotify(a)
    BY <2>0, <2>6 DEF CloseNotify, ClosingInv, ClosingIsArmed, Answered, FlagsFree, closeVars, connVars
  <2>7. CASE Terminate(a)
    BY <2>0, <2>7 DEF Terminate, ClosingInv, ClosingIsArmed, Answered, FlagsFree, closeVars, Finish, callVars
  <2>8. CASE Recv(a)
    BY <2>0, <2>8 DEF Recv, ClosingInv, ClosingIsArmed, Answered, FlagsFree, closeVars
  <2>9. CASE HubClose(a)
    BY <2>0, <2>9 DEF HubClose, ClosingInv, ClosingIsArmed, Answered, FlagsFree, closeVars
  <2>10. CASE HubDrain(a)
    BY <2>0, <2>10 DEF HubDrain, ClosingInv, ClosingIsArmed, Answered, FlagsFree, closeVars
  <2> QED
    BY <1>9, <2>2, <2>3, <2>4, <2>5, <2>6, <2>7, <2>8, <2>9, <2>10 DEF App
<1> QED
  BY <1>2, <1>3, <1>4, <1>5, <1>6, <1>7, <1>8, <1>9 DEF Next

=============================================================================
