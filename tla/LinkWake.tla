------------------------------ MODULE LinkWake ------------------------------
(*****************************************************************************)
(* What must not be missed: the shutdown of the socket, the drain event     *)
(* of a refused send, and the wakeups of the task's futures.                *)
(*****************************************************************************)
EXTENDS LinkQueue

(* A thread inside finish() goes through its stages in order, and the one  *)
(* that closes the connection enters the first of them.                    *)
Finishing == {"stop", "signal", "shut"}
Ordered(q) ==
    \/ fin[q] \notin Finishing
    \/ fin'[q] = fin[q] \/ fin'[q] = "stop"
    \/ fin[q] = "stop" /\ fin'[q] = "signal"
    \/ fin[q] = "signal" /\ fin'[q] = "shut" /\ stopped'
    \/ fin[q] = "shut" /\ tcp' # "up"

(* The task's moves respect the order of finish().                         *)
LEMMA TaskStages ==
    ASSUME AppTypes, Moves, TaskFree
    PROVE  /\ \A q \in Procs : Ordered(q)
           /\ state # "closed" /\ state' = "closed" => \E q \in Procs : fin'[q] = "stop"
<1>0. fin \in [Procs -> Stages] /\ Task \in Procs /\ fin[Task] \notin Finishing
  BY DEF AppTypes, Procs, TaskFree, Finishing
<1>1. CASE UNCHANGED <<state, events, fin>> \/ (state' = "closing" /\ UNCHANGED <<events, fin>>)
  BY <1>1 DEF Ordered
<1>2. ASSUME NEW code, Finish(Task, code)
      PROVE  /\ \A q \in Procs : Ordered(q)
             /\ state # "closed" /\ state' = "closed" => \E q \in Procs : fin'[q] = "stop"
  BY <1>0, <1>2 DEF Finish, Ordered
<1>3. CASE fin' = [fin EXCEPT ![Task] = "error"] /\ UNCHANGED <<state, events>>
  BY <1>0, <1>3 DEF Ordered
<1>4. ASSUME NEW kind, Emit(Task, kind)
      PROVE  UNCHANGED <<state, fin>> \/ Finish(Task, Abnormal)
  BY <1>4 DEF Emit
<1>5. CASE UNCHANGED <<state, fin>>
  BY <1>5 DEF Ordered
<1> QED
  BY <1>1, <1>2, <1>3, <1>4, <1>5 DEF Moves

(* Every step respects the order of finish(), and the step that closes     *)
(* the connection enters it.                                               *)
LEMMA StageOrder ==
    ASSUME TypeOK, Next
    PROVE  /\ \A q \in Procs : Ordered(q)
           /\ state # "closed" /\ state' = "closed" => \E q \in Procs : fin'[q] = "stop"
<1>0. AppTypes /\ fin \in [Procs -> Stages]
  BY DEF TypeOK, AppTypes
<1> DEFINE G == /\ \A q \in Procs : Ordered(q)
                /\ state # "closed" /\ state' = "closed" => \E q \in Procs : fin'[q] = "stop"
<1>1. ASSUME NEW p \in Procs, Ending(p) PROVE G
  <2>1. CASE FailEmit(p)
    BY <1>0, <2>1 DEF FailEmit, Finish, Ordered, Finishing
  <2>2. CASE FailFinish(p)
    BY <1>0, <2>2 DEF FailFinish, Finish, Ordered, Finishing
  <2>3. CASE StopWriter(p)
    BY <1>0, <2>3 DEF StopWriter, connVars, Ordered
  <2>4. CASE SignalStop(p)
    BY <1>0, <2>4 DEF SignalStop, connVars, Ordered
  <2>5. CASE ShutIo(p)
    BY <1>0, <2>5 DEF ShutIo, connVars, Ordered
  <2> QED
    BY <1>1, <2>1, <2>2, <2>3, <2>4, <2>5 DEF Ending
<1>2. ASSUME NEW a \in Apps, App(a) PROVE G
  <2>0. a \in Procs
    BY DEF Procs
  <2>1. CASE UNCHANGED <<state, fin>>
    BY <2>1 DEF Ordered
  <2>2. CASE (\E len \in Lens : Send(a, len)) \/ SendFull(a) \/ CloseNotify(a) \/ Recv(a) \/ HubClose(a)
    BY <2>1, <2>2 DEF Send, SendFull, CloseNotify, Recv, HubClose, connVars
  <2>3. CASE CloseOpen(a)
    BY <2>3 DEF CloseOpen, Ordered
  <2>4. CASE CloseConnecting(a)
    BY <1>0, <2>0, <2>4 DEF CloseConnecting, Idle, connVars, Ordered, Finishing
  <2>5. CASE Terminate(a)
    BY <1>0, <2>0, <2>5 DEF Terminate, Idle, Finish, Ordered, Finishing
  <2>6. CASE HubDrain(a)
    BY <1>0, <2>0, <2>6 DEF HubDrain, Ordered
  <2> QED
    BY <1>2, <2>2, <2>3, <2>4, <2>5, <2>6 DEF App
<1>3. CASE Reader \/ Writer
  BY <1>0, <1>3, ReaderMoves, WriterMoves, TaskStages
<1>4. CASE EstablishEnds \/ TaskEnd
  BY <1>0, <1>4, TaskStages DEF EstablishEnds, TaskEnd, Moves
<1>5. CASE Established \/ StartLate \/ DeadlinePasses
  BY <1>5 DEF Established, StartLate, DeadlinePasses, connVars, Ordered
<1>6. ASSUME NEW rest, Start(rest) PROVE G
  BY <1>0, <1>6 DEF Start, TaskFree, Ordered, Finishing, Procs
<1> QED
  BY <1>1, <1>2, <1>3, <1>4, <1>5, <1>6 DEF Next

(* Every step keeps SocketReleased.                                        *)
LEMMA SocketStep ==
    ASSUME TypeOK, SocketReleased, Next
    PROVE  SocketReleased'
<1> SUFFICES ASSUME state' = "closed", tcp' = "up"
             PROVE  task' = "start" \/ \E p \in Procs : fin'[p] \in Finishing
  BY DEF SocketReleased, Finishing
<1>1. CASE state # "closed"
  BY <1>1, StageOrder DEF Finishing
<1>2. CASE state = "closed"
  <2>1. CASE tcp = "up"
    <3>1. CASE \E p \in Procs : fin[p] \in Finishing
      <4>1. PICK p \in Procs : fin[p] \in Finishing
        BY <3>1
      <4>2. Ordered(p)
        BY StageOrder
      <4> QED
        BY <4>1, <4>2 DEF Ordered, Finishing
    <3>2. CASE task = "start"
      <4>1. task' = task \/ StartLate
        <5>1. CASE \E p \in Procs : Ending(p)
          BY <5>1, EndingFrame DEF taskVars
        <5>2. CASE \E a \in Apps : App(a)
          BY <5>2, AppFrame DEF taskVars
        <5>3. CASE Reader \/ Writer
          BY <5>3, ReaderFrame, WriterFrame
        <5>4. CASE Established \/ EstablishEnds \/ TaskEnd \/ DeadlinePasses \/ \E rest : Start(rest)
          BY <1>2, <3>2, <5>4 DEF Established, EstablishEnds, TaskEnd, DeadlinePasses, Start, taskVars
        <5> QED
          BY <5>1, <5>2, <5>3, <5>4 DEF Next
      <4> QED
        BY <3>2, <4>1 DEF StartLate
    <3> QED
      BY <1>2, <2>1, <3>1, <3>2 DEF SocketReleased, Finishing
  <2>2. CASE tcp # "up"
    <3>1. CASE \E p \in Procs : Ending(p)
      BY <2>2, <3>1 DEF Ending, FailEmit, FailFinish, StopWriter, SignalStop, ShutIo, ioVars
    <3>2. CASE (\E a \in Apps : App(a)) \/ Reader \/ Writer
      BY <2>2, <3>2, AppFrame, ReaderFrame, WriterFrame DEF ioVars
    <3>3. CASE Established \/ EstablishEnds \/ TaskEnd \/ StartLate \/ DeadlinePasses \/ \E rest : Start(rest)
      BY <2>2, <3>3 DEF Established, EstablishEnds, TaskEnd, StartLate, DeadlinePasses, Start, ioVars
    <3> QED
      BY <3>1, <3>2, <3>3 DEF Next
  <2> QED
    BY <2>1, <2>2
<1> QED
  BY <1>1, <1>2

(* A stop that is set or coming stays so.                                  *)
LEMMA StopStays ==
    ASSUME TypeOK, Next, StopComing
    PROVE  StopComing'
<1>1. stopped => stopped'
  <2>1. CASE \E p \in Procs : Ending(p)
    BY <2>1 DEF Ending, FailEmit, FailFinish, StopWriter, SignalStop, ShutIo, ioVars
  <2>2. CASE (\E a \in Apps : App(a)) \/ Reader \/ Writer
    BY <2>2, AppFrame, ReaderFrame, WriterFrame DEF ioVars
  <2>3. CASE Established \/ EstablishEnds \/ TaskEnd \/ StartLate \/ DeadlinePasses \/ \E rest : Start(rest)
    BY <2>3 DEF Established, EstablishEnds, TaskEnd, StartLate, DeadlinePasses, Start, ioVars
  <2> QED
    BY <2>1, <2>2, <2>3 DEF Next
<1>2. ASSUME NEW p \in Procs, fin[p] \in {"stop", "signal"} PROVE StopComing'
  <2>1. Ordered(p)
    BY StageOrder
  <2> QED
    BY <1>2, <2>1 DEF Ordered, Finishing, StopComing
<1> QED
  BY <1>1, <1>2 DEF StopComing

(* A buffer that was too full for a frame is so after it grew.             *)
LEMMA StillFull ==
    ASSUME NEW len \in Nat, NEW limit \in Nat, NEW m \in Nat, NEW n \in Nat, n >= m,
           ~(m = 0 \/ m + len <= limit)
    PROVE  ~(n = 0 \/ n + len <= limit)
  OBVIOUS

(* Every step keeps NoMissedDrain: a refused send only waits while the buffer  *)
(* stays too full for it.                                                  *)
LEMMA DrainStep ==
    ASSUME TypeOK, NoMissedDrain, Next
    PROVE  NoMissedDrain'
<1>0. drain \in Nat /\ buffered \in Nat /\ Buffer \in Nat
  BY LinkAssumption DEF TypeOK, QueueTypes
<1>1. ASSUME done => done', drain' = drain, buffered' \in Nat, buffered' >= buffered PROVE NoMissedDrain'
  <2>1. ~Fits(drain) => ~Fits(drain)'
    <3>1. drain' = drain /\ buffered' \in Nat /\ buffered' >= buffered
      BY <1>1
    <3> QED
      BY <1>0, <3>1, StillFull DEF Fits
  <2> QED
    BY <1>1, <2>1, Zenon DEF NoMissedDrain
<1>2. ASSUME NEW frames \in Seq(Units), NEW shut, Enqueue(frames, shut)
      PROVE  buffered' \in Nat /\ buffered' >= buffered
  <2>1. Len(frames) \in Nat
    OBVIOUS
  <2>2. buffered' = buffered + Len(frames) \/ buffered' = buffered
    BY <1>2 DEF Enqueue
  <2> QED
    BY <1>0, <2>1, <2>2
<1>3. ASSUME NEW p \in Procs, Ending(p) PROVE NoMissedDrain'
  <2>1. done => done'
    BY <1>3 DEF Ending, FailEmit, FailFinish, StopWriter, SignalStop, ShutIo, queueVars
  <2> QED
    BY <1>0, <1>1, <1>3, <2>1, EndingFrame
<1>4. CASE Reader
  <2>1. buffered' \in Nat /\ buffered' >= buffered
    <3>0. <<Unit("pong", pings + 1)>> \in Seq(Units) /\ Reply \in Seq(Units) /\ <<Unit("hb", 0)>> \in Seq(Units)
      <4>1. pings + 1 \in Nat
        BY DEF TypeOK, TaskTypes
      <4> QED
        BY <4>1, Frames DEF NoShut, Reply
    <3>1. CASE UNCHANGED buffered
      BY <1>0, <3>1
    <3>2. CASE HandlePing
      BY <1>2, <3>0, <3>1, <3>2 DEF HandlePing, AnswerPing
    <3>3. CASE HandleClose
      BY <1>2, <3>0, <3>1, <3>3 DEF HandleClose, queueVars
    <3>4. CASE Violate
      BY <1>2, <3>0, <3>1, <3>4 DEF Violate, queueVars
    <3>5. CASE Beat
      BY <1>2, <3>0, <3>1, <3>5 DEF Beat
    <3>6. CASE Reader /\ ~HandlePing /\ ~HandleClose /\ ~Violate /\ ~Beat
      BY <3>1, <3>6 DEF Reader, ReaderRuns, ReadTop, HandleText, HandlePong, HandleBad, Check, Flush, ReadDone,
         ReaderWakes, WakeStopped, TimerDeadline, FlushWake, WakeNotified, ReadEnds, TimerHeartbeat, ReadChunk,
         queueVars
    <3> QED
      BY <1>4, <3>2, <3>3, <3>4, <3>5, <3>6
  <2> QED
    BY <1>1, <1>4, <2>1, ReaderFrame
<1>5. CASE Writer
  <2>1. CASE WriteUnit
    BY <1>0, <2>1 DEF WriteUnit, Room, NoMissedDrain, Fits
  <2>2. CASE FlushPong
    <3>1. <<Unit("pong", pong)>> \in Seq(Units)
      BY Frames DEF NoShut, TypeOK, QueueTypes
    <3> QED
      <4>1. UNCHANGED <<done, drain>> /\ (Enqueue(<<Unit("pong", pong)>>, FALSE) \/ UNCHANGED buffered)
        BY <2>2 DEF FlushPong
      <4>2. UNCHANGED buffered => buffered' \in Nat /\ buffered' >= buffered
        BY <1>0
      <4>3. buffered' \in Nat /\ buffered' >= buffered
        BY <1>2, <3>1, <4>1, <4>2, Zenon
      <4> QED
        BY <1>1, <4>1, <4>3
  <2>3. CASE Writer /\ ~WriteUnit /\ ~FlushPong
    <3>1. UNCHANGED <<drain, buffered, done>>
      BY <2>3 DEF Writer, WriterRuns, WriterNet, Swap, WakeReady, EmitDrain, WriterStops, TlsFlush, WriteShutdown, WriteFails, queueVars
    <3> QED
      BY <3>1 DEF NoMissedDrain, Fits
  <2> QED
    BY <1>5, <2>1, <2>2, <2>3
<1>6. CASE Established \/ EstablishEnds \/ TaskEnd \/ StartLate \/ DeadlinePasses \/ \E rest : Start(rest)
  <2>1. UNCHANGED <<drain, buffered, done>>
    BY <1>6 DEF Established, EstablishEnds, TaskEnd, StartLate, DeadlinePasses, Start, queueVars
  <2> QED
    BY <2>1 DEF NoMissedDrain, Fits
<1>7. ASSUME NEW a \in Apps, App(a) PROVE NoMissedDrain'
  <2>0. want[a] \in Nat
    BY DEF TypeOK, AppTypes
  <2>1. ASSUME NEW len \in Lens, Send(a, len) PROVE NoMissedDrain'
    <3>1. DataFrame(len) \in Seq(Units)
      BY LinkAssumption, Frames DEF NoShut
    <3>2. UNCHANGED <<drain, done>> /\ (Enqueue(DataFrame(len), FALSE) \/ UNCHANGED buffered)
      BY <2>1 DEF Send
    <3>3. UNCHANGED buffered => buffered' \in Nat /\ buffered' >= buffered
      BY <1>0
    <3>4. buffered' \in Nat /\ buffered' >= buffered
      BY <1>2, <3>1, <3>2, <3>3, Zenon
    <3> QED
      BY <1>1, <3>2, <3>4
  <2>2. CASE SendFull(a)
    <3>1. CASE Recheck(want[a])
      <4>1. DataFrame(want[a]) \in Seq(Units)
        BY <2>0, Frames DEF NoShut
      <4> QED
        BY <1>1, <1>2, <2>2, <3>1, <4>1 DEF SendFull
    <3>2. CASE ~Recheck(want[a])
      BY <2>2, <3>2 DEF SendFull, Recheck, NoMissedDrain, Fits
    <3> QED
      BY <3>1, <3>2
  <2>3. CASE CloseOpen(a)
    <3>1. CloseFrame \in Seq(Units)
      BY Frames DEF NoShut
    <3> QED
      BY <1>1, <1>2, <2>3, <3>1 DEF CloseOpen
  <2>4. CASE CloseConnecting(a) \/ CloseNotify(a) \/ Terminate(a) \/ Recv(a) \/ HubClose(a) \/ HubDrain(a)
    <3>1. UNCHANGED <<drain, buffered, done>>
      BY <2>4 DEF CloseConnecting, CloseNotify, Terminate, Recv, HubClose, HubDrain, queueVars
    <3> QED
      BY <3>1 DEF NoMissedDrain, Fits
  <2> QED
    BY <1>7, <2>1, <2>2, <2>3, <2>4 DEF App
<1> QED
  BY <1>3, <1>4, <1>5, <1>6, <1>7 DEF Next

(* A permit is only taken by the future it wakes. *)
LEMMA PermitsStay ==
    ASSUME Next
    PROVE  /\ "ready" \in permits => "ready" \in permits' \/ wr' = "swap"
           /\ "consumed" \in permits => "consumed" \in permits' \/ rd' = "top"
           /\ "changed" \in permits => "changed" \in permits' \/ rd' = "top"
           /\ "drained" \in permits => "drained" \in permits' \/ rd' = "flush"
<1>1. CASE permits \subseteq permits'
  BY <1>1
<1>2. CASE \E p \in Procs : Ending(p)
  BY <1>1, <1>2 DEF Ending, FailEmit, FailFinish, StopWriter, SignalStop, ShutIo
<1>3. CASE \E a \in Apps : App(a)
  BY <1>1, <1>3 DEF App, Send, SendFull, CloseOpen, CloseConnecting, CloseNotify, Terminate, Recv, HubClose, HubDrain
<1>4. CASE ReaderRuns
  <2>1. CASE HandlePing
    BY <1>1, <2>1 DEF HandlePing, AnswerPing
  <2>2. CASE HandleClose
    BY <1>1, <2>2 DEF HandleClose
  <2>4. CASE Violate
    BY <1>1, <2>4 DEF Violate
  <2>5. CASE Beat
    BY <1>1, <2>5 DEF Beat
  <2>3. CASE ReadTop \/ HandleText \/ HandlePong \/ HandleBad \/ Check \/ Flush \/ ReadDone
    BY <1>1, <2>3 DEF ReadTop, HandleText, HandlePong, HandleBad, Check, Flush, ReadDone
  <2> QED
    BY <1>4, <2>1, <2>2, <2>3, <2>4, <2>5 DEF ReaderRuns
<1>5. CASE WakeStopped \/ TimerDeadline \/ ReadEnds \/ TimerHeartbeat \/ \E chunk \in Chunks : ReadChunk(chunk)
  BY <1>1, <1>5 DEF WakeStopped, TimerDeadline, ReadEnds, TimerHeartbeat, ReadChunk
<1>6. CASE FlushWake
  BY <1>6 DEF FlushWake
<1>7. ASSUME NEW permit \in {"changed", "consumed"}, WakeNotified(permit)
      PROVE  permits' = permits \ {permit} /\ rd' = "top"
  BY <1>7 DEF WakeNotified, Resume
<1>8. CASE Writer
  BY <1>8 DEF Writer, WriterRuns, WriterNet, Swap, WakeReady, FlushPong, EmitDrain, WriterStops,
         TlsFlush, WriteUnit, WriteShutdown, WriteFails
<1>9. CASE Established \/ EstablishEnds \/ TaskEnd \/ StartLate \/ DeadlinePasses \/ \E rest : Start(rest)
  BY <1>1, <1>9 DEF Established, EstablishEnds, TaskEnd, StartLate, DeadlinePasses, Start
<1> QED
  BY <1>2, <1>3, <1>4, <1>5, <1>6, <1>7, <1>8, <1>9 DEF Next, Reader, ReaderWakes

WriterWoken == wr = "idle" /\ (items # <<>> \/ pong # 0 \/ done) => "ready" \in permits

(* Every step keeps the writer's part of NoLostWakeup.                     *)
LEMMA WriterWokenStep ==
    ASSUME TypeOK, WriterWoken, Next
    PROVE  WriterWoken'
<1>0. items \in Seq(Units)
  BY DEF TypeOK, QueueTypes
<1>1. ASSUME wr' = wr,  UNCHANGED <<items, done>>, pong' \in {pong, 0}, permits \subseteq permits'
      PROVE  WriterWoken'
  BY <1>1 DEF WriterWoken
<1>2. CASE "ready" \in permits' \/ wr' # "idle"
  BY <1>2 DEF WriterWoken
<1>3. ASSUME NEW frames, NEW shut, Enqueue(frames, shut), UNCHANGED <<wr, done>>, pong' \in {pong, 0}, permits \cup WakeWriter \subseteq permits'
      PROVE  WriterWoken'
  BY <1>1, <1>2, <1>3 DEF Enqueue, WakeWriter
<1>4. ASSUME NEW p \in Procs, Ending(p) PROVE WriterWoken'
  BY <1>1, <1>2, <1>4, EndingFrame DEF taskVars, writeVars, Ending, FailEmit, FailFinish, StopWriter, SignalStop, ShutIo, queueVars
<1>5. ASSUME NEW a \in Apps, App(a) PROVE WriterWoken'
  <2>0. UNCHANGED <<wr, done>>
    BY <1>5, AppFrame DEF taskVars, writeVars
  <2>1. ASSUME NEW len \in Lens, Send(a, len) PROVE WriterWoken'
    BY <1>1, <1>3, <2>0, <2>1 DEF Send
  <2>2. CASE SendFull(a)
    BY <1>1, <1>3, <2>0, <2>2 DEF SendFull
  <2>3. CASE CloseOpen(a)
    BY <1>3, <2>0, <2>3 DEF CloseOpen
  <2>4. CASE CloseConnecting(a) \/ CloseNotify(a) \/ Terminate(a) \/ Recv(a) \/ HubClose(a) \/ HubDrain(a)
    BY <1>1, <2>0, <2>4 DEF CloseConnecting, CloseNotify, Terminate, Recv, HubClose, HubDrain, queueVars
  <2> QED
    BY <1>5, <2>1, <2>2, <2>3, <2>4 DEF App
<1>6. CASE Reader
  <2>0. UNCHANGED <<wr, done>>
    BY <1>6, ReaderFrame DEF writeVars
  <2>1. CASE HandlePing
    BY <1>1, <1>2, <1>3, <2>0, <2>1 DEF HandlePing, AnswerPing
  <2>2. CASE HandleClose
    <3>1. CASE state = "closed" \/ received # NoCode
      BY <1>1, <2>0, <2>2, <3>1 DEF HandleClose, queueVars
    <3>2. CASE ~(state = "closed" \/ received # NoCode) /\ (Reply # <<>> \/ server)
      BY <1>3, <2>0, <2>2, <3>2 DEF HandleClose
    <3>3. CASE ~(state = "closed" \/ received # NoCode) /\ ~(Reply # <<>> \/ server)
      <4>1. items' = items
        BY <1>0, <2>2, <3>3 DEF HandleClose, Enqueue
      <4> QED
        BY <1>1, <2>0, <2>2, <3>3, <4>1, SMTT(30) DEF HandleClose
    <3> QED
      BY <3>1, <3>2, <3>3
  <2>3. CASE Violate
    BY <1>1, <1>3, <2>0, <2>3 DEF Violate, queueVars
  <2>4. CASE Beat
    BY <1>1, <1>3, <2>0, <2>4 DEF Beat
  <2>5. CASE Reader /\ ~HandlePing /\ ~HandleClose /\ ~Violate /\ ~Beat
    <3>1. UNCHANGED <<items, pong>>
      BY <2>5 DEF Reader, ReaderRuns, ReadTop, HandleText, HandlePong, HandleBad, Check, Flush, ReadDone,
         ReaderWakes, WakeStopped, TimerDeadline, FlushWake, WakeNotified, ReadEnds, TimerHeartbeat, ReadChunk,
         queueVars
    <3> QED
      BY <2>0, <3>1, PermitsStay DEF WriterWoken
  <2> QED
    BY <1>6, <2>1, <2>2, <2>3, <2>4, <2>5
<1>7. CASE Writer
  <2>1. CASE Swap
    BY <2>1 DEF Swap, WriterGone, WriterWoken
  <2>2. CASE ~Swap
    <3>1. wr' # "idle"
      BY <1>7, <2>2 DEF Writer, WriterRuns, WriterNet, WakeReady, FlushPong, EmitDrain, WriterStops,
         TlsFlush, WriteUnit, WriteShutdown, WriteFails, WriterGone, Batch
    <3> QED
      BY <1>2, <3>1
  <2> QED
    BY <2>1, <2>2
<1>8. CASE Established \/ EstablishEnds \/ TaskEnd \/ StartLate \/ DeadlinePasses \/ \E rest : Start(rest)
  <2>1. UNCHANGED <<queueVars, permits>> /\ wr' \in {wr, "swap", "done"}
    BY <1>8 DEF Established, EstablishEnds, TaskEnd, StartLate, DeadlinePasses, Start, WriterGone, taskVars, writeVars
  <2> QED
    BY <1>1, <1>2, <2>1 DEF queueVars
<1> QED
  BY <1>4, <1>5, <1>6, <1>7, <1>8 DEF Next

ReaderWoken ==
    /\ rd = "inbox" /\ inbox < InboxLimit => "consumed" \in permits
    /\ rd = "inbox" /\ state = "closing" => "changed" \in permits
    /\ rd = "net" /\ deadline # "none" => armed = "deadline" \/ "changed" \in permits

(* Every step keeps the reader's part of NoLostWakeup.                     *)
LEMMA ReaderWokenStep ==
    ASSUME TypeOK, ReaderWoken, Next
    PROVE  ReaderWoken'
<1>0. inbox \in Int /\ InboxLimit \in Nat /\ deadline \in {"none", "set", "passed"}
  BY LinkAssumption DEF TypeOK, CloseTypes
<1>1. ASSUME UNCHANGED <<rd, armed, inbox>>, state' = state \/ state' # "closing",
             deadline' = deadline \/ deadline # "none"
      PROVE  ReaderWoken'
  BY <1>1, PermitsStay DEF ReaderWoken
<1>2. ASSUME NEW p \in Procs, Ending(p) PROVE ReaderWoken'
  <2>1. state' = state \/ state' = "closed"
    BY <1>2 DEF Ending, FailEmit, FailFinish, Finish, StopWriter, SignalStop, ShutIo, connVars
  <2> QED
    BY <1>1, <1>2, <2>1, EndingFrame DEF taskVars, readVars, closeVars
<1>3. CASE Writer
  <2>1. state' = state \/ state' = "closed"
    BY <1>3 DEF Writer, WriterRuns, WriterNet, Swap, WakeReady, FlushPong, EmitDrain, WriterStops,
         TlsFlush, WriteUnit, WriteShutdown, WriteFails, Emit, Finish, connVars
  <2> QED
    BY <1>1, <1>3, <2>1, WriterFrame DEF closeVars
<1>4. CASE DeadlinePasses \/ Established \/ EstablishEnds \/ StartLate
  <2>1. UNCHANGED <<rd, armed, inbox>> /\ (state' = state \/ state' = "closed")
    BY <1>4 DEF DeadlinePasses, Established, EstablishEnds, StartLate, taskVars, readVars, connVars, Finish
  <2>2. deadline' = deadline \/ deadline # "none"
    BY <1>4 DEF DeadlinePasses, Established, EstablishEnds, StartLate, closeVars
  <2> QED
    BY <1>1, <2>1, <2>2
<1>5. CASE TaskEnd
  BY <1>5 DEF TaskEnd, ReaderGone, ReaderWoken
<1>6. ASSUME NEW rest, Start(rest) PROVE ReaderWoken'
  BY <1>1, <1>6 DEF Start, closeVars, ReaderWoken
<1>7. CASE Reader
  <2>1. CASE Check
    <3>1. UNCHANGED <<inbox, state, deadline>>
      BY <2>1 DEF Check, connVars, closeVars
    <3>2. \/ rd' \notin {"inbox", "net"}
          \/ rd' = "inbox" /\ state = "open" /\ inbox >= InboxLimit
          \/ rd' = "net" /\ (deadline = "set" => armed' = "deadline") /\ deadline # "passed"
      BY <2>1 DEF Check, Leave, Throttled
    <3> QED
      BY <1>0, <3>1, <3>2 DEF ReaderWoken
  <2>2. CASE ~Check
    <3>1. rd' \notin {"inbox", "net"}
      <4>1. CASE HandleText \/ HandlePong \/ HandlePing \/ HandleClose \/ Violate
        BY <4>1 DEF HandleText, HandlePong, HandlePing, HandleClose, Violate, Handled, AfterDispatch
      <4>2. CASE ReadTop \/ HandleBad \/ Beat \/ Flush \/ FlushWake \/ ReadDone
        BY <4>2 DEF ReadTop, HandleBad, Beat, Flush, FlushWake, ReadDone, ReaderGone, Resume, Leave
      <4>3. CASE ~ReaderRuns /\ ~FlushWake
        BY <1>7, <4>3 DEF Reader, ReaderWakes, WakeStopped, TimerDeadline, WakeNotified, ReadEnds,
           TimerHeartbeat, ReadChunk, Leave, Resume
      <4> QED
        BY <1>7, <2>2, <4>1, <4>2, <4>3 DEF ReaderRuns
    <3> QED
      BY <3>1 DEF ReaderWoken
  <2> QED
    BY <2>1, <2>2
<1>8. ASSUME NEW a \in Apps, App(a) PROVE ReaderWoken'
  <2>0. UNCHANGED <<rd, armed>>
    BY <1>8, AppFrame DEF taskVars, readVars
  <2>1. CASE CloseOpen(a)
    BY <2>0, <2>1, PermitsStay DEF CloseOpen, ReaderWoken
  <2>2. CASE Recv(a)
    BY <2>0, <2>2, PermitsStay DEF Recv, closeVars, ReaderWoken
  <2>3. CASE App(a) /\ ~CloseOpen(a) /\ ~Recv(a)
    <3>1. UNCHANGED <<inbox, deadline>> /\ (state' = state \/ state' = "closed")
      BY <2>3 DEF App, Send, SendFull, CloseConnecting, CloseNotify, Terminate, HubClose, HubDrain, Finish, connVars, closeVars
    <3> QED
      BY <1>1, <2>0, <3>1
  <2> QED
    BY <1>8, <2>1, <2>2, <2>3
<1> QED
  BY <1>2, <1>3, <1>4, <1>5, <1>6, <1>7, <1>8 DEF Next

FlushWoken == rd = "flushing" /\ ~Pending => "drained" \in permits \/ StopComing

(* Every step keeps the part of NoLostWakeup about flush_close().          *)
LEMMA FlushWokenStep ==
    ASSUME TypeOK, FlushWoken, Next
    PROVE  FlushWoken'
<1>0. buffered \in Nat /\ Buffer \in Nat
  BY LinkAssumption DEF TypeOK, QueueTypes
<1>1. ASSUME rd' = rd, Pending => Pending' PROVE FlushWoken'
  BY <1>1, PermitsStay, StopStays DEF FlushWoken
<1>2. ASSUME UNCHANGED <<done, buffered, shutdown>> PROVE Pending => Pending'
  BY <1>2 DEF Pending
<1>3. ASSUME NEW frames \in Seq(Units), NEW shut, Enqueue(frames, shut), UNCHANGED done
      PROVE  Pending => Pending'
  <2>1. Len(frames) \in Nat
    OBVIOUS
  <2>2. buffered' = buffered + Len(frames) \/ buffered' = buffered
    BY <1>3 DEF Enqueue
  <2>3. buffered > 0 => buffered' > 0
    BY <1>0, <2>1, <2>2
  <2>4. shutdown => shutdown'
    BY <1>3, Zenon DEF Enqueue
  <2> QED
    BY <1>3, <2>3, <2>4, Zenon DEF Pending
<1>4. ASSUME NEW p \in Procs, Ending(p) PROVE FlushWoken'
  <2>0. rd' = rd /\ fin \in [Procs -> Stages]
    BY <1>4, EndingFrame DEF taskVars, readVars, TypeOK, AppTypes
  <2>1. CASE StopWriter(p)
    BY <2>0, <2>1 DEF StopWriter, FlushWoken, StopComing
  <2>2. CASE ~StopWriter(p)
    <3>1. UNCHANGED <<done, buffered, shutdown>>
      BY <1>4, <2>2 DEF Ending, FailEmit, FailFinish, SignalStop, ShutIo, queueVars
    <3> QED
      BY <1>1, <1>2, <2>0, <3>1
  <2> QED
    BY <2>1, <2>2
<1>5. ASSUME NEW a \in Apps, App(a) PROVE FlushWoken'
  <2>0. rd' = rd /\ done' = done /\ want[a] \in Nat
    BY <1>5, AppFrame DEF taskVars, readVars, TypeOK, AppTypes
  <2>1. ASSUME NEW len \in Nat, Enqueue(DataFrame(len), FALSE) \/ Enqueue(CloseFrame, FALSE) PROVE FlushWoken'
    <3>1. DataFrame(len) \in Seq(Units) /\ CloseFrame \in Seq(Units)
      BY Frames DEF NoShut
    <3>2. Pending => Pending'
      BY <1>3, <2>0, <2>1, <3>1, Zenon
    <3> QED
      BY <1>1, <2>0, <3>2
  <2>2. CASE UNCHANGED <<buffered, shutdown>>
    BY <1>1, <1>2, <2>0, <2>2
  <2>3. ASSUME NEW len \in Lens, Send(a, len) PROVE FlushWoken'
    <3>1. len \in Nat
      BY LinkAssumption
    <3> QED
      BY <2>1, <2>2, <2>3, <3>1, Zenon DEF Send
  <2>4. CASE SendFull(a)
    BY <2>0, <2>1, <2>2, <2>4, Zenon DEF SendFull
  <2>5. CASE CloseOpen(a)
    <3>1. 0 \in Nat /\ Enqueue(CloseFrame, FALSE)
      BY <2>5 DEF CloseOpen
    <3> QED
      BY <2>1, <3>1, Zenon
  <2>6. CASE CloseConnecting(a) \/ CloseNotify(a) \/ Terminate(a) \/ Recv(a) \/ HubClose(a) \/ HubDrain(a)
    BY <2>2, <2>6 DEF CloseConnecting, CloseNotify, Terminate, Recv, HubClose, HubDrain, queueVars
  <2> QED
    BY <1>5, <2>3, <2>4, <2>5, <2>6 DEF App
<1>6. CASE Reader
  <2>1. CASE Flush
    BY <2>1 DEF Flush, queueVars, Pending, FlushWoken
  <2>2. CASE ~Flush
    <3>1. rd' # "flushing"
      <4>1. CASE HandleText \/ HandlePong \/ HandlePing \/ HandleClose \/ Violate
        BY <4>1 DEF HandleText, HandlePong, HandlePing, HandleClose, Violate, Handled, AfterDispatch
      <4>2. CASE ReadTop \/ HandleBad \/ Beat \/ Check \/ FlushWake \/ ReadDone
        BY <4>2 DEF ReadTop, HandleBad, Beat, Check, FlushWake, ReadDone, ReaderGone, Resume, Leave
      <4>3. CASE ~ReaderRuns /\ ~FlushWake
        BY <1>6, <4>3 DEF Reader, ReaderWakes, WakeStopped, TimerDeadline, WakeNotified, ReadEnds,
           TimerHeartbeat, ReadChunk, Leave, Resume
      <4> QED
        BY <1>6, <2>2, <4>1, <4>2, <4>3 DEF ReaderRuns
    <3> QED
      BY <3>1 DEF FlushWoken
  <2> QED
    BY <2>1, <2>2
<1>7. CASE Writer
  <2>0. rd' = rd /\ done' = done
    BY <1>7, WriterFrame
  <2>1. CASE WriteUnit \/ WriteShutdown
    BY <2>1 DEF WriteUnit, WriteShutdown, FlushWoken
  <2>2. CASE FlushPong
    <3>1. <<Unit("pong", pong)>> \in Seq(Units)
      BY Frames DEF NoShut, TypeOK, QueueTypes
    <3>2. Enqueue(<<Unit("pong", pong)>>, FALSE) \/ UNCHANGED <<buffered, shutdown>>
      BY <2>2 DEF FlushPong
    <3>3. Pending => Pending'
      BY <1>2, <1>3, <2>0, <3>1, <3>2, Zenon
    <3> QED
      BY <1>1, <2>0, <3>3
  <2>3. CASE Writer /\ ~WriteUnit /\ ~WriteShutdown /\ ~FlushPong
    <3>1. UNCHANGED <<buffered, shutdown>>
      BY <2>3 DEF Writer, WriterRuns, WriterNet, Swap, WakeReady, EmitDrain, WriterStops, TlsFlush, WriteFails, queueVars
    <3> QED
      BY <1>1, <1>2, <2>0, <3>1
  <2> QED
    BY <1>7, <2>1, <2>2, <2>3
<1>8. CASE Established \/ EstablishEnds \/ TaskEnd \/ StartLate \/ DeadlinePasses \/ \E rest : Start(rest)
  <2>1. UNCHANGED <<done, buffered, shutdown>>
    BY <1>8 DEF Established, EstablishEnds, TaskEnd, StartLate, DeadlinePasses, Start, queueVars
  <2>2. rd' \in {rd, "done", "top"}
    BY <1>8 DEF Established, EstablishEnds, TaskEnd, StartLate, DeadlinePasses, Start, ReaderGone, taskVars, readVars
  <2> QED
    BY <1>1, <1>2, <2>1, <2>2 DEF FlushWoken
<1> QED
  BY <1>4, <1>5, <1>6, <1>7, <1>8 DEF Next

(* Every step keeps NoLostWakeup.                                          *)
LEMMA WakeupStep ==
    ASSUME TypeOK, NoLostWakeup, Next
    PROVE  NoLostWakeup'
<1>1. WriterWoken' /\ ReaderWoken' /\ FlushWoken'
  BY WriterWokenStep, ReaderWokenStep, FlushWokenStep DEF NoLostWakeup, WriterWoken, ReaderWoken, FlushWoken
<1>2. state' = "closed" => StopComing'
  <2>1. CASE state = "closed"
    BY <2>1, StopStays DEF NoLostWakeup
  <2>2. CASE state # "closed"
    BY <2>2, StageOrder DEF StopComing
  <2> QED
    BY <2>1, <2>2
<1> QED
  BY <1>1, <1>2 DEF NoLostWakeup, WriterWoken, ReaderWoken, FlushWoken

=============================================================================
