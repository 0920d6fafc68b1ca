----------------------------- MODULE LinkClose -----------------------------
(*****************************************************************************)
(* The closing handshake on the wire: our close frame is the last frame but *)
(* for pongs, the FIN the last thing, and both leave before the connection  *)
(* ends in time.                                                            *)
(*****************************************************************************)
EXTENDS LinkTheorems

(* A step that leaves the line and the closing flags alone.                *)
LEMMA LineFrame ==
    ASSUME LineInv, UNCHANGED <<Line, outClose, outShut, sentClose, received, failed>>,
           done => done', wr = "done" => wr' = "done"
    PROVE  LineInv'
  BY DEF LineInv, Answered

(* A writer that ends drops its batch, and stop_writer() the rest.         *)
LEMMA LineDrops ==
    ASSUME QueueTypes, LineInv, UNCHANGED <<outClose, outShut, sentClose, received, failed>>,
           \/ held' = <<>> /\ items' = items /\ wr' = "done"
           \/ items' = <<>> /\ held' = held /\ done'
    PROVE  LineInv'
<1>0. held \in Seq(Units) /\ items \in Seq(Units)
  BY DEF QueueTypes
<1>1. Line' = held \/ Line' = items
  BY <1>0 DEF Line
<1>2. /\ Ended(held) /\ Ended(items)
      /\ AfterClose(Line) => AfterClose(held) /\ AfterClose(items)
      /\ HasClose(held) \/ HasClose(items) => HasClose(Line)
      /\ Line = <<>> => held = <<>> /\ items = <<>>
  BY <1>0, EndedPart DEF Line, LineInv
<1> QED
  BY <1>1, <1>2 DEF LineInv, Answered

(* Writing the head of the batch, be it a frame or the shutdown.           *)
LEMMA LineTakes ==
    ASSUME QueueTypes, QueueInv, LineInv, wr = "write", held' = Tail(held), wr' # "done",
           UNCHANGED <<items, done, sentClose, received, failed>>,
           outClose' <=> outClose \/ Head(held).op = "close",
           outShut' <=> outShut \/ Head(held).op = "shutdown"
    PROVE  LineInv'
<1>0. held \in Seq(Units) /\ items \in Seq(Units) /\ held # <<>> /\ Line \in Seq(Units) /\ Len(held) > 0
  BY DEF QueueTypes, QueueInv, Line
<1>1. Line # <<>> /\ Head(Line) = Head(held) /\ Tail(Line) = Tail(held) \o items
  BY <1>0 DEF Line
<1>2. Line' = Tail(Line)
  BY <1>1 DEF Line
<1>3. Head(held).op = "shutdown" => Answered
  BY <1>0 DEF QueueInv
<1>4. /\ Ended(Tail(Line))
      /\ AfterClose(Line) \/ Head(Line).op = "close" => AfterClose(Tail(Line))
      /\ Head(Line).op = "shutdown" => Tail(Line) = <<>>
      /\ HasClose(Line) <=> Head(Line).op = "close" \/ HasClose(Tail(Line))
  BY <1>0, <1>1, EndedTake DEF LineInv
<1> QED
  BY <1>1, <1>2, <1>3, <1>4 DEF LineInv, Answered

(* Application calls keep the line's end: data is queued only while        *)
(* sent_close is not set, which a thread that holds flags relies on.       *)
LEMMA AppLine ==
    ASSUME TypeOK, ClosingInv, QueueInv, LineInv, HasSocket, NEW a \in Apps, App(a)
    PROVE  LineInv'
<1>0. QueueTypes /\ want[a] \in Nat
  BY DEF TypeOK, AppTypes
<1>1. UNCHANGED <<received, failed, done, held, wr, outClose, outShut>>
  BY AppFrame DEF taskVars, writeVars, outVars
<1>2. state = "open" => ~Answered /\ ~sentClose /\ tcp # "none"
  BY DEF ClosingInv, ClosingIsArmed, HasSocket
<1>3. CASE UNCHANGED <<items, sentClose>>
  BY <1>1, <1>3, LineFrame DEF Line
<1>4. ASSUME NEW frames, NoShut(frames), Ended(frames), Enqueue(frames, FALSE), state = "open",
             sentClose' <=> HasClose(frames)
      PROVE  LineInv'
  BY <1>0, <1>1, <1>2, <1>4, EnqueueEnds
<1>5. ASSUME NEW len \in Lens, Send(a, len) PROVE LineInv'
  <2>1. CASE Fits(len)
    <3>1. len \in Nat /\ UNCHANGED sentClose /\ state = "open" /\ Enqueue(DataFrame(len), FALSE)
      BY <1>5, <2>1, LinkAssumption DEF Send, closeVars
    <3> QED
      BY <1>2, <1>4, <3>1, Frames, FramesEnded
  <2>2. CASE ~Fits(len)
    BY <1>3, <1>5, <2>2 DEF Send, closeVars
  <2> QED
    BY <2>1, <2>2
<1>6. CASE SendFull(a)
  <2>1. CASE Recheck(want[a])
    <3>1. UNCHANGED sentClose /\ state = "open" /\ Enqueue(DataFrame(want[a]), FALSE)
      BY <1>6, <2>1 DEF SendFull, closeVars, ClosingInv
    <3> QED
      BY <1>0, <1>2, <1>4, <3>1, Frames, FramesEnded
  <2>2. CASE ~Recheck(want[a])
    BY <1>3, <1>6, <2>2 DEF SendFull, closeVars
  <2> QED
    BY <2>1, <2>2
<1>7. CASE CloseOpen(a)
  BY <1>4, <1>7, Frames, FramesEnded DEF CloseOpen
<1>8. CASE CloseConnecting(a) \/ CloseNotify(a) \/ Terminate(a) \/ Recv(a) \/ HubClose(a) \/ HubDrain(a)
  BY <1>3, <1>8 DEF CloseConnecting, CloseNotify, Terminate, Recv, HubClose, HubDrain, queueVars, closeVars
<1> QED
  BY <1>5, <1>6, <1>7, <1>8 DEF App

(* The reader answers pings, also behind our close frame, and closes at    *)
(* most once.                                                              *)
LEMMA ReaderLine ==
    ASSUME TypeOK, ClosingInv, QueueInv, LineInv, HasSocket, Reader
    PROVE  LineInv'
<1>0. QueueTypes /\ pings \in Nat
  BY DEF TypeOK, TaskTypes
<1>1. UNCHANGED <<done, held, wr, outClose, outShut>> /\ tcp # "none"
  BY ReaderFrame, ReaderMoves DEF writeVars, outVars, HasSocket
<1>2. CASE UNCHANGED <<items, sentClose, received, failed>>
  BY <1>1, <1>2, LineFrame DEF Line
<1>3. ASSUME NEW frames, NoShut(frames), Ended(frames), sentClose => AfterClose(frames),
             NEW shut \in BOOLEAN, Enqueue(frames, shut), ~Answered,
             sentClose' <=> sentClose \/ HasClose(frames)
      PROVE  LineInv'
  BY <1>0, <1>1, <1>3, EnqueueEnds
<1>4. CASE HandlePing
  <2>1. UNCHANGED <<received, failed, sentClose>>
    BY <1>4 DEF HandlePing, closeVars
  <2>2. CASE ~MayPong \/ ~(buffered < PongLimit)
    BY <1>2, <1>4, <2>1, <2>2 DEF HandlePing, AnswerPing
  <2>3. CASE MayPong /\ buffered < PongLimit
    <3>1. Enqueue(<<Unit("pong", pings + 1)>>, FALSE)
      BY <1>4, <2>3, Zenon DEF HandlePing, AnswerPing
    <3>2. ~Answered
      BY <2>3 DEF MayPong, Answered
    <3>3. pings + 1 \in Nat
      BY <1>0
    <3> QED
      BY <1>3, <2>1, <3>1, <3>2, <3>3, Frames, FramesEnded
  <2> QED
    BY <2>2, <2>3
<1>5. /\ NoShut(Reply) /\ Ended(Reply) /\ server \in BOOLEAN /\ (sentClose => AfterClose(Reply))
      /\ sentClose \/ HasClose(Reply)
  BY Frames, FramesEnded DEF Reply, TypeOK, AppTypes
<1>6. CASE HandleClose
  <2>1. CASE state = "closed" \/ received # NoCode
    BY <1>2, <1>6, <2>1 DEF HandleClose, closeVars, queueVars
  <2>2. CASE ~(state = "closed" \/ received # NoCode)
    <3>1. ~Answered
      BY <1>6 DEF HandleClose, Handling, ClosingInv
    <3>2. sentClose' /\ Enqueue(Reply, server)
      BY <1>6, <2>2 DEF HandleClose
    <3> QED
      BY <1>3, <1>5, <3>1, <3>2
  <2> QED
    BY <2>1, <2>2
<1>7. CASE Violate
  <2>1. CASE state = "closed"
    BY <1>2, <1>7, <2>1 DEF Violate, closeVars, queueVars
  <2>2. CASE state # "closed"
    <3>1. ~Answered
      BY <1>7 DEF Violate, ClosingInv
    <3>2. sentClose' /\ Enqueue(Reply, TRUE)
      BY <1>7, <2>2 DEF Violate
    <3> QED
      BY <1>3, <1>5, <3>1, <3>2
  <2> QED
    BY <2>1, <2>2
<1>8. CASE Beat
  <2>1. CASE StillOpen
    <3>1. ~Answered /\ ~sentClose
      BY <2>1 DEF StillOpen, ClosingInv, ClosingIsArmed
    <3>2. Enqueue(<<Unit("hb", 0)>>, FALSE) /\ UNCHANGED sentClose
      BY <1>8, <2>1 DEF Beat, closeVars
    <3> QED
      BY <1>3, <3>1, <3>2, Frames, FramesEnded
  <2>2. CASE ~StillOpen
    BY <1>2, <1>8, <2>2 DEF Beat, closeVars
  <2> QED
    BY <2>1, <2>2
<1>9. CASE Reader /\ ~HandlePing /\ ~HandleClose /\ ~Violate /\ ~Beat
  BY <1>2, <1>9 DEF Reader, ReaderRuns, ReadTop, HandleText, HandlePong, HandleBad, Check, Flush, ReadDone,
         ReaderWakes, WakeStopped, TimerDeadline, FlushWake, WakeNotified, ReadEnds, TimerHeartbeat, ReadChunk,
         closeVars, queueVars
<1> QED
  BY <1>4, <1>6, <1>7, <1>8, <1>9

(* The writer keeps the line's end.                                        *)
LEMMA WriterLine ==
    ASSUME TypeOK, QueueInv, LineInv, HasSocket, Writer
    PROVE  LineInv'
<1>0. QueueTypes /\ held \in Seq(Units) /\ items \in Seq(Units)
  BY DEF TypeOK, QueueTypes
<1>1. UNCHANGED <<done, sentClose, received, failed>> /\ tcp # "none"
  BY WriterFrame, WriterMoves DEF closeVars, HasSocket
<1>2. CASE Swap /\ ~done
  <2>1. held' = items /\ items' = <<>> /\ held = <<>> /\ UNCHANGED <<outClose, outShut>> /\ wr = "swap"
    BY <1>2 DEF Swap, QueueInv, outVars
  <2>2. Line' = Line
    BY <1>0, <2>1 DEF Line
  <2> QED
    BY <1>1, <2>1, <2>2, LineFrame
<1>3. CASE WakeReady \/ TlsFlush \/ EmitDrain
  <2>1. UNCHANGED <<items, held, outClose, outShut>> /\ wr # "done"
    BY <1>3 DEF WakeReady, TlsFlush, EmitDrain, queueVars, outVars
  <2> QED
    BY <1>1, <2>1, LineFrame DEF Line
<1>4. CASE FlushPong
  <2>1. UNCHANGED <<held, outClose, outShut>> /\ wr = "pong"
    BY <1>4 DEF FlushPong, outVars
  <2>2. CASE MayPong /\ pong # 0
    <3>1. Enqueue(<<Unit("pong", pong)>>, FALSE) /\ ~Answered
      BY <1>4, <2>2 DEF FlushPong, MayPong, Answered
    <3>2. pong \in Nat
      BY <1>0 DEF QueueTypes
    <3> QED
      BY <1>0, <1>1, <2>1, <3>1, <3>2, Frames, FramesEnded, EnqueueEnds
  <2>3. CASE ~(MayPong /\ pong # 0)
    <3>1. UNCHANGED items
      BY <1>4, <2>3 DEF FlushPong
    <3> QED
      BY <1>1, <2>1, <3>1, LineFrame DEF Line
  <2> QED
    BY <2>2, <2>3
<1>5. CASE WriteUnit
  <2>1. /\ wr = "write" /\ held' = Tail(held) /\ wr' # "done" /\ UNCHANGED <<items, outShut>>
        /\ outClose' <=> outClose \/ Head(held).op = "close"
        /\ Head(held).op # "shutdown"
    BY <1>5 DEF WriteUnit, Batch
  <2> QED
    BY <1>0, <1>1, <2>1, LineTakes
<1>6. CASE WriteShutdown
  <2>1. /\ wr = "write" /\ held' = Tail(held) /\ wr' # "done" /\ UNCHANGED <<items, outClose>>
        /\ outShut' /\ Head(held).op = "shutdown"
    BY <1>6 DEF WriteShutdown, Batch
  <2> QED
    BY <1>0, <1>1, <2>1, LineTakes
<1>7. CASE WriteFails \/ WriterStops \/ (Swap /\ done)
  <2>1. UNCHANGED <<items, outClose, outShut>> /\ WriterGone
    BY <1>7 DEF WriteFails, WriterStops, Swap, queueVars, outVars
  <2> QED
    BY <1>0, <1>1, <2>1, LineDrops DEF WriterGone
<1> QED
  BY <1>2, <1>3, <1>4, <1>5, <1>6, <1>7 DEF Writer, WriterRuns, WriterNet

(* Every step keeps the line's end.                                        *)
LEMMA LineStep ==
    ASSUME TypeOK, ClosingInv, QueueInv, LineInv, HasSocket, Next
    PROVE  LineInv'
<1>0. QueueTypes
  BY DEF TypeOK
<1>1. ASSUME NEW p \in Procs, Ending(p) PROVE LineInv'
  <2>1. UNCHANGED <<held, wr, outClose, outShut, sentClose, received, failed>>
    BY <1>1, EndingFrame DEF taskVars, writeVars, outVars, closeVars
  <2>2. CASE StopWriter(p)
    BY <1>0, <2>1, <2>2, LineDrops DEF StopWriter
  <2>3. CASE ~StopWriter(p)
    <3>1. UNCHANGED <<items, done>>
      BY <1>1, <2>3 DEF Ending, FailEmit, FailFinish, SignalStop, ShutIo, queueVars
    <3> QED
      BY <2>1, <3>1, LineFrame DEF Line
  <2> QED
    BY <2>2, <2>3
<1>2. CASE Established \/ EstablishEnds \/ StartLate \/ DeadlinePasses \/ \E rest : Start(rest)
  <2>1. UNCHANGED <<items, done, held, outClose, outShut, sentClose, received, failed>>
    BY <1>2 DEF Established, EstablishEnds, StartLate, DeadlinePasses, Start, closeVars, queueVars, taskVars,
                writeVars, outVars
  <2>2. wr = "done" => wr' = "done"
    BY <1>2 DEF Established, EstablishEnds, StartLate, DeadlinePasses, Start, taskVars, writeVars, QueueInv
  <2> QED
    BY <2>1, <2>2, LineFrame DEF Line
<1>3. CASE TaskEnd
  <2>1. UNCHANGED <<items, outClose, outShut, sentClose, received, failed>> /\ WriterGone
    BY <1>3 DEF TaskEnd, closeVars, queueVars, outVars
  <2> QED
    BY <1>0, <2>1, LineDrops DEF WriterGone
<1> QED
  BY <1>1, <1>2, <1>3, AppLine, ReaderLine, WriterLine DEF Next

(* Every step keeps the socket of a connection that is open or closing.    *)
LEMMA HasSocketStep ==
    ASSUME HasSocket, Next
    PROVE  HasSocket'
<1>1. ASSUME NEW p \in Procs, Ending(p) PROVE HasSocket'
  <2>1. UNCHANGED task /\ (tcp' = tcp \/ tcp' = "down") /\ (state' = state \/ state' = "closed")
    BY <1>1 DEF Ending, FailEmit, FailFinish, StopWriter, SignalStop, ShutIo, Finish, connVars, ioVars, taskVars
  <2> QED
    BY <2>1 DEF HasSocket
<1>2. ASSUME NEW a \in Apps, App(a) PROVE HasSocket'
  <2>1. UNCHANGED <<task, tcp>>
    BY <1>2, AppFrame DEF taskVars, ioVars
  <2>2. state' = state \/ state' = "closed" \/ (state = "open" /\ state' = "closing")
    BY <1>2 DEF App, Send, SendFull, CloseOpen, CloseConnecting, CloseNotify, Terminate, Recv, HubClose,
                HubDrain, Finish, connVars
  <2> QED
    BY <2>1, <2>2 DEF HasSocket
<1>3. CASE Reader \/ Writer
  <2>1. UNCHANGED <<task, tcp>> /\ task = "run"
    BY <1>3, ReaderFrame, WriterFrame, ReaderMoves, WriterMoves DEF ioVars
  <2> QED
    BY <2>1 DEF HasSocket
<1>4. CASE Established \/ StartLate
  BY <1>4 DEF Established, StartLate, connVars, HasSocket
<1>5. CASE EstablishEnds \/ TaskEnd
  <2>1. UNCHANGED tcp /\ task' = "over" /\ (state' = state \/ state' = "closed")
    BY <1>5 DEF EstablishEnds, TaskEnd, Finish, ioVars
  <2> QED
    BY <2>1 DEF HasSocket
<1>6. CASE DeadlinePasses \/ \E rest : Start(rest)
  BY <1>6 DEF DeadlinePasses, Start, connVars, ioVars, taskVars, HasSocket
<1> QED
  BY <1>1, <1>2, <1>3, <1>4, <1>5, <1>6 DEF Next

(*****************************************************************************)
(* The end of the closing handshake.                                        *)
(*****************************************************************************)
(* Nothing stops the queue or the writer of a connection that is not       *)
(* closed.                                                                 *)
StopsClosed ==
    done \/ stopped \/ wr = "done" \/ (\E p \in Procs : fin[p] \in Finishing) => state = "closed"

(* What flush_close() relies on: the answer to the handshake is queued     *)
(* with its shutdown at once, and when the reader goes on to end() in time *)
(* none of it is left.                                                     *)
FlushInv ==
    /\ StopsClosed
    /\ Answered => sentClose
    /\ Answered /\ (server \/ failed # NoCode) /\ state # "closed" => outShut \/ shutdown
    /\ rd = "end" /\ Answered /\ deadline = "set" /\ state # "closed" => buffered = 0 /\ ~shutdown

(* A closed connection stays closed.                                       *)
LEMMA ClosedStays ==
    ASSUME LinkInv, Next, state = "closed"
    PROVE  state' = "closed"
<1>1. [ConnNext]_connVars
  BY Refines DEF LinkInv
<1> QED
  BY <1>1 DEF ConnNext, connVars, Opens, StartsClosing, Takes, HubCloses, HubDrains, Reports, Ends

(* The task enters finish() only by closing the connection.                *)
LEMMA TaskFinishes ==
    ASSUME AppTypes, Moves, NEW q \in Procs, fin'[q] \in Finishing
    PROVE  fin[q] \in Finishing \/ state' = "closed"
<1>0. fin \in [Procs -> Stages]
  BY DEF AppTypes
<1>1. ASSUME NEW code, Finish(Task, code) PROVE fin[q] \in Finishing \/ state' = "closed"
  BY <1>0, <1>1 DEF Finish
<1>2. ASSUME NEW kind, Emit(Task, kind) PROVE UNCHANGED <<state, fin>> \/ Finish(Task, Abnormal)
  BY <1>2 DEF Emit
<1>3. CASE UNCHANGED fin
  BY <1>3
<1>4. CASE fin' = [fin EXCEPT ![Task] = "error"]
  BY <1>0, <1>4 DEF Finishing
<1> QED
  BY <1>1, <1>2, <1>3, <1>4 DEF Moves

(* Every step keeps StopsClosed.                                           *)
LEMMA StopsClosedStep ==
    ASSUME LinkInv, StopsClosed, Next
    PROVE  StopsClosed'
<1>0. AppTypes /\ fin \in [Procs -> Stages]
  BY DEF LinkInv, TypeOK, AppTypes
<1> SUFFICES ASSUME state # "closed", state' # "closed"
             PROVE  ~done' /\ ~stopped' /\ wr' # "done" /\ \A q \in Procs : fin'[q] \notin Finishing
  BY ClosedStays DEF StopsClosed
<1>1. ~done /\ ~stopped /\ wr # "done" /\ \A q \in Procs : fin[q] \notin Finishing
  BY DEF StopsClosed
<1>2. ASSUME NEW p \in Procs, Ending(p)
      PROVE  ~done' /\ ~stopped' /\ wr' # "done" /\ \A q \in Procs : fin'[q] \notin Finishing
  <2>1. FailEmit(p) \/ FailFinish(p)
    BY <1>1, <1>2 DEF Ending, StopWriter, SignalStop, ShutIo, Finishing
  <2>2. UNCHANGED <<done, stopped, wr>>
    BY <2>1 DEF FailEmit, FailFinish, queueVars, ioVars, taskVars, writeVars
  <2>3. \A q \in Procs : fin'[q] = fin[q] \/ fin'[q] = "finish"
    BY <1>0, <2>1 DEF FailEmit, FailFinish, Finish
  <2> QED
    BY <1>1, <2>2, <2>3 DEF Finishing
<1>3. ASSUME NEW a \in Apps, App(a)
      PROVE  ~done' /\ ~stopped' /\ wr' # "done" /\ \A q \in Procs : fin'[q] \notin Finishing
  <2>1. UNCHANGED <<done, stopped, wr>>
    BY <1>3, AppFrame DEF ioVars, taskVars, writeVars
  <2>2. UNCHANGED fin \/ fin' = [fin EXCEPT ![a] = "error"]
    BY <1>3 DEF App, Send, SendFull, CloseOpen, CloseConnecting, CloseNotify, Terminate, Recv, HubClose,
                HubDrain, Finish
  <2>3. \A q \in Procs : fin'[q] = fin[q] \/ fin'[q] = "error"
    BY <1>0, <2>2
  <2> QED
    BY <1>1, <2>1, <2>3 DEF Finishing
<1>4. CASE Reader
  <2>1. UNCHANGED <<done, stopped, wr>>
    BY <1>4, ReaderFrame DEF ioVars, writeVars
  <2> QED
    BY <1>0, <1>1, <1>4, <2>1, ReaderMoves, TaskFinishes
<1>5. CASE Writer
  <2>1. UNCHANGED <<done, stopped>>
    BY <1>5, WriterFrame DEF ioVars
  <2>2. wr' # "done"
    <3>1. CASE WriteFails \/ WriterStops
      BY <1>1, <3>1 DEF WriteFails, WriterStops, Finish
    <3>2. CASE Writer /\ ~WriteFails /\ ~WriterStops
      BY <1>1, <3>2 DEF Writer, WriterRuns, WriterNet, Swap, WakeReady, FlushPong, EmitDrain, TlsFlush,
                        WriteUnit, WriteShutdown, Batch
    <3> QED
      BY <1>5, <3>1, <3>2
  <2> QED
    BY <1>0, <1>1, <1>5, <2>1, <2>2, WriterMoves, TaskFinishes
<1>6. CASE Established \/ StartLate \/ DeadlinePasses \/ \E rest : Start(rest)
  <2>1. UNCHANGED <<done, stopped>> /\ (wr' = wr \/ wr' = "swap")
    BY <1>6 DEF Established, StartLate, DeadlinePasses, Start, queueVars, ioVars, taskVars, writeVars
  <2>2. UNCHANGED fin \/ fin' = [fin EXCEPT ![Task] = "finish"]
    BY <1>6 DEF Established, StartLate, DeadlinePasses, Start
  <2>3. \A q \in Procs : fin'[q] = fin[q] \/ fin'[q] = "finish"
    BY <1>0, <2>2
  <2> QED
    BY <1>1, <2>1, <2>3 DEF Finishing
<1>7. CASE EstablishEnds
  <2>1. UNCHANGED <<done, stopped, wr>> /\ Moves
    BY <1>7 DEF EstablishEnds, queueVars, ioVars, writeVars, Moves
  <2> QED
    BY <1>0, <1>1, <2>1, TaskFinishes
<1>8. CASE TaskEnd
  BY <1>8 DEF TaskEnd, Finish
<1> QED
  BY <1>2, <1>3, <1>4, <1>5, <1>6, <1>7, <1>8 DEF Next

(* A step that answers nothing, takes no shutdown out of the queue unless  *)
(* it is written, and does not bring the reader to end().                  *)
LEMMA FlushFrame ==
    ASSUME FlushInv, StopsClosed', UNCHANGED <<server, received, failed>>,
           sentClose => sentClose', state' # "closed" => state # "closed",
           state' # "closed" /\ shutdown => shutdown' \/ outShut', outShut => outShut',
           rd' = "end" /\ Answered /\ deadline' = "set" /\ state' # "closed" =>
               rd = "end" /\ deadline = "set" /\ (buffered = 0 /\ ~shutdown => buffered' = 0 /\ ~shutdown')
    PROVE  FlushInv'
  BY DEF FlushInv, Answered

(* The answer to the handshake is queued together with its shutdown.       *)
LEMMA AnswerFlushes ==
    ASSUME FlushInv, StopsClosed', HasSocket, task = "run", state # "closed", ~Answered,
           (Enqueue(Reply, server) /\ UNCHANGED failed) \/ Enqueue(Reply, TRUE),
           UNCHANGED server, sentClose', rd' # "end"
    PROVE  FlushInv'
<1>1. CanPush
  BY DEF CanPush, HasSocket, FlushInv, StopsClosed
<1>2. shutdown' <=> shutdown \/ server \/ Enqueue(Reply, TRUE)
  BY <1>1 DEF Enqueue
<1> QED
  BY <1>2 DEF FlushInv, Answered

(* Every step keeps FlushInv.                                              *)
LEMMA FlushStep ==
    ASSUME LinkInv, FlushInv, HasSocket, Next
    PROVE  FlushInv'
<1>0. /\ StopsClosed /\ StopsClosed' /\ ClosingInv /\ QueueInv /\ buffered \in Nat /\ buffered' \in Nat
      /\ state' # "closed" => state # "closed"
  <2>1. LinkInv'
    BY StepInv
  <2> QED
    BY <2>1, StopsClosedStep, ClosedStays DEF FlushInv, LinkInv, TypeOK, QueueTypes
<1>1. Answered => state # "open" /\ sentClose /\ deadline # "none"
  BY <1>0 DEF ClosingInv, FlushInv, Answered, ClosingIsArmed
<1>2. ASSUME NEW p \in Procs, Ending(p) PROVE FlushInv'
  <2>1. UNCHANGED <<server, received, failed, sentClose, deadline, buffered, rd, outShut>>
    BY <1>2, EndingFrame DEF closeVars, taskVars, readVars, writeVars, outVars
  <2>2. UNCHANGED shutdown \/ state = "closed"
    <3>1. CASE StopWriter(p)
      BY <1>0, <3>1 DEF StopWriter, StopsClosed, Finishing
    <3>2. CASE ~StopWriter(p)
      BY <1>2, <3>2 DEF Ending, FailEmit, FailFinish, SignalStop, ShutIo, queueVars
    <3> QED
      BY <3>1, <3>2
  <2> QED
    BY <1>0, <2>1, <2>2, FlushFrame, SMTT(30)
<1>3. ASSUME NEW a \in Apps, App(a) PROVE FlushInv'
  <2>1. UNCHANGED <<server, received, failed, rd, outShut>>
    BY <1>3, AppFrame DEF taskVars, readVars, writeVars, outVars
  <2>2. CASE UNCHANGED <<sentClose, deadline, buffered, shutdown>>
    BY <1>0, <2>1, <2>2, FlushFrame
  <2>3. CASE (\E len \in Lens : Send(a, len)) \/ SendFull(a) \/ CloseOpen(a)
    <3>1. state = "open"
      BY <1>0, <2>3 DEF Send, SendFull, CloseOpen, ClosingInv
    <3>2. (sentClose => sentClose') /\ (shutdown => shutdown')
      <4>1. ASSUME NEW frames, Enqueue(frames, FALSE) PROVE shutdown => shutdown'
        BY <4>1 DEF Enqueue
      <4>2. ASSUME NEW len \in Lens, Send(a, len) PROVE UNCHANGED sentClose /\ (shutdown => shutdown')
        BY <4>1, <4>2 DEF Send, closeVars
      <4>3. CASE SendFull(a)
        BY <4>1, <4>3 DEF SendFull, closeVars
      <4>4. CASE CloseOpen(a)
        BY <4>1, <4>4 DEF CloseOpen
      <4> QED
        BY <2>3, <4>2, <4>3, <4>4
    <3> QED
      BY <1>0, <1>1, <2>1, <3>1, <3>2, FlushFrame
  <2>4. CASE CloseConnecting(a) \/ CloseNotify(a) \/ Terminate(a) \/ Recv(a) \/ HubClose(a) \/ HubDrain(a)
    BY <2>2, <2>4 DEF CloseConnecting, CloseNotify, Terminate, Recv, HubClose, HubDrain, queueVars, closeVars
  <2> QED
    BY <1>3, <2>3, <2>4 DEF App
<1>4. CASE Reader
  <2>1. UNCHANGED <<server, outShut, done>> /\ task = "run"
    BY <1>4, ReaderFrame, ReaderMoves DEF writeVars, outVars
  <2>2. CASE HandleClose
    <3>1. rd' # "end"
      BY <2>2 DEF HandleClose, Handled, AfterDispatch
    <3>2. CASE state = "closed" \/ received # NoCode
      <4>1. UNCHANGED <<received, failed, sentClose, deadline, buffered, shutdown>>
        BY <2>2, <3>2 DEF HandleClose, closeVars, queueVars
      <4> QED
        BY <1>0, <2>1, <3>1, <4>1, FlushFrame
    <3>3. CASE ~(state = "closed" \/ received # NoCode)
      <4>1. ~Answered
        BY <1>0, <2>2 DEF HandleClose, Handling, ClosingInv
      <4>2. sentClose' /\ Enqueue(Reply, server) /\ UNCHANGED failed
        BY <2>2, <3>3 DEF HandleClose
      <4> QED
        BY <1>0, <2>1, <3>1, <3>3, <4>1, <4>2, AnswerFlushes
    <3> QED
      BY <3>2, <3>3
  <2>3. CASE Violate
    <3>1. rd' # "end"
      BY <2>3 DEF Violate, Handled, AfterDispatch
    <3>2. CASE state = "closed"
      <4>1. UNCHANGED <<received, failed, sentClose, deadline, buffered, shutdown>>
        BY <2>3, <3>2 DEF Violate, closeVars, queueVars
      <4> QED
        BY <1>0, <2>1, <3>1, <4>1, FlushFrame
    <3>3. CASE state # "closed"
      <4>1. ~Answered
        BY <1>0, <2>3 DEF Violate, ClosingInv
      <4>2. sentClose' /\ Enqueue(Reply, TRUE)
        BY <2>3, <3>3 DEF Violate
      <4> QED
        BY <1>0, <2>1, <3>1, <3>3, <4>1, <4>2, AnswerFlushes
    <3> QED
      BY <3>2, <3>3
  <2>4. CASE Flush
    <3>1. UNCHANGED <<received, failed, sentClose, deadline, buffered, shutdown, state>>
      BY <2>4 DEF Flush, closeVars, queueVars, connVars
    <3>2. rd' = "end" /\ Answered /\ deadline = "set" /\ state # "closed" => ~done /\ ~Pending
      BY <1>0, <2>4 DEF Flush, Answered, StopsClosed
    <3>3. ~done /\ ~Pending => buffered = 0 /\ ~shutdown
      BY <1>0 DEF Pending
    <3> QED
      BY <1>0, <2>1, <3>1, <3>2, <3>3 DEF FlushInv, Answered
  <2>5. CASE FlushWake
    <3>1. UNCHANGED <<received, failed, sentClose, deadline, buffered, shutdown, state>>
      BY <2>5 DEF FlushWake, closeVars, queueVars, connVars
    <3>2. rd' = "end" => state = "closed" \/ deadline = "passed"
      BY <1>0, <2>5 DEF FlushWake, StopsClosed
    <3> QED
      BY <1>0, <2>1, <3>1, <3>2, FlushFrame
  <2>6. CASE HandlePing \/ Beat
    <3>1. UNCHANGED <<received, failed, sentClose>> /\ rd' # "end" /\ (shutdown => shutdown')
      BY <2>6 DEF HandlePing, AnswerPing, Beat, closeVars, Handled, AfterDispatch, Resume, Enqueue
    <3> QED
      BY <1>0, <2>1, <3>1, FlushFrame
  <2>7. CASE Reader /\ ~HandlePing /\ ~HandleClose /\ ~Violate /\ ~Beat /\ ~Flush /\ ~FlushWake
    <3>1. UNCHANGED <<received, failed, sentClose, shutdown>>
      BY <2>7 DEF Reader, ReaderRuns, ReadTop, HandleText, HandlePong, HandleBad, Check, ReadDone,
         ReaderWakes, WakeStopped, TimerDeadline, WakeNotified, ReadEnds, TimerHeartbeat, ReadChunk,
         closeVars, queueVars
    <3>2. rd' # "end"
      BY <2>7 DEF Reader, ReaderRuns, ReadTop, HandleText, HandlePong, HandleBad, Check, ReadDone,
         ReaderWakes, WakeStopped, TimerDeadline, WakeNotified, ReadEnds, TimerHeartbeat, ReadChunk,
         Handled, AfterDispatch, Leave, Resume, ReaderGone
    <3> QED
      BY <1>0, <2>1, <3>1, <3>2, FlushFrame
  <2> QED
    BY <1>4, <2>2, <2>3, <2>4, <2>5, <2>6, <2>7
<1>5. CASE Writer
  <2>1. UNCHANGED <<server, received, failed, sentClose, deadline, rd>>
    BY <1>5, WriterFrame DEF closeVars
  <2>2. CASE WriteUnit
    <3>1. UNCHANGED <<shutdown, outShut>> /\ buffered' = buffered - 1
      BY <2>2 DEF WriteUnit
    <3>2. buffered # 0
      BY <1>0, <3>1
    <3> QED
      BY <1>0, <2>1, <3>1, <3>2, FlushFrame
  <2>3. CASE WriteShutdown
    BY <1>0, <2>1, <2>3, FlushFrame DEF WriteShutdown
  <2>4. CASE FlushPong
    <3>1. (shutdown => shutdown') /\ UNCHANGED outShut
      BY <2>4 DEF FlushPong, Enqueue, outVars
    <3>2. Answered => UNCHANGED <<buffered, shutdown>>
      BY <2>4 DEF FlushPong, MayPong, Answered
    <3> QED
      BY <1>0, <2>1, <3>1, <3>2, FlushFrame
  <2>5. CASE Writer /\ ~WriteUnit /\ ~WriteShutdown /\ ~FlushPong
    <3>1. UNCHANGED <<buffered, shutdown, outShut>>
      BY <2>5 DEF Writer, WriterRuns, WriterNet, Swap, WakeReady, EmitDrain, WriterStops, TlsFlush, WriteFails,
                  queueVars, outVars
    <3> QED
      BY <1>0, <2>1, <3>1, FlushFrame
  <2> QED
    BY <1>5, <2>2, <2>3, <2>4, <2>5
<1>6. CASE Established \/ EstablishEnds \/ StartLate \/ DeadlinePasses \/ TaskEnd \/ \E rest : Start(rest)
  <2>1. UNCHANGED <<server, received, failed, sentClose, buffered, shutdown, outShut>>
    BY <1>6 DEF Established, EstablishEnds, StartLate, DeadlinePasses, TaskEnd, Start, closeVars, queueVars,
                taskVars, writeVars, outVars
  <2>2. (rd' = rd \/ rd' # "end") /\ (deadline' = deadline \/ deadline' = "passed")
    BY <1>6 DEF Established, EstablishEnds, StartLate, DeadlinePasses, TaskEnd, Start, closeVars, taskVars,
                readVars, ReaderGone
  <2> QED
    BY <1>0, <2>1, <2>2, FlushFrame
<1> QED
  BY <1>2, <1>3, <1>4, <1>5, <1>6 DEF Next

(* The line of a connection ends as LineInv says, and an open or closing   *)
(* connection has its socket.                                              *)
THEOREM LineInvariance == Spec => [](LineInv /\ HasSocket)
<1>1. Init => LineInv /\ HasSocket
  <2>1. ASSUME Init PROVE Line = <<>> /\ ~outClose /\ ~outShut /\ ~sentClose /\ HasSocket
    BY <2>1 DEF Init, ConnInit, Line, HasSocket
  <2> QED
    BY <2>1, FramesEnded DEF LineInv
<1>2. LinkInv /\ LineInv /\ HasSocket /\ [Next]_vars => LineInv' /\ HasSocket'
  <2>1. LineInv /\ HasSocket /\ UNCHANGED vars => LineInv' /\ HasSocket'
    <3>1. UNCHANGED vars =>
            UNCHANGED <<Line, outClose, outShut, sentClose, received, failed, done, wr, task, state, tcp>>
      BY DEF vars, connVars, closeVars, queueVars, ioVars, taskVars, writeVars, outVars, Line
    <3> QED
      BY <3>1, LineFrame DEF HasSocket
  <2> QED
    BY <2>1, LineStep, HasSocketStep DEF LinkInv
<1> QED
  BY <1>1, <1>2, LinkInvariance, PTL DEF Spec

(* Our one close frame is the last frame on the wire but for pongs, and a  *)
(* FIN the very last thing, however the application's threads interleave   *)
(* with the task.                                                          *)
THEOREM CloseFrameLast == Spec => []CloseFrameIsLast
<1>1. LineInv => CloseFrameIsLast
  BY DEF LineInv, Ended, AfterClose, HasClose, CloseFrameIsLast
<1> QED
  BY <1>1, LineInvariance, PTL

(* A reader that ends the connection in time after the peer's close or a   *)
(* violation has our close frame on the wire, and the FIN where it shuts   *)
(* TCP down first.                                                         *)
THEOREM AnswerFlushed == Spec => FlushedBeforeEnd
<1>1. Init => FlushInv
  BY DEF Init, ConnInit, FlushInv, StopsClosed, Answered, Finishing, NoCode, Procs
<1>2. LinkInv /\ HasSocket /\ FlushInv /\ [Next]_vars => FlushInv'
  <2>1. FlushInv /\ UNCHANGED vars => FlushInv'
    <3>1. UNCHANGED vars => UNCHANGED <<server, received, failed, sentClose, deadline, state, done, stopped, wr, fin,
                                        outShut, shutdown, rd, buffered>>
      BY DEF vars, connVars, closeVars, queueVars, ioVars, taskVars, readVars, writeVars, outVars
    <3> QED
      BY <3>1 DEF FlushInv, StopsClosed, Answered
  <2> QED
    BY <2>1, FlushStep
<1>3. ASSUME LinkInv, LineInv, FlushInv, rd = "end", state # "closed", EndCode # Abnormal, deadline = "set"
      PROVE  outClose /\ (server \/ failed # NoCode => outShut)
  <2>1. Answered /\ sentClose /\ buffered = 0 /\ ~shutdown /\ ~done /\ wr # "done"
    BY <1>3 DEF EndCode, Answered, FlushInv, StopsClosed
  <2>2. Len(held) + Len(items) = 0 /\ held \in Seq(Units) /\ items \in Seq(Units)
    BY <1>3, <2>1 DEF LinkInv, TypeOK, QueueTypes, QueueInv
  <2>3. Line = <<>>
    BY <2>2 DEF Line
  <2> QED
    BY <1>3, <2>1, <2>3, FramesEnded DEF LineInv, FlushInv
<1>4. LinkInv /\ LineInv /\ FlushInv =>
        [ReadDone /\ state # "closed" /\ EndCode # Abnormal /\ deadline = "set"
            => outClose /\ (server \/ failed # NoCode => outShut)]_vars
  BY <1>3 DEF ReadDone
<1> QED
  BY <1>1, <1>2, <1>4, LinkInvariance, LineInvariance, PTL DEF Spec, FlushedBeforeEnd

=============================================================================
