----------------------------- MODULE LinkQueue -----------------------------
(*****************************************************************************)
(* The outbound queue: its inductive invariant, the proof that every step   *)
(* keeps it, and what stands at its end in the closing handshake.           *)
(*****************************************************************************)
EXTENDS LinkTypes

Shut(units) == units # <<>> /\ units[Len(units)].op = "shutdown"

(* The queue: what Accounting says without concatenating the two parts of  *)
(* the line, with a Shutdown item only at its end and only once the        *)
(* handshake was answered, and the positions that imply an empty batch.    *)
QueueInv ==
    /\ ~done /\ wr # "done" =>
          /\ Len(held) + Len(items) = IF shutdown THEN buffered + 1 ELSE buffered
          /\ shutdown <=> Shut(items) \/ (items = <<>> /\ Shut(held))
    /\ done => items = <<>> /\ buffered >= Bytes(held)
    /\ \A i \in 1..Len(held) : held[i].op = "shutdown" =>
          i = Len(held) /\ items = <<>> /\ Answered
    /\ \A i \in 1..Len(items) : items[i].op = "shutdown" => i = Len(items) /\ Answered
    /\ wr \in {"off", "swap", "idle", "done"} => held = <<>>
    /\ wr = "write" => held # <<>>
    /\ task \in {"establish", "start"} => wr = "off"

NoShut(frames) == frames \in Seq(Units) /\ \A i \in 1..Len(frames) : frames[i].op # "shutdown"

(* The frames the link queues, none of which is a Shutdown item.           *)
LEMMA Frames ==
    /\ \A n \in Nat : NoShut(DataFrame(n))
    /\ NoShut(CloseFrame) /\ NoShut(<<>>)
    /\ \A n \in Nat : NoShut(<<Unit("pong", n)>>)
    /\ NoShut(<<Unit("hb", 0)>>)
<1>1. ASSUME NEW n \in Nat PROVE NoShut(DataFrame(n))
  <2> DEFINE f == DataFrame(n)
  <2>1. \A i \in 1..n : f[i] \in Units /\ f[i].op # "shutdown"
    BY DEF DataFrame, Unit, Units
  <2>2. f \in [1..n -> Units]
    BY <2>1 DEF DataFrame
  <2>3. f \in Seq(Units) /\ Len(f) = n
    BY <2>2
  <2> QED
    BY <2>1, <2>3 DEF NoShut
<1>2. NoShut(CloseFrame) /\ NoShut(<<>>) /\ NoShut(<<Unit("hb", 0)>>)
  BY DEF NoShut, CloseFrame, Unit, Units
<1>3. ASSUME NEW n \in Nat PROVE NoShut(<<Unit("pong", n)>>)
  BY DEF NoShut, Unit, Units
<1> QED
  BY <1>1, <1>2, <1>3

(* enqueue() before the handshake was answered keeps the queue's           *)
(* invariant and its types.                                                *)
LEMMA EnqueueKeeps ==
    ASSUME QueueTypes, QueueInv, ~Answered,
           NEW frames, NoShut(frames), NEW shut \in BOOLEAN, Enqueue(frames, shut),
           shut => Answered', UNCHANGED <<held, done, task>>,
           wr' = wr \/ (wr = "pong" /\ wr' = Batch)
    PROVE  items' \in Seq(Units) /\ buffered' \in Nat /\ shutdown' \in BOOLEAN /\ QueueInv'
<1>0. items \in Seq(Units) /\ held \in Seq(Units) /\ buffered \in Nat /\ frames \in Seq(Units)
      /\ done \in BOOLEAN /\ shutdown \in BOOLEAN
  BY DEF QueueTypes, NoShut
<1>1. /\ \A i \in 1..Len(held) : held[i].op # "shutdown"
      /\ \A i \in 1..Len(items) : items[i].op # "shutdown"
      /\ \A i \in 1..Len(frames) : frames[i].op # "shutdown"
  BY DEF QueueInv, NoShut
<1>2. ~Shut(held) /\ ~Shut(items)
  BY <1>0, <1>1 DEF Shut
<1>3. CASE ~CanPush
  BY <1>0, <1>1, <1>2, <1>3 DEF Enqueue, QueueInv, Shut, Bytes, Batch
<1>4. CASE CanPush
  <2> DEFINE tail == IF shut THEN <<Unit("shutdown", 0)>> ELSE <<>>
             n == Len(items) + Len(frames)
  <2>1. tail \in Seq(Units) /\ Len(tail) = (IF shut THEN 1 ELSE 0)
    <3>1. <<Unit("shutdown", 0)>> \in Seq(Units) /\ <<>> \in Seq(Units)
      BY DEF Unit, Units
    <3> QED
      BY <3>1
  <2>2. items' = items \o frames \o tail /\ buffered' = buffered + Len(frames)
    BY <1>4 DEF Enqueue
  <2>3. items' \in Seq(Units) /\ Len(items') = n + Len(tail) /\ buffered' \in Nat
    BY <1>0, <2>1, <2>2
  <2>4. \A i \in 1..n : items'[i].op # "shutdown"
    BY <1>0, <1>1, <2>1, <2>2
  <2>5. shut => items'[n + 1].op = "shutdown"
    <3>1. shut => tail[1] = Unit("shutdown", 0) /\ items'[n + 1] = tail[1]
      BY <1>0, <2>1, <2>2
    <3> QED
      BY <3>1 DEF Unit
  <2>6. Shut(items') <=> shut
    <3>1. n \in Nat /\ (items' # <<>> => Len(items') > 0)
      BY <1>0, <2>3
    <3>2. CASE shut
      BY <2>1, <2>3, <2>5, <3>1, <3>2 DEF Shut
    <3>3. CASE ~shut
      <4>1. Len(items') = n
        BY <2>1, <2>3, <3>1, <3>3
      <4> QED
        BY <2>4, <3>1, <3>3, <4>1 DEF Shut
    <3> QED
      BY <3>2, <3>3
  <2>7. ~done /\ shutdown' = (shutdown \/ shut) /\ shutdown' \in BOOLEAN
    BY <1>4 DEF CanPush, Enqueue
  <2>8. wr # "done" => ~shutdown /\ Len(held) + Len(items) = buffered
    BY <1>2, <2>7 DEF QueueInv
  <2>9. /\ ~done' /\ wr' # "done" =>
          /\ Len(held') + Len(items') = IF shutdown' THEN buffered' + 1 ELSE buffered'
          /\ shutdown' <=> Shut(items') \/ (items' = <<>> /\ Shut(held'))
    BY <1>0, <1>2, <2>1, <2>2, <2>3, <2>6, <2>7, <2>8 DEF Batch
  <2>10. \A i \in 1..Len(items') : items'[i].op = "shutdown" => i = Len(items') /\ Answered'
    BY <1>0, <2>1, <2>3, <2>4
  <2> QED
    BY <1>1, <2>3, <2>7, <2>9, <2>10 DEF QueueInv, Batch
<1> QED
  BY <1>3, <1>4

(* A step that queues or takes nothing. *)
LEMMA QueueFrame ==
    ASSUME QueueInv, UNCHANGED <<items, held, done, shutdown, buffered, received, failed>>,
           \/ UNCHANGED <<wr, task>>
           \/ wr = "off" /\ UNCHANGED wr
           \/ wr = "off" /\ wr' = "swap" /\ task' = "run"
           \/ wr = "idle" /\ wr' = "swap" /\ UNCHANGED task
           \/ wr = "drain" /\ wr' = Batch /\ UNCHANGED task
    PROVE  QueueInv'
  BY DEF QueueInv, Answered, Batch

(* A writer that ends drops its batch, and the queue's invariant holds of  *)
(* what is left.                                                           *)
LEMMA WriterEnds ==
    ASSUME QueueInv, QueueTypes, UNCHANGED <<items, done, shutdown, buffered, received, failed>>, WriterGone,
           task' \notin {"establish", "start"}
    PROVE  QueueInv' /\ held' \in Seq(Units)
  BY DEF QueueInv, QueueTypes, Answered, WriterGone, Bytes

(* stop_writer() empties the queue but leaves buffered, which still        *)
(* covers the writer's batch.                                              *)
LEMMA StopKeeps ==
    ASSUME QueueInv, QueueTypes, NEW p, StopWriter(p)
    PROVE  QueueInv' /\ QueueTypes'
<1>1. done' = TRUE /\ items' = <<>> /\ pong' = 0 /\ shutdown' = FALSE /\ UNCHANGED <<drain, buffered, held, wr, task, received, failed>>
  BY DEF StopWriter, closeVars, taskVars, writeVars
<1>2. Bytes(held) \in Nat /\ Bytes(held) = IF Shut(held) THEN Len(held) - 1 ELSE Len(held)
  BY DEF Bytes, Shut, QueueTypes
<1>3. buffered >= Bytes(held)
  <2>1. CASE done
    BY <2>1 DEF QueueInv
  <2>2. CASE wr = "done"
    BY <1>2, <2>2 DEF QueueInv, QueueTypes, Shut
  <2>3. CASE ~done /\ wr # "done"
    <3>1. Len(held) + Len(items) = IF shutdown THEN buffered + 1 ELSE buffered
      BY <2>3 DEF QueueInv
    <3>2. shutdown <=> Shut(items) \/ (items = <<>> /\ Shut(held))
      BY <2>3 DEF QueueInv
    <3>3. Len(items) \in Nat /\ Len(held) \in Nat /\ (Shut(items) => Len(items) > 0) /\ buffered \in Nat
      BY DEF QueueTypes, Shut
    <3> QED
      BY <1>2, <3>1, <3>2, <3>3
  <2> QED
    BY <2>1, <2>2, <2>3
<1>4. QueueTypes'
  <2>1. done' \in BOOLEAN /\ shutdown' \in BOOLEAN
    BY <1>1
  <2> QED
    BY <1>1, <2>1 DEF QueueTypes
<1> QED
  BY <1>1, <1>3, <1>4 DEF QueueInv, Answered

(* The writer's swap moves all of the queue into the empty batch.          *)
LEMMA SwapKeeps ==
    ASSUME QueueInv, QueueTypes, Swap
    PROVE  QueueInv' /\ QueueTypes'
<1>0. wr = "swap" /\ held = <<>> /\ task = "run"
      /\ UNCHANGED <<done, shutdown, drain, pong, buffered, task, received, failed>>
  BY DEF Swap, WriterTurn, QueueInv, closeVars
<1>1. CASE done
  <2>1. UNCHANGED items /\ WriterGone
    BY <1>1 DEF Swap
  <2> QED
    BY <1>0, <2>1, WriterEnds DEF QueueTypes
<1>2. CASE ~done
  <2>1. held' = items /\ items' = <<>> /\ wr' = (IF pong # 0 THEN "pong" ELSE IF items = <<>> THEN "idle" ELSE "write")
    BY <1>2 DEF Swap
  <2>2. QueueTypes'
    BY <1>0, <2>1 DEF QueueTypes
  <2>3. ~Shut(<<>>) /\ Len(held) = 0
    BY <1>0 DEF Shut
  <2> QED
    BY <1>0, <1>2, <2>1, <2>2, <2>3 DEF QueueInv, Answered, QueueTypes
<1> QED
  BY <1>1, <1>2

(* One successful write or shutdown takes the head of the batch and its    *)
(* bytes.                                                                  *)
LEMMA TakeKeeps ==
    ASSUME QueueInv, QueueTypes, wr = "write", task = "run",
           held' = Tail(held), UNCHANGED <<items, done, task, received, failed>>,
           wr' = "drain" \/ wr' = Batch,
           IF Head(held).op = "shutdown" THEN shutdown' = FALSE /\ buffered' = buffered
           ELSE buffered' = buffered - 1 /\ UNCHANGED shutdown
    PROVE  QueueInv' /\ held' \in Seq(Units) /\ buffered' \in Nat
<1>0. held \in Seq(Units) /\ items \in Seq(Units) /\ buffered \in Nat /\ held # <<>> /\ wr' # "done"
  BY DEF QueueInv, QueueTypes, Batch
<1>1. held' \in Seq(Units) /\ Len(held') = Len(held) - 1 /\ Len(held) > 0
      /\ \A i \in 1..Len(held') : held'[i] = held[i + 1]
  BY <1>0
<1>2. Head(held) = held[1]
  BY <1>0
<1>3. \A i \in 1..Len(held') : held'[i].op = "shutdown" => i = Len(held') /\ items = <<>> /\ Answered
  <2>1. ASSUME NEW i \in 1..Len(held'), held'[i].op = "shutdown"
        PROVE  i = Len(held') /\ items = <<>> /\ Answered
    <3>1. i + 1 \in 1..Len(held) /\ held[i + 1].op = "shutdown"
      BY <1>0, <1>1, <2>1
    <3>2. i + 1 = Len(held) /\ items = <<>> /\ Answered
      BY <3>1 DEF QueueInv
    <3>3. Len(held) \in Nat /\ i \in Nat
      BY <1>0, <1>1
    <3>4. Len(held') = Len(held) - 1
      BY <1>1
    <3>5. i = Len(held')
      BY <3>2, <3>3, <3>4
    <3> QED
      BY <3>2, <3>5
  <2> QED
    BY <2>1
<1>4. CASE Head(held).op = "shutdown"
  <2>0. 1 \in 1..Len(held) /\ held[1].op = "shutdown"
    BY <1>0, <1>1, <1>2, <1>4
  <2>1. Len(held) = 1 /\ items = <<>> /\ Answered
    BY <2>0 DEF QueueInv
  <2>3. held' = <<>>
    BY <1>1, <2>1
  <2>2. Shut(held) /\ ~Shut(<<>>) /\ Bytes(<<>>) = 0
    BY <1>2, <1>4, <2>1 DEF Shut, Bytes
  <2>4. ~done => shutdown /\ buffered = 0
    BY <1>0, <2>1, <2>2 DEF QueueInv
  <2>5. wr' \in {"drain", "swap"} /\ ~shutdown' /\ buffered' = buffered
    BY <1>4, <2>3 DEF Batch
  <2>7. items' = <<>>
    BY <2>1
  <2>6. Len(held') + Len(items') = 0 /\ ~Shut(items') /\ ~Shut(held') /\ Bytes(held') = 0
    <3>1. ~Shut(<<>>) /\ Bytes(<<>>) = 0 /\ Len(<<>>) + Len(<<>>) = 0
      BY DEF Shut, Bytes
    <3> QED
      BY <2>3, <2>7, <3>1, Zenon
  <2> QED
    <3>1. ~done' /\ wr' # "done" =>
          /\ Len(held') + Len(items') = IF shutdown' THEN buffered' + 1 ELSE buffered'
          /\ shutdown' <=> Shut(items') \/ (items' = <<>> /\ Shut(held'))
      BY <2>4, <2>5, <2>6
    <3>2. done' => items' = <<>> /\ buffered' >= Bytes(held')
      BY <1>0, <2>5, <2>6, <2>7
    <3> QED
      BY <1>0, <2>3, <2>5, <2>7, <3>1, <3>2 DEF QueueInv
<1>5. CASE Head(held).op # "shutdown"
  <2>1. Shut(held') <=> Shut(held)
    BY <1>0, <1>1, <1>2, <1>5 DEF Shut
  <2>2. Bytes(held') = Bytes(held) - 1 /\ Bytes(held) > 0 /\ Bytes(held) \in Nat
    BY <1>0, <1>1, <1>2, <1>5, <2>1 DEF Shut, Bytes
  <2>3. buffered > 0
    <3>1. CASE done
      BY <1>0, <2>2, <3>1 DEF QueueInv
    <3>2. CASE ~done
      <4>1. Len(held) + Len(items) = IF shutdown THEN buffered + 1 ELSE buffered
        BY <3>2 DEF QueueInv
      <4>2. shutdown => Len(held) + Len(items) > 1
        <5>1. CASE Shut(items)
          BY <1>0, <1>1, <5>1 DEF Shut
        <5>2. CASE Shut(held)
          BY <1>0, <1>1, <1>2, <1>5, <5>2 DEF Shut
        <5> QED
          BY <3>2, <5>1, <5>2 DEF QueueInv
      <4> QED
        BY <1>0, <1>1, <4>1, <4>2
    <3> QED
      BY <3>1, <3>2
  <2>4. buffered' = buffered - 1 /\ shutdown' = shutdown /\ buffered' \in Nat
    BY <1>0, <1>5, <2>3
  <2>5. done' => items' = <<>> /\ buffered' >= Bytes(held')
    <3>1. done => items = <<>> /\ buffered >= Bytes(held)
      BY DEF QueueInv
    <3> QED
      BY <1>0, <2>2, <2>4, <3>1
  <2>6. ~done' /\ wr' # "done" =>
          /\ Len(held') + Len(items') = IF shutdown' THEN buffered' + 1 ELSE buffered'
          /\ shutdown' <=> Shut(items') \/ (items' = <<>> /\ Shut(held'))
    <3>1. ~done => /\ Len(held) + Len(items) = IF shutdown THEN buffered + 1 ELSE buffered
                   /\ shutdown <=> Shut(items) \/ (items = <<>> /\ Shut(held))
      BY DEF QueueInv
    <3>2. Len(held) \in Nat /\ Len(items) \in Nat
      BY <1>0
    <3> QED
      BY <1>0, <1>1, <2>1, <2>4, <3>1, <3>2
  <2> QED
    BY <1>0, <1>1, <1>3, <2>4, <2>5, <2>6 DEF QueueInv, Batch, Answered
<1> QED
  BY <1>1, <1>4, <1>5, <1>0

(* Application calls keep the queue's invariant and its types.             *)
LEMMA AppQueue ==
    ASSUME TypeOK, ClosingInv, QueueInv, NEW a \in Apps, App(a)
    PROVE  QueueInv' /\ QueueTypes'
<1>0. QueueTypes /\ want[a] \in Nat /\ call \in [Apps -> Calls]
  BY DEF TypeOK, AppTypes
<1>1. UNCHANGED <<received, failed, done, held, wr, task>>
  BY AppFrame DEF taskVars, writeVars
<1>2. state = "open" => ~Answered
  BY DEF ClosingInv
<1>3. CASE UNCHANGED <<items, buffered, shutdown, drain, pong>>
  BY <1>0, <1>1, <1>3, QueueFrame DEF QueueTypes
<1>4. ASSUME NEW frames, NoShut(frames), Enqueue(frames, FALSE), state = "open", UNCHANGED <<drain, pong>>
      PROVE  QueueInv' /\ QueueTypes'
  BY <1>0, <1>1, <1>2, <1>4, EnqueueKeeps DEF QueueTypes
<1>5. ASSUME NEW len \in Lens, Send(a, len) PROVE QueueInv' /\ QueueTypes'
  <2>1. CASE Fits(len)
    <3>1. len \in Nat
      BY LinkAssumption
    <3> QED
      BY <1>4, <1>5, <2>1, <3>1, Frames DEF Send
  <2>2. CASE ~Fits(len)
    BY <1>3, <1>5, <2>2 DEF Send
  <2> QED
    BY <2>1, <2>2
<1>6. CASE SendFull(a)
  <2>1. CASE Recheck(want[a])
    BY <1>0, <1>4, <1>6, <2>1, Frames DEF SendFull, ClosingInv
  <2>2. CASE ~Recheck(want[a])
    <3>1. drain' \in Nat /\ UNCHANGED <<items, buffered, shutdown, pong>>
      BY <1>0, <1>6, <2>2 DEF SendFull
    <3> QED
      BY <1>0, <1>1, <3>1, QueueFrame DEF QueueTypes
  <2> QED
    BY <2>1, <2>2
<1>7. CASE CloseOpen(a)
  BY <1>4, <1>7, Frames DEF CloseOpen
<1>8. CASE CloseConnecting(a) \/ CloseNotify(a) \/ Terminate(a) \/ Recv(a) \/ HubClose(a) \/ HubDrain(a)
  BY <1>3, <1>8 DEF CloseConnecting, CloseNotify, Terminate, Recv, HubClose, HubDrain, queueVars
<1> QED
  BY <1>5, <1>6, <1>7, <1>8 DEF App

(* The reader's pongs, heartbeats and close replies keep the queue's       *)
(* invariant and its types.                                                *)
LEMMA ReaderQueue ==
    ASSUME TypeOK, ClosingInv, QueueInv, Reader
    PROVE  QueueInv' /\ QueueTypes'
<1>0. QueueTypes /\ pings \in Nat
  BY DEF TypeOK, TaskTypes
<1>1. UNCHANGED <<done, drain, held, wr, task>>
  BY ReaderFrame DEF writeVars
<1>2. CASE UNCHANGED <<items, buffered, shutdown, pong, received, failed>>
  BY <1>0, <1>1, <1>2, QueueFrame DEF QueueTypes
<1>3. ASSUME NEW frames, NoShut(frames), NEW shut \in BOOLEAN, Enqueue(frames, shut), ~Answered,
             shut => Answered', pong' \in Nat
      PROVE  QueueInv' /\ QueueTypes'
  BY <1>0, <1>1, <1>3, EnqueueKeeps DEF QueueTypes
<1>4. CASE HandlePing
  <2>1. UNCHANGED <<received, failed>>
    BY <1>4 DEF HandlePing, closeVars
  <2>2. CASE ~MayPong
    BY <1>2, <1>4, <2>1, <2>2 DEF HandlePing
  <2>3. CASE MayPong /\ buffered < PongLimit
    <3>1. pong' = 0 /\ Enqueue(<<Unit("pong", pings + 1)>>, FALSE)
      BY <1>4, <2>3, Zenon DEF HandlePing, AnswerPing
    <3>3. ~Answered
      BY <2>3 DEF MayPong, Answered
    <3>2. NoShut(<<Unit("pong", pings + 1)>>)
      BY <1>0, Frames
    <3> QED
      BY <1>3, <3>1, <3>2, <3>3
  <2>4. CASE MayPong /\ ~(buffered < PongLimit)
    <3>1. pong' = pings + 1 /\ UNCHANGED <<items, buffered, shutdown>>
      BY <1>4, <2>4 DEF HandlePing, AnswerPing
    <3> QED
      BY <1>0, <1>1, <2>1, <3>1, QueueFrame DEF QueueTypes
  <2> QED
    BY <2>2, <2>3, <2>4
<1>5. NoShut(Reply) /\ server \in BOOLEAN
  BY Frames DEF Reply, TypeOK, AppTypes
<1>6. CASE HandleClose
  <2>1. CASE state = "closed" \/ received # NoCode
    BY <1>2, <1>6, <2>1 DEF HandleClose, closeVars, queueVars
  <2>2. CASE ~(state = "closed" \/ received # NoCode)
    <3>1. ~Answered
      BY <1>6 DEF HandleClose, Handling, ClosingInv
    <3>2. Answered' /\ Enqueue(Reply, server)
      BY <1>6, <2>2 DEF HandleClose, Answered, NoCode
    <3>3. pong' \in Nat
      BY <1>0, <1>6, <2>2 DEF HandleClose, QueueTypes
    <3> QED
      BY <1>3, <1>5, <3>1, <3>2, <3>3
  <2> QED
    BY <2>1, <2>2
<1>7. CASE Violate
  <2>1. CASE state = "closed"
    BY <1>2, <1>7, <2>1 DEF Violate, closeVars, queueVars
  <2>2. CASE state # "closed"
    <3>1. ~Answered
      BY <1>7 DEF Violate, ClosingInv
    <3>2. failed' = Violation /\ Enqueue(Reply, TRUE)
      BY <1>7, <2>2, Zenon DEF Violate
    <3>4. Answered'
      BY <3>2 DEF Answered, NoCode, Violation
    <3>3. pong' \in Nat
      BY <1>0, <1>7, <2>2 DEF Violate, QueueTypes
    <3> QED
      BY <1>3, <1>5, <3>1, <3>2, <3>3, <3>4, Zenon
  <2> QED
    BY <2>1, <2>2
<1>8. CASE Beat
  <2>1. CASE StillOpen
    <3>1. ~Answered
      BY <2>1 DEF StillOpen, ClosingInv
    <3>2. Enqueue(<<Unit("hb", 0)>>, FALSE) /\ pong' = pong
      BY <1>8, <2>1 DEF Beat
    <3>3. pong' \in Nat
      BY <1>0, <3>2 DEF QueueTypes
    <3> QED
      BY <1>3, <3>1, <3>2, <3>3, Frames
  <2>2. CASE ~StillOpen
    BY <1>2, <1>8, <2>2 DEF Beat, closeVars
  <2> QED
    BY <2>1, <2>2
<1>9. CASE Reader /\ ~HandlePing /\ ~HandleClose /\ ~Violate /\ ~Beat
  BY <1>2, <1>9 DEF Reader, ReaderRuns, ReadTop, HandleText, HandlePong, HandleBad, Check, Flush, ReadDone,
         ReaderWakes, WakeStopped, TimerDeadline, FlushWake, WakeNotified, ReadEnds, TimerHeartbeat, ReadChunk,
         closeVars, queueVars
<1> QED
  BY <1>4, <1>6, <1>7, <1>8, <1>9

(* The writer keeps the queue's invariant and its types.                   *)
LEMMA WriterQueue ==
    ASSUME TypeOK, ClosingInv, QueueInv, Writer
    PROVE  QueueInv' /\ QueueTypes'
<1>0. QueueTypes
  BY DEF TypeOK
<1>1. UNCHANGED <<done, task, received, failed>> /\ task = "run"
  BY WriterFrame, WriterMoves DEF closeVars
<1>2. CASE Swap
  BY <1>0, <1>2, SwapKeeps
<1>3. CASE WakeReady \/ TlsFlush \/ EmitDrain
  <2>1. UNCHANGED <<items, held, shutdown, buffered, drain, pong>>
    BY <1>3 DEF WakeReady, TlsFlush, EmitDrain, queueVars
  <2>2. (wr = "idle" /\ wr' = "swap") \/ (wr = "drain" /\ wr' = Batch)
    BY <1>3 DEF WakeReady, TlsFlush, EmitDrain
  <2> QED
    BY <1>0, <1>1, <2>1, <2>2, QueueFrame DEF QueueTypes
<1>4. CASE FlushPong
  <2>1. UNCHANGED <<held, drain>> /\ wr = "pong" /\ wr' = Batch /\ pong' = 0
    BY <1>4 DEF FlushPong
  <2>2. CASE MayPong /\ pong # 0
    <3>1. Enqueue(<<Unit("pong", pong)>>, FALSE) /\ ~Answered
      BY <1>4, <2>2 DEF FlushPong, MayPong, Answered
    <3>2. NoShut(<<Unit("pong", pong)>>)
      BY <1>0, Frames DEF QueueTypes
    <3> QED
      BY <1>0, <1>1, <2>1, <3>1, <3>2, EnqueueKeeps DEF QueueTypes
  <2>3. CASE ~(MayPong /\ pong # 0)
    <3>1. UNCHANGED <<items, buffered, shutdown>>
      BY <1>4, <2>3 DEF FlushPong
    <3>2. QueueInv'
      BY <1>0, <1>1, <2>1, <3>1 DEF QueueInv, Answered, Batch
    <3> QED
      BY <1>0, <1>1, <2>1, <3>1, <3>2 DEF QueueTypes
  <2> QED
    BY <2>2, <2>3
<1>5. CASE WriteUnit
  <2>1. wr = "write" /\ held' = Tail(held) /\ UNCHANGED <<items, shutdown, pong>> /\ (wr' = "drain" \/ wr' = Batch)
        /\ Head(held).op # "shutdown" /\ buffered' = buffered - 1
    BY <1>5 DEF WriteUnit
  <2>2. drain' \in Nat
    BY <1>0, <1>5 DEF WriteUnit, QueueTypes
  <2>3. QueueInv' /\ held' \in Seq(Units) /\ buffered' \in Nat
    BY <1>0, <1>1, <2>1, TakeKeeps
  <2> QED
    BY <1>0, <1>1, <2>1, <2>2, <2>3 DEF QueueTypes
<1>6. CASE WriteShutdown
  <2>1. wr = "write" /\ held' = Tail(held) /\ UNCHANGED <<items, buffered, pong, drain>> /\ wr' = Batch
        /\ Head(held).op = "shutdown" /\ shutdown' = FALSE
    BY <1>6 DEF WriteShutdown
  <2>2. shutdown' \in BOOLEAN
    BY <2>1
  <2>3. QueueInv' /\ held' \in Seq(Units) /\ buffered' \in Nat
    BY <1>0, <1>1, <2>1, TakeKeeps
  <2> QED
    BY <1>0, <1>1, <2>1, <2>2, <2>3 DEF QueueTypes
<1>7. CASE WriteFails \/ WriterStops
  <2>1. UNCHANGED <<items, shutdown, buffered, drain, pong>> /\ WriterGone
    BY <1>7 DEF WriteFails, WriterStops, queueVars
  <2> QED
    BY <1>0, <1>1, <2>1, WriterEnds DEF QueueTypes
<1> QED
  BY <1>2, <1>3, <1>4, <1>5, <1>6, <1>7 DEF Writer, WriterRuns, WriterNet

(* Every step keeps the queue's invariant and its types.                   *)
LEMMA QueueStep ==
    ASSUME TypeOK, ClosingInv, QueueInv, Next
    PROVE  QueueInv' /\ QueueTypes'
<1>0. QueueTypes
  BY DEF TypeOK
<1>1. ASSUME NEW p \in Procs, Ending(p) PROVE QueueInv' /\ QueueTypes'
  <2>1. UNCHANGED <<held, wr, task, received, failed, drain, buffered>>
    BY <1>1, EndingFrame DEF taskVars, writeVars, closeVars
  <2>2. CASE StopWriter(p)
    BY <1>0, <2>2, StopKeeps
  <2>3. CASE ~StopWriter(p)
    <3>1. UNCHANGED queueVars
      BY <1>1, <2>3 DEF Ending, FailEmit, FailFinish, SignalStop, ShutIo
    <3> QED
      BY <1>0, <2>1, <3>1, QueueFrame DEF queueVars, QueueTypes
  <2> QED
    BY <2>2, <2>3
<1>2. CASE Established \/ EstablishEnds \/ StartLate \/ \E rest : Start(rest)
  <2>1. UNCHANGED <<queueVars, held, received, failed>>
    BY <1>2 DEF Established, EstablishEnds, StartLate, Start, closeVars, writeVars
  <2>2. task \in {"establish", "start"} /\ (wr' = wr \/ (wr' = "swap" /\ task' = "run"))
    BY <1>2 DEF Established, EstablishEnds, StartLate, Start, writeVars
  <2>3. wr = "off"
    BY <2>2 DEF QueueInv
  <2> QED
    BY <1>0, <2>1, <2>2, <2>3, QueueFrame DEF queueVars, QueueTypes
<1>3. CASE DeadlinePasses
  <2>1. UNCHANGED <<queueVars, held, received, failed, wr, task>>
    BY <1>3 DEF DeadlinePasses, taskVars, writeVars
  <2> QED
    BY <1>0, <2>1, QueueFrame DEF queueVars, QueueTypes
<1>4. CASE TaskEnd
  <2>1. UNCHANGED <<queueVars, received, failed>> /\ WriterGone /\ task' = "over"
    BY <1>4 DEF TaskEnd, closeVars
  <2> QED
    BY <1>0, <2>1, WriterEnds DEF queueVars, QueueTypes
<1> QED
  BY <1>1, <1>2, <1>3, <1>4, AppQueue, ReaderQueue, WriterQueue DEF Next

(*****************************************************************************)
(* The end of the line of frames to write.                                  *)
(*****************************************************************************)
HasClose(line) == \E i \in 1..Len(line) : line[i].op = "close"
AfterClose(line) == \A i \in 1..Len(line) : line[i].op \in {"pong", "shutdown"}
Ended(line) ==
    \A i, j \in 1..Len(line) : i < j =>
        /\ line[i].op # "shutdown"
        /\ line[i].op = "close" => line[j].op \in {"pong", "shutdown"}

(* What CloseFrameIsLast needs to be inductive: a close frame anywhere was *)
(* sent under sent_close also after the writer is gone, a FIN followed the *)
(* answer to the handshake, and a connection that is open or closing has   *)
(* its socket, so that enqueue() does queue.                               *)
LineInv ==
    /\ Ended(Line)
    /\ outClose => AfterClose(Line)
    /\ outShut => Line = <<>> /\ Answered
    /\ outClose \/ HasClose(Line) => sentClose
    /\ ~done /\ wr # "done" /\ sentClose => outClose \/ HasClose(Line)
HasSocket == task \in {"start", "run"} \/ state \in {"open", "closing"} => tcp # "none"

(* Frames behind a line that has no Shutdown item: after a close frame     *)
(* only pongs and the shutdown.                                            *)
LEMMA EndedAppend ==
    ASSUME NEW line \in Seq(Units), NEW frames \in Seq(Units), Ended(line), Ended(frames),
           \A i \in 1..Len(line) : line[i].op # "shutdown",
           HasClose(line) => AfterClose(frames)
    PROVE  /\ line \o frames \in Seq(Units)
           /\ Ended(line \o frames)
           /\ HasClose(line \o frames) <=> HasClose(line) \/ HasClose(frames)
           /\ AfterClose(line) /\ AfterClose(frames) => AfterClose(line \o frames)
<1> DEFINE all == line \o frames
           n == Len(line)
           m == Len(frames)
<1>1. all \in Seq(Units) /\ Len(all) = n + m /\ n \in Nat /\ m \in Nat
  OBVIOUS
<1>2. /\ \A i \in 1..n : all[i] = line[i]
      /\ \A i \in 1..m : all[n + i] = frames[i]
  OBVIOUS
<1>3. \A i \in 1..(n + m) : i \in 1..n \/ (i - n \in 1..m /\ all[i] = frames[i - n])
  BY <1>1, <1>2
<1>4. HasClose(all) <=> HasClose(line) \/ HasClose(frames)
  <2>1. HasClose(line) => HasClose(all)
    BY <1>1, <1>2 DEF HasClose
  <2>2. HasClose(frames) => HasClose(all)
    <3>1. ASSUME NEW i \in 1..m, frames[i].op = "close" PROVE HasClose(all)
      <4>1. n + i \in 1..Len(all) /\ all[n + i].op = "close"
        BY <1>1, <1>2, <3>1
      <4> QED
        BY <4>1 DEF HasClose
    <3> QED
      BY <3>1 DEF HasClose
  <2>3. HasClose(all) => HasClose(line) \/ HasClose(frames)
    BY <1>1, <1>2, <1>3 DEF HasClose
  <2> QED
    BY <2>1, <2>2, <2>3
<1>5. ASSUME NEW i \in 1..Len(all), NEW j \in 1..Len(all), i < j
      PROVE  /\ all[i].op # "shutdown"
             /\ all[i].op = "close" => all[j].op \in {"pong", "shutdown"}
  <2>1. CASE i \in 1..n /\ j \in 1..n
    BY <1>2, <1>5, <2>1 DEF Ended
  <2>2. CASE i \in 1..n /\ j \notin 1..n
    <3>1. j - n \in 1..m /\ all[j] = frames[j - n]
      BY <1>1, <1>3, <2>2
    <3> QED
      BY <1>2, <2>2, <3>1 DEF HasClose, AfterClose
  <2>3. CASE i \notin 1..n
    <3>1. i - n \in 1..m /\ j - n \in 1..m /\ i - n < j - n /\ all[i] = frames[i - n] /\ all[j] = frames[j - n]
      BY <1>1, <1>3, <1>5, <2>3
    <3> QED
      BY <3>1 DEF Ended
  <2> QED
    BY <2>1, <2>2, <2>3
<1>6. AfterClose(line) /\ AfterClose(frames) => AfterClose(all)
  BY <1>1, <1>2, <1>3 DEF AfterClose
<1> QED
  BY <1>1, <1>4, <1>5, <1>6 DEF Ended

(* Writing the head of the line, and what is left of it.                   *)
LEMMA EndedTake ==
    ASSUME NEW line \in Seq(Units), line # <<>>, Ended(line)
    PROVE  /\ Ended(Tail(line))
           /\ AfterClose(line) \/ Head(line).op = "close" => AfterClose(Tail(line))
           /\ Head(line).op = "shutdown" => Tail(line) = <<>>
           /\ HasClose(line) <=> Head(line).op = "close" \/ HasClose(Tail(line))
<1> DEFINE rest == Tail(line)
<1>1. /\ rest \in Seq(Units) /\ Len(rest) = Len(line) - 1 /\ Len(line) \in Nat \ {0} /\ Head(line) = line[1]
      /\ \A i \in 1..Len(rest) : rest[i] = line[i + 1] /\ i + 1 \in 1..Len(line) /\ 1 < i + 1
  OBVIOUS
<1>2. Head(line).op = "shutdown" => rest = <<>>
  <2>1. ASSUME Head(line).op = "shutdown", Len(rest) # 0 PROVE FALSE
    <3>1. 1 \in 1..Len(line) /\ 2 \in 1..Len(line) /\ 1 < 2
      BY <1>1, <2>1
    <3> QED
      BY <1>1, <2>1, <3>1 DEF Ended
  <2> QED
    BY <1>1, <2>1
<1>3. HasClose(line) <=> Head(line).op = "close" \/ HasClose(rest)
  <2>1. \A i \in 1..Len(line) : i = 1 \/ (i - 1 \in 1..Len(rest) /\ rest[i - 1] = line[i])
    BY <1>1
  <2>2. 1 \in 1..Len(line)
    BY <1>1
  <2> QED
    BY <1>1, <2>1, <2>2 DEF HasClose
<1>4. ASSUME NEW i \in 1..Len(rest), NEW j \in 1..Len(rest), i < j
      PROVE  /\ rest[i].op # "shutdown"
             /\ rest[i].op = "close" => rest[j].op \in {"pong", "shutdown"}
  <2>1. i + 1 \in 1..Len(line) /\ j + 1 \in 1..Len(line) /\ i + 1 < j + 1 /\ rest[i] = line[i + 1] /\ rest[j] = line[j + 1]
    BY <1>1, <1>4
  <2> QED
    BY <2>1 DEF Ended
<1>5. ASSUME NEW i \in 1..Len(rest), AfterClose(line) \/ Head(line).op = "close" PROVE rest[i].op \in {"pong", "shutdown"}
  <2>1. 1 \in 1..Len(line) /\ i + 1 \in 1..Len(line) /\ 1 < i + 1 /\ rest[i] = line[i + 1]
    BY <1>1
  <2> QED
    BY <1>1, <1>5, <2>1 DEF Ended, AfterClose
<1> QED
  BY <1>2, <1>3, <1>4, <1>5 DEF Ended, AfterClose

(* Either part of the line alone, when the other is dropped.               *)
LEMMA EndedPart ==
    ASSUME NEW first \in Seq(Units), NEW second \in Seq(Units), Ended(first \o second)
    PROVE  /\ Ended(first) /\ Ended(second)
           /\ AfterClose(first \o second) => AfterClose(first) /\ AfterClose(second)
           /\ HasClose(first) \/ HasClose(second) => HasClose(first \o second)
           /\ first \o second = <<>> => first = <<>> /\ second = <<>>
<1> DEFINE all == first \o second
           n == Len(first)
<1>1. /\ Len(all) = n + Len(second) /\ n \in Nat /\ Len(second) \in Nat
      /\ \A i \in 1..n : all[i] = first[i] /\ i \in 1..Len(all)
      /\ \A i \in 1..Len(second) : all[n + i] = second[i] /\ n + i \in 1..Len(all)
  OBVIOUS
<1>2. all = <<>> => first = <<>> /\ second = <<>>
  BY <1>1
<1>3. Ended(first)
  BY <1>1 DEF Ended
<1>4. ASSUME NEW i \in 1..Len(second), NEW j \in 1..Len(second), i < j
      PROVE  /\ second[i].op # "shutdown"
             /\ second[i].op = "close" => second[j].op \in {"pong", "shutdown"}
  <2>1. n + i \in 1..Len(all) /\ n + j \in 1..Len(all) /\ n + i < n + j
    BY <1>1, <1>4
  <2> QED
    BY <1>1, <2>1 DEF Ended
<1>5. AfterClose(all) => AfterClose(first) /\ AfterClose(second)
  BY <1>1 DEF AfterClose
<1>6. HasClose(first) \/ HasClose(second) => HasClose(all)
  BY <1>1 DEF HasClose
<1> QED
  BY <1>2, <1>3, <1>4, <1>5, <1>6 DEF Ended

(* The frames the link queues, and which of them holds a close.            *)
LEMMA FramesEnded ==
    /\ \A n \in Nat : Ended(DataFrame(n)) /\ ~HasClose(DataFrame(n))
    /\ Ended(CloseFrame) /\ HasClose(CloseFrame)
    /\ Ended(<<>>) /\ ~HasClose(<<>>) /\ AfterClose(<<>>)
    /\ \A n \in Nat : LET frame == <<Unit("pong", n)>> IN Ended(frame) /\ ~HasClose(frame) /\ AfterClose(frame)
    /\ Ended(<<Unit("hb", 0)>>) /\ ~HasClose(<<Unit("hb", 0)>>)
    /\ LET item == <<Unit("shutdown", 0)>> IN Ended(item) /\ ~HasClose(item) /\ AfterClose(item)
<1>1. ASSUME NEW n \in Nat PROVE Ended(DataFrame(n)) /\ ~HasClose(DataFrame(n))
  <2>1. Len(DataFrame(n)) = n
    BY DEF DataFrame
  <2>2. \A i \in 1..n : DataFrame(n)[i].op \in {"part", "data"}
    BY DEF DataFrame, Unit
  <2> QED
    BY <2>1, <2>2 DEF Ended, HasClose
<1>2. Ended(CloseFrame) /\ HasClose(CloseFrame)
  BY DEF Ended, HasClose, Unit, CloseFrame
<1>3. Ended(<<>>) /\ ~HasClose(<<>>) /\ AfterClose(<<>>)
  BY DEF Ended, HasClose, AfterClose
<1>4. ASSUME NEW n \in Nat
      PROVE  Ended(<<Unit("pong", n)>>) /\ ~HasClose(<<Unit("pong", n)>>) /\ AfterClose(<<Unit("pong", n)>>)
  BY DEF Ended, HasClose, AfterClose, Unit
<1>5. Ended(<<Unit("hb", 0)>>) /\ ~HasClose(<<Unit("hb", 0)>>)
  BY DEF Ended, HasClose, Unit
<1>6. Ended(<<Unit("shutdown", 0)>>) /\ ~HasClose(<<Unit("shutdown", 0)>>) /\ AfterClose(<<Unit("shutdown", 0)>>)
  BY DEF Ended, HasClose, AfterClose, Unit
<1> QED
  BY <1>1, <1>2, <1>3, <1>4, <1>5, <1>6

(* Frames are appended behind the queue, which is behind the writer's      *)
(* batch.                                                                  *)
LEMMA Regroup ==
    ASSUME NEW S, NEW a \in Seq(S), NEW b \in Seq(S), NEW c \in Seq(S)
    PROVE  a \o (b \o c) = (a \o b) \o c
<1>1. /\ a \o (b \o c) \in Seq(S) /\ (a \o b) \o c \in Seq(S)
      /\ Len(a \o (b \o c)) = Len((a \o b) \o c)
  OBVIOUS
<1>2. ASSUME NEW i \in 1..Len(a \o (b \o c)) PROVE (a \o (b \o c))[i] = ((a \o b) \o c)[i]
  <2>1. CASE i <= Len(a)
    BY <2>1
  <2>2. CASE i > Len(a) /\ i <= Len(a) + Len(b)
    BY <2>2
  <2>3. CASE i > Len(a) + Len(b)
    BY <2>3
  <2> QED
    BY <2>1, <2>2, <2>3
<1> QED
  BY <1>1, <1>2

(* enqueue() before the handshake was answered, on a connection that has   *)
(* its socket, keeps the line's end: a close frame is queued only with     *)
(* sent_close being set, and behind it only pongs.                         *)
LEMMA EnqueueEnds ==
    ASSUME QueueTypes, QueueInv, LineInv, ~Answered, tcp # "none",
           NEW frames, NoShut(frames), Ended(frames), sentClose => AfterClose(frames),
           NEW shut \in BOOLEAN, Enqueue(frames, shut),
           sentClose' <=> sentClose \/ HasClose(frames),
           UNCHANGED <<held, done, outClose, outShut>>, wr = "done" => wr' = "done"
    PROVE  LineInv'
<1>0. held \in Seq(Units) /\ items \in Seq(Units) /\ frames \in Seq(Units) /\ Line \in Seq(Units) /\ ~outShut
  <2>1. held \in Seq(Units) /\ items \in Seq(Units) /\ frames \in Seq(Units)
    BY DEF QueueTypes, NoShut
  <2> QED
    BY <2>1 DEF Line, LineInv
<1>1. /\ Ended(Line) /\ (outClose => AfterClose(Line)) /\ (outClose \/ HasClose(Line) => sentClose)
      /\ ~done /\ wr # "done" /\ sentClose => outClose \/ HasClose(Line)
  BY DEF LineInv
<1>2. CASE ~CanPush
  <2>1. done /\ done' /\ items' = items
    BY <1>2 DEF CanPush, Enqueue
  <2>2. Line' = Line
    BY <2>1 DEF Line
  <2> QED
    BY <1>0, <1>1, <2>1, <2>2 DEF LineInv
<1>3. CASE CanPush
  <2> DEFINE tail == IF shut THEN <<Unit("shutdown", 0)>> ELSE <<>>
             longer == Line \o frames
  <2>1. tail \in Seq(Units) /\ Ended(tail) /\ ~HasClose(tail) /\ AfterClose(tail)
    <3>1. <<Unit("shutdown", 0)>> \in Seq(Units) /\ <<>> \in Seq(Units)
      BY DEF Unit, Units
    <3> QED
      BY <3>1, FramesEnded
  <2>2. \A i \in 1..Len(Line) : Line[i].op # "shutdown"
    <3>1. /\ \A i \in 1..Len(held) : held[i].op # "shutdown"
          /\ \A i \in 1..Len(items) : items[i].op # "shutdown"
      BY DEF QueueInv
    <3> QED
      BY <1>0, <3>1, SMTT(30) DEF Line
  <2>3. /\ longer \in Seq(Units) /\ Ended(longer)
        /\ HasClose(longer) <=> HasClose(Line) \/ HasClose(frames)
        /\ outClose => AfterClose(longer)
    <3>1. HasClose(Line) => AfterClose(frames)
      BY <1>1
    <3> QED
      BY <1>0, <1>1, <2>2, <3>1, EndedAppend
  <2>4. \A i \in 1..Len(longer) : longer[i].op # "shutdown"
    BY <1>0, <2>2 DEF NoShut
  <2> HIDE DEF tail, longer
  <2>5. /\ Ended(longer \o tail) /\ (outClose => AfterClose(longer \o tail))
        /\ HasClose(longer \o tail) <=> HasClose(Line) \/ HasClose(frames)
    BY <2>1, <2>3, <2>4, EndedAppend
  <2>6. Line' = longer \o tail
    <3>1. items' = items \o frames \o tail
      BY <1>3 DEF Enqueue, tail
    <3>2. held' = held
      OBVIOUS
    <3>3. held \o ((items \o frames) \o tail) = ((held \o items) \o frames) \o tail
      <4>2. items \o frames \in Seq(Units)
        BY <1>0
      <4>3. held \o ((items \o frames) \o tail) = (held \o (items \o frames)) \o tail
        BY <1>0, <2>1, <4>2, Regroup, SMTT(30)
      <4>4. held \o (items \o frames) = (held \o items) \o frames
        BY <1>0, Regroup, SMTT(30)
      <4> QED
        BY <4>3, <4>4
    <3> QED
      BY <3>1, <3>2, <3>3 DEF Line, longer
  <2> QED
    BY <1>0, <1>1, <2>5, <2>6 DEF LineInv
<1> QED
  BY <1>2, <1>3

=============================================================================
