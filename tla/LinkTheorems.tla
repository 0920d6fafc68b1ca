---------------------------- MODULE LinkTheorems ----------------------------
(*****************************************************************************)
(* What is proved of every link: the invariant, that it implements          *)
(* Connection, and the safety properties the runs of MCLink check.          *)
(*****************************************************************************)
EXTENDS LinkWake

(* finish() is the abstract end of the connection, or nothing.             *)
LEMMA EndRefines ==
    ASSUME TypeOK, NEW p, NEW code, Finish(p, code), UNCHANGED hubUp,
           code \in {1000, 1002, 1005, Abnormal},
           state # "closed" => (code # Abnormal => state = "closing")
    PROVE  [ConnNext]_connVars
<1>1. CASE state = "closed"
  BY <1>1 DEF Finish, connVars
<1>2. CASE state # "closed"
  BY <1>2 DEF Finish, Ends, ConnNext
<1> QED
  BY <1>1, <1>2

(* The task's moves are abstract steps.                                    *)
LEMMA MovesRefine ==
    ASSUME TypeOK, ClosingInv, Moves, UNCHANGED hubUp, task = "run"
    PROVE  [ConnNext]_connVars
<1>0. state \in States /\ state # "connecting"
  BY DEF TypeOK, AppTypes, ClosingInv
<1>1. CASE UNCHANGED <<state, events, fin>> \/ (fin' = [fin EXCEPT ![Task] = "error"] /\ UNCHANGED <<state, events>>)
  BY <1>1 DEF connVars
<1>2. CASE Finish(Task, Abnormal)
  BY <1>2, EndRefines
<1>3. CASE Finish(Task, EndCode)
  <2>1. EndCode \in {1000, 1002, 1005, Abnormal}
    BY DEF EndCode, TypeOK, CloseTypes, NoCode, Violation
  <2>2. EndCode # Abnormal => state \in {"closing", "closed"}
    BY DEF EndCode, ClosingInv, Answered
  <2> QED
    BY <1>3, <2>1, <2>2, EndRefines
<1>4. ASSUME NEW kind \in Kinds, Emit(Task, kind), ~Finish(Task, Abnormal)
      PROVE  [ConnNext]_connVars
  <2>1. Reports(kind)
    BY <1>0, <1>4 DEF Emit, Reports, Sent
  <2> QED
    BY <2>1 DEF ConnNext, Kinds
<1>5. CASE state # "closed" /\ state' = "closing" /\ UNCHANGED <<events, fin>>
  BY <1>0, <1>5 DEF StartsClosing, ConnNext, connVars, States
<1> QED
  BY <1>1, <1>2, <1>3, <1>4, <1>5 DEF Moves

(* Every step of the link is a step of the abstract connection, or leaves  *)
(* it alone.                                                               *)
LEMMA Refines ==
    ASSUME TypeOK, ClosingInv, [Next]_vars
    PROVE  [ConnNext]_connVars
<1>1. ASSUME NEW p \in Procs, Ending(p) PROVE [ConnNext]_connVars
  <2>0. UNCHANGED hubUp
    BY <1>1, EndingFrame
  <2>1. CASE FailEmit(p) /\ ~Finish(p, Abnormal)
    <3>1. Reports("error")
      BY <2>1, <2>0 DEF FailEmit, Reports, Sent
    <3> QED
      BY <3>1 DEF ConnNext
  <2>2. CASE Finish(p, Abnormal)
    BY <2>0, <2>2, EndRefines
  <2>3. CASE StopWriter(p) \/ SignalStop(p) \/ ShutIo(p)
    BY <2>3 DEF StopWriter, SignalStop, ShutIo
  <2> QED
    BY <1>1, <2>1, <2>2, <2>3 DEF Ending, FailFinish
<1>2. ASSUME NEW a \in Apps, App(a) PROVE [ConnNext]_connVars
  <2>1. CASE (\E len \in Lens : Send(a, len)) \/ SendFull(a) \/ CloseConnecting(a) \/ CloseNotify(a)
    BY <2>1 DEF Send, SendFull, CloseConnecting, CloseNotify
  <2>2. CASE CloseOpen(a)
    BY <2>2 DEF CloseOpen, StartsClosing, ConnNext
  <2>3. CASE Terminate(a)
    BY <2>3, EndRefines DEF Terminate
  <2>4. CASE Recv(a)
    BY <2>4 DEF Recv, Takes, ConnNext
  <2>5. CASE HubClose(a)
    BY <2>5 DEF HubClose, HubCloses, ConnNext
  <2>6. CASE HubDrain(a)
    <3>1. ~hubUp
      BY <2>6 DEF HubDrain, ClosingInv
    <3> QED
      BY <2>6, <3>1 DEF HubDrain, HubDrains, ConnNext
  <2> QED
    BY <1>2, <2>1, <2>2, <2>3, <2>4, <2>5, <2>6 DEF App
<1>3. CASE Reader \/ Writer
  BY <1>3, ReaderMoves, WriterMoves, ReaderFrame, WriterFrame, MovesRefine
<1>4. CASE Established \/ StartLate \/ DeadlinePasses
  BY <1>4 DEF Established, StartLate, DeadlinePasses
<1>5. CASE EstablishEnds \/ TaskEnd
  <2>1. UNCHANGED hubUp /\ (UNCHANGED <<state, events>> \/ Finish(Task, Abnormal))
    BY <1>5 DEF EstablishEnds, TaskEnd
  <2> QED
    BY <2>1, EndRefines DEF connVars
<1>6. ASSUME NEW rest, Start(rest) PROVE [ConnNext]_connVars
  BY <1>6 DEF Start, Opens, ConnNext
<1>7. CASE UNCHANGED vars
  BY <1>7 DEF vars
<1> QED
  BY <1>1, <1>2, <1>3, <1>4, <1>5, <1>6, <1>7 DEF Next

(* The invariant holds of a new link.                                      *)
LEMMA InitInv == Init => TypeOK /\ ClosingInv /\ QueueInv
<1> SUFFICES ASSUME Init PROVE TypeOK /\ ClosingInv /\ QueueInv
  OBVIOUS
<1> USE DEF Init, ConnInit
<1>1. AppTypes
  BY DEF AppTypes, States, Calls, Stages
<1>2. CloseTypes
  <2>1. FALSE \in BOOLEAN /\ 0 \in Int
    OBVIOUS
  <2> QED
    BY <2>1, Zenon DEF CloseTypes
<1>3. QueueTypes
  <2>1. <<>> \in Seq(Units) /\ FALSE \in BOOLEAN /\ 0 \in Nat
    OBVIOUS
  <2> QED
    BY <2>1, Zenon DEF QueueTypes
<1>4. TaskTypes
  <2>1. <<>> \in Seq(Msgs) /\ FALSE \in BOOLEAN /\ TRUE \in BOOLEAN /\ 0 \in Nat
    OBVIOUS
  <2> QED
    BY <2>1, Zenon DEF TaskTypes
<1>5. WriterTypes
  <2>1. FALSE \in BOOLEAN /\ 0 \in Nat
    OBVIOUS
  <2> QED
    BY <2>1, Zenon DEF WriterTypes
<1>6. ClosingInv
  BY DEF ClosingInv, ClosingIsArmed, Answered
<1>7. QueueInv
  BY DEF QueueInv, Shut, Bytes
<1> QED
  BY <1>1, <1>2, <1>3, <1>4, <1>5, <1>6, <1>7 DEF TypeOK

LinkInv == TypeOK /\ ClosingInv /\ QueueInv

(* Every step keeps the invariant.                                         *)
LEMMA StepInv ==
    ASSUME LinkInv, [Next]_vars
    PROVE  LinkInv'
<1>1. CASE Next
  <2>1. wr = "write" => held # <<>>
    BY DEF LinkInv, QueueInv
  <2>2. TypeOK'
    BY <1>1, <2>1, AppTypesStep, CloseTypesStep, WriterTypesStep, TaskTypesStep, QueueStep DEF LinkInv, TypeOK
  <2> QED
    BY <1>1, <2>2, ClosingStep, QueueStep DEF LinkInv
<1>2. CASE UNCHANGED vars
  <2> USE <1>2 DEF vars, connVars, closeVars, queueVars, ioVars, taskVars, readVars, parseVars, writeVars, outVars, callVars
  <2>1. AppTypes' /\ CloseTypes' /\ QueueTypes' /\ TaskTypes' /\ WriterTypes'
    <3>1. AppTypes'
      BY DEF AppTypes, LinkInv, TypeOK
    <3>2. CloseTypes'
      BY SMTT(30) DEF CloseTypes, LinkInv, TypeOK
    <3>3. QueueTypes'
      BY DEF QueueTypes, LinkInv, TypeOK
    <3>4. TaskTypes'
      BY DEF TaskTypes, LinkInv, TypeOK
    <3>5. WriterTypes'
      BY DEF WriterTypes, LinkInv, TypeOK
    <3> QED
      BY <3>1, <3>2, <3>3, <3>4, <3>5
  <2>2. ClosingInv'
    BY DEF ClosingInv, ClosingIsArmed, Answered, LinkInv
  <2>3. QueueInv'
    BY DEF QueueInv, Answered, LinkInv
  <2> QED
    BY <2>1, <2>2, <2>3 DEF LinkInv, TypeOK
<1> QED
  BY <1>1, <1>2

(* Types, the closing handshake and the queue: the invariant the other     *)
(* theorems build on.                                                      *)
THEOREM LinkInvariance == Spec => []LinkInv
  BY InitInv, StepInv, PTL DEF Spec, LinkInv

(* The connection of link/ implements the abstract one: whatever threads,  *)
(* network and timers do, the application sees its state only move         *)
(* forward, at most one open, traffic only between open and close, and     *)
(* one close event whose status is 1006 unless a closing handshake began.  *)
THEOREM Implements == Spec => ImplementsConnection
<1>1. Init => ConnInit
  BY DEF Init
<1>2. LinkInv /\ [Next]_vars => [ConnNext]_connVars
  BY Refines DEF LinkInv
<1> QED
  BY <1>1, <1>2, LinkInvariance, PTL DEF Spec, ImplementsConnection, ConnSpec

Late == state \in {"closing", "closed"}

(* The inbox bound with what the reader still has to hand over: it reads   *)
(* only with an empty buffer, and below the limit or while closing.        *)
InboxInv ==
    /\ ~ok => rbuf = <<>>
    /\ Len(rbuf) <= ChunkMax
    /\ rd \in {"check", "inbox", "net", "beat"} => rbuf = <<>>
    /\ rd \in {"net", "beat"} => inbox < InboxLimit \/ Late
    /\ task \in {"establish", "start"} => inbox <= 0 /\ rbuf = <<>> /\ ok
    /\ \/ inbox + Len(rbuf) <= InboxLimit - 1 + ChunkMax
       \/ InboxLimit <= inbox /\ inbox <= InboxLimit - 1 + ChunkMax /\ Late

(* A connection that is closing or closed stays so.                        *)
LEMMA LateStays ==
    ASSUME LinkInv, Next, Late
    PROVE  Late'
<1>1. [ConnNext]_connVars
  BY Refines DEF LinkInv
<1> QED
  BY <1>1 DEF Late, ConnNext, connVars, Opens, StartsClosing, Takes, HubCloses, HubDrains, Reports, Ends

(* The arithmetic of the inbox: reading, delivering and consuming keep     *)
(* the bound.                                                              *)
LEMMA RoomLeft ==
    ASSUME NEW n \in Int, NEW k \in Nat, NEW n2 \in Int, NEW k2 \in Nat, NEW L \in Nat, NEW C \in Nat,
           NEW late, NEW late2, late => late2,
           n + k <= L - 1 + C \/ (L <= n /\ n <= L - 1 + C /\ late),
           k <= C, k2 <= C,
           \/ n2 = n /\ k2 <= k
           \/ n2 = n - 1 /\ k2 <= k
           \/ n2 = n + 1 /\ k2 <= k - 1 /\ ~(n >= L /\ late)
           \/ n2 = n /\ k = 0 /\ (n < L \/ late)
    PROVE  n2 + k2 <= L - 1 + C \/ (L <= n2 /\ n2 <= L - 1 + C /\ late2)
  OBVIOUS

(* Every step keeps InboxInv.                                              *)
LEMMA InboxStep ==
    ASSUME LinkInv, InboxInv, Next
    PROVE  InboxInv'
<1>0. /\ inbox \in Int /\ InboxLimit \in Nat /\ ChunkMax \in Nat /\ inbox' \in Int
      /\ rbuf \in Seq(Msgs) /\ rbuf' \in Seq(Msgs) /\ Len(rbuf) \in Nat /\ Len(rbuf') \in Nat
  <2>1. inbox \in Int /\ inbox' \in Int
    BY CloseTypesStep DEF LinkInv, TypeOK, CloseTypes
  <2>2. rbuf \in Seq(Msgs) /\ rbuf' \in Seq(Msgs)
    BY TaskTypesStep DEF LinkInv, TypeOK, TaskTypes
  <2>3. InboxLimit \in Nat /\ ChunkMax \in Nat
    BY LinkAssumption
  <2> QED
    BY <2>1, <2>2, <2>3
<1>1. /\ Late => Late'
      /\ Len(rbuf) <= ChunkMax
      /\ \/ inbox + Len(rbuf) <= InboxLimit - 1 + ChunkMax
         \/ InboxLimit <= inbox /\ inbox <= InboxLimit - 1 + ChunkMax /\ Late
  BY LateStays DEF InboxInv
<1>2. ASSUME UNCHANGED rbuf, inbox' = inbox \/ inbox' = inbox - 1,
             ok' = ok, rd' = rd \/ rd' \notin {"check", "inbox", "net", "beat"},
             task' = task \/ task' \notin {"establish", "start"} \/ (task = "establish" /\ task' = "start")
      PROVE  InboxInv'
  <2>1. \/ inbox' + Len(rbuf') <= InboxLimit - 1 + ChunkMax
        \/ InboxLimit <= inbox' /\ inbox' <= InboxLimit - 1 + ChunkMax /\ Late'
    BY <1>0, <1>1, <1>2, RoomLeft
  <2>2. /\ rd' \in {"net", "beat"} => inbox' < InboxLimit \/ Late'
        /\ task' \in {"establish", "start"} => inbox' <= 0 /\ rbuf' = <<>> /\ ok'
    BY <1>0, <1>1, <1>2 DEF InboxInv
  <2> QED
    BY <1>1, <1>2, <2>1, <2>2 DEF InboxInv
<1>3. ASSUME NEW p \in Procs, Ending(p) PROVE InboxInv'
  BY <1>2, <1>3, EndingFrame DEF taskVars, readVars, parseVars
<1>4. ASSUME NEW a \in Apps, App(a) PROVE InboxInv'
  <2>1. inbox' = inbox \/ inbox' = inbox - 1
    BY <1>4 DEF App, Send, SendFull, CloseOpen, CloseConnecting, CloseNotify, Terminate, Recv, HubClose, HubDrain
  <2> QED
    BY <1>2, <1>4, <2>1, AppFrame DEF taskVars, readVars, parseVars
<1>5. CASE Writer
  BY <1>2, <1>5, WriterFrame DEF parseVars
<1>6. CASE Established \/ EstablishEnds \/ StartLate \/ DeadlinePasses
  BY <1>2, <1>6 DEF Established, EstablishEnds, StartLate, DeadlinePasses, taskVars, readVars, parseVars
<1>7. ASSUME rbuf' = <<>>, task' \notin {"establish", "start"}, inbox' = inbox,
             rd' \in {"net", "beat"} => inbox < InboxLimit \/ Late
      PROVE  InboxInv'
  <2>0. Len(rbuf') = 0
    BY <1>7
  <2>1. \/ inbox' + Len(rbuf') <= InboxLimit - 1 + ChunkMax
        \/ InboxLimit <= inbox' /\ inbox' <= InboxLimit - 1 + ChunkMax /\ Late'
    BY <1>0, <1>1, <1>7, <2>0, RoomLeft
  <2> QED
    BY <1>0, <1>1, <1>7, <2>0, <2>1 DEF InboxInv
<1>8. CASE TaskEnd
  BY <1>7, <1>8 DEF TaskEnd, ReaderGone
<1>9. ASSUME NEW chunk \in Chunks \cup {<<>>}, rbuf = <<>>, rbuf' = chunk, inbox' = inbox, inbox < InboxLimit \/ Late,
             rd' = "top", ok', task' = "run"
      PROVE  InboxInv'
  <2>1. Len(rbuf') <= ChunkMax
    BY <1>0, <1>9, LinkAssumption
  <2>2. Len(rbuf) = 0
    BY <1>9
  <2>3. \/ inbox' + Len(rbuf') <= InboxLimit - 1 + ChunkMax
        \/ InboxLimit <= inbox' /\ inbox' <= InboxLimit - 1 + ChunkMax /\ Late'
    BY <1>0, <1>1, <1>9, <2>1, <2>2, RoomLeft
  <2> QED
    BY <1>9, <2>1, <2>3 DEF InboxInv
<1>10. ASSUME NEW rest \in Chunks \cup {<<>>}, Start(rest) PROVE InboxInv'
  <2>1. task = "start" /\ inbox' = inbox /\ ok' = ok
    BY <1>10 DEF Start
  <2>2. inbox <= 0 /\ rbuf = <<>> /\ ok
    BY <2>1 DEF InboxInv
  <2>3. CASE hubUp
    <3>1. inbox < InboxLimit
      BY <1>0, <2>2, LinkAssumption
    <3>2. task' = "run" /\ rd' = "top" /\ rbuf' = rest
      BY <1>10, <2>3 DEF Start
    <3> QED
      BY <1>9, <2>1, <2>2, <3>1, <3>2
  <2>4. CASE ~hubUp
    BY <1>2, <1>10, <2>1, <2>4 DEF Start
  <2> QED
    BY <2>3, <2>4
<1>11. CASE Reader
  <2>0. task = "run" /\ task' = "run" /\ (~ok => rbuf = <<>>)
    BY <1>11, ReaderMoves, ReaderFrame DEF InboxInv
  <2>1. ASSUME NEW kind, Deliver(kind), Handled(FALSE), rd = "dispatch" PROVE InboxInv'
    <3>1. rbuf # <<>> /\ state # "connecting"
      BY <2>0, <2>1 DEF LinkInv, ClosingInv
    <3>2. Len(Tail(rbuf)) = Len(rbuf) - 1 /\ Len(<<>>) = 0 /\ Len(rbuf) > 0
      BY <1>0, <3>1
    <3>3. Len(rbuf') <= Len(rbuf) - 1
      BY <2>1, <3>2 DEF Handled
    <3>4. inbox' = inbox \/ (inbox' = inbox + 1 /\ ~(inbox >= InboxLimit /\ Late))
      BY <2>1 DEF Deliver, Overfull, Late
    <3>5. \/ inbox' + Len(rbuf') <= InboxLimit - 1 + ChunkMax
          \/ InboxLimit <= inbox' /\ inbox' <= InboxLimit - 1 + ChunkMax /\ Late'
      <4>1. Len(rbuf') <= Len(rbuf) /\ Len(rbuf') <= ChunkMax
        BY <1>0, <1>1, <3>3
      <4> QED
        BY <1>0, <1>1, <3>3, <3>4, <4>1, RoomLeft
    <3>6. rd' \notin {"inbox", "net", "beat"} /\ (rd' = "check" => rbuf' = <<>>) /\ (~ok' => rbuf' = <<>>)
      <4>1. ok
        BY <2>1 DEF LinkInv, ClosingInv
      <4>2. rd' \in {"dispatch", "flush", "check"} /\ (rd' = "check" => rbuf' = <<>>)
        BY <2>1 DEF Handled, AfterDispatch
      <4>3. ~ok' => rbuf' = <<>>
        BY <2>1, <4>1 DEF Handled
      <4> QED
        BY <4>2, <4>3
    <3>7. Len(rbuf') <= ChunkMax
      BY <1>0, <1>1, <3>3
    <3> QED
      BY <2>0, <3>5, <3>6, <3>7 DEF InboxInv
  <2>2. ASSUME NEW closing \in BOOLEAN, Handled(closing), rd = "dispatch" \/ closing, inbox' = inbox PROVE InboxInv'
    <3>1. rd = "dispatch" => rbuf # <<>>
      BY DEF LinkInv, ClosingInv
    <3>2. rd = "dispatch" => Len(Tail(rbuf)) = Len(rbuf) - 1
      BY <1>0, <3>1
    <3>3. rbuf' = <<>> \/ (rd = "dispatch" /\ rbuf' = Tail(rbuf))
      BY <2>2 DEF Handled
    <3>4. Len(rbuf') <= Len(rbuf)
      <4>1. CASE rbuf' = <<>>
        <5>1. Len(rbuf') = 0
          BY <4>1
        <5> QED
          BY <1>0, <5>1
      <4>2. CASE rd = "dispatch" /\ rbuf' = Tail(rbuf)
        <5>1. Len(rbuf') = Len(rbuf) - 1
          BY <3>2, <4>2
        <5> QED
          BY <1>0, <5>1
      <4> QED
        BY <3>3, <4>1, <4>2
    <3>5. Len(rbuf') <= ChunkMax
      BY <1>0, <1>1, <3>4
    <3>6. \/ inbox' + Len(rbuf') <= InboxLimit - 1 + ChunkMax
          \/ InboxLimit <= inbox' /\ inbox' <= InboxLimit - 1 + ChunkMax /\ Late'
      BY <1>0, <1>1, <2>2, <3>4, <3>5, RoomLeft
    <3>7. rd' \notin {"inbox", "net", "beat"} /\ (rd' = "check" => rbuf' = <<>>) /\ (~ok' => rbuf' = <<>>)
      <4>1. rd = "dispatch" => ok
        BY DEF LinkInv, ClosingInv
      <4>2. rd' \in {"dispatch", "flush", "check"} /\ (rd' = "check" => rbuf' = <<>>)
        BY <2>2 DEF Handled, AfterDispatch
      <4>3. ~ok' => rbuf' = <<>>
        BY <2>2, <4>1 DEF Handled
      <4> QED
        BY <4>2, <4>3
    <3> QED
      BY <2>0, <3>5, <3>6, <3>7 DEF InboxInv
  <2>3. CASE HandleText
    BY <2>1, <2>2, <2>3 DEF HandleText, Handling
  <2>4. CASE HandlePong
    BY <2>1, <2>2, <2>4 DEF HandlePong, Handling
  <2>5. CASE HandlePing
    BY <2>1, <2>5 DEF HandlePing, Handling
  <2>6. CASE HandleClose
    BY <2>2, <2>6 DEF HandleClose
  <2>7. CASE Violate
    BY <2>2, <2>7 DEF Violate
  <2>8. CASE ReadDone
    BY <1>7, <2>0, <2>8 DEF ReadDone, ReaderGone
  <2>9. CASE HandleBad \/ Flush \/ FlushWake
    BY <1>2, <2>0, <2>9 DEF HandleBad, Flush, FlushWake, parseVars
  <2>10. CASE ReadTop
    <3>1. inbox' = inbox /\ UNCHANGED <<ok, rbuf>> /\ rd' \in {"dispatch", "check", "flush"}
      BY <2>10 DEF ReadTop, Leave
    <3>2. rd' = "check" => rbuf' = <<>>
      BY <2>0, <2>10 DEF ReadTop, Leave
    <3> QED
      BY <1>2, <1>7, <2>0, <3>1, <3>2
  <2>11. CASE Check
    <3>1. inbox' = inbox /\ rbuf' = rbuf /\ rbuf = <<>>
      BY <2>11 DEF Check, InboxInv
    <3>2. state \in States /\ state # "connecting"
      BY <2>0 DEF LinkInv, TypeOK, AppTypes, ClosingInv
    <3>3. rd' \in {"net", "beat"} => inbox < InboxLimit \/ Late
      BY <1>0, <2>11, <3>2 DEF Check, Leave, Throttled, Late, States
    <3> QED
      BY <1>7, <2>0, <3>1, <3>3
  <2>12. CASE Beat \/ WakeStopped \/ TimerDeadline \/ ReadEnds
    BY <1>2, <2>0, <2>12 DEF Beat, WakeStopped, TimerDeadline, ReadEnds, Leave, Resume
  <2>13. CASE \E permit \in {"changed", "consumed"} : WakeNotified(permit)
    BY <1>2, <2>0, <2>13 DEF WakeNotified, Resume
  <2>14. CASE TimerHeartbeat
    <3>1. inbox' = inbox /\ rbuf' = rbuf /\ rd = "net"
      BY <2>14 DEF TimerHeartbeat
    <3> QED
      BY <1>7, <2>0, <3>1 DEF InboxInv
  <2>15. ASSUME NEW chunk \in Chunks, ReadChunk(chunk) PROVE InboxInv'
    <3>1. inbox' = inbox /\ rd' = "top" /\ ok' = ok /\ rd = "net" /\ rbuf' = IF ok THEN rbuf \o chunk ELSE rbuf
      BY <2>15 DEF ReadChunk, Resume
    <3>2. rbuf = <<>> /\ (inbox < InboxLimit \/ Late)
      BY <3>1 DEF InboxInv
    <3>3. CASE ok
      <4>1. chunk \in Seq(Msgs)
        BY LinkAssumption
      <4>2. rbuf' = chunk
        BY <3>1, <3>2, <3>3, <4>1
      <4> QED
        BY <1>9, <2>0, <3>1, <3>2, <3>3, <4>2
    <3>4. CASE ~ok
      BY <1>7, <2>0, <3>1, <3>2, <3>4
    <3> QED
      BY <3>3, <3>4
  <2> QED
    BY <1>11, <2>3, <2>4, <2>5, <2>6, <2>7, <2>8, <2>9, <2>10, <2>11, <2>12, <2>13, <2>14, <2>15
       DEF Reader, ReaderRuns, ReaderWakes
<1> QED
  BY <1>3, <1>4, <1>5, <1>6, <1>8, <1>10, <1>11 DEF Next

(* Every abstract step keeps the close event last.                         *)
LEMMA CloseFinalStep ==
    ASSUME events \in Seq(Events), CloseIsFinal, [ConnNext]_connVars
    PROVE  CloseIsFinal'
<1>0. Len(events) \in Nat
  OBVIOUS
<1>1. state # "closed" => \A i \in 1..Len(events) : events[i].kind # "close"
  BY DEF CloseIsFinal
<1>2. ASSUME NEW event, event \in Events, state # "closed", events' = Append(events, event),
             event.kind = "close" => state' = "closed"
      PROVE  CloseIsFinal'
  <2>1. Len(events') = Len(events) + 1 /\ events'[Len(events) + 1] = event
        /\ \A i \in 1..Len(events) : events'[i] = events[i]
    BY <1>2
  <2>2. ASSUME NEW i \in 1..Len(events'), events'[i].kind = "close"
        PROVE  state' = "closed" /\ i = Len(events')
    <3>1. i \in 1..Len(events) \/ i = Len(events) + 1
      BY <1>0, <2>1, SMTT(30)
    <3>2. i \notin 1..Len(events)
      <4>1. ASSUME i \in 1..Len(events) PROVE FALSE
        <5>1. events'[i] = events[i]
          BY <2>1, <4>1
        <5> QED
          BY <1>1, <1>2, <2>2, <4>1, <5>1
      <4> QED
        BY <4>1
    <3> QED
      BY <1>2, <2>1, <2>2, <3>1, <3>2
  <2> QED
    BY <2>2 DEF CloseIsFinal
<1>3. CASE UNCHANGED events /\ (state = "closed" => state' = "closed")
  BY <1>3 DEF CloseIsFinal
<1>4. ASSUME NEW kind \in Kinds \cup {"open"}, state # "closed", events' = Sent(Event(kind)) PROVE CloseIsFinal'
  <2>1. Event(kind) \in Events /\ Event(kind).kind # "close"
    BY DEF Event, Events, Kinds, Inbound
  <2> QED
    BY <1>2, <1>3, <1>4, <2>1 DEF Sent
<1>5. ASSUME NEW code \in Nat, state # "closed", state' = "closed", events' = Sent(CloseEvent(code)) PROVE CloseIsFinal'
  <2>1. CloseEvent(code) \in Events
    BY DEF CloseEvent, Events
  <2> QED
    BY <1>2, <1>3, <1>5, <2>1 DEF Sent
<1>6. CASE Takes
  <2>1. events # <<>> /\ events' = Tail(events) /\ state' = state
    BY <1>6 DEF Takes
  <2>2. Len(events') = Len(events) - 1 /\ \A i \in 1..Len(events') : events'[i] = events[i + 1]
    BY <2>1
  <2>3. ASSUME NEW i \in 1..Len(events'), events'[i].kind = "close"
        PROVE  state' = "closed" /\ i = Len(events')
    <3>0. events'[i] = events[i + 1]
      BY <2>2
    <3>1. i + 1 \in 1..Len(events) /\ events[i + 1].kind = "close"
      BY <1>0, <2>2, <2>3, <3>0
    <3>2. state = "closed" /\ i + 1 = Len(events)
      BY <3>1 DEF CloseIsFinal
    <3>3. i \in Nat /\ Len(events') = Len(events) - 1
      BY <1>0, <2>2
    <3>4. i = Len(events')
      BY <1>0, <3>2, <3>3
    <3> QED
      BY <2>1, <3>2, <3>4
  <2> QED
    BY <2>3 DEF CloseIsFinal
<1>7. CASE HubDrains
  <2>1. Len(events') = 0
    BY <1>7 DEF HubDrains
  <2> QED
    BY <2>1 DEF CloseIsFinal
<1>8. CASE Opens
  BY <1>4, <1>8 DEF Opens
<1>9. CASE StartsClosing \/ HubCloses \/ UNCHANGED connVars
  BY <1>3, <1>9 DEF StartsClosing, HubCloses, connVars
<1>10. ASSUME NEW kind \in Inbound \cup {"error", "drain"}, Reports(kind) PROVE CloseIsFinal'
  BY <1>4, <1>10 DEF Reports, Kinds
<1>11. ASSUME NEW code \in {1000, 1002, 1005, Abnormal}, Ends(code) PROVE CloseIsFinal'
  BY <1>5, <1>11 DEF Ends, Abnormal
<1> QED
  BY <1>6, <1>7, <1>8, <1>9, <1>10, <1>11 DEF ConnNext

(* The queue's invariant gives Accounting, which speaks of the whole       *)
(* line.                                                                   *)
LEMMA CountsTheLine ==
    ASSUME QueueTypes, QueueInv
    PROVE  Accounting
<1>0. held \in Seq(Units) /\ items \in Seq(Units) /\ buffered \in Nat /\ shutdown \in BOOLEAN
      /\ Len(held) \in Nat /\ Len(items) \in Nat
  BY DEF QueueTypes
<1>1. Line \in Seq(Units) /\ Len(Line) = Len(held) + Len(items)
  BY <1>0 DEF Line
<1>2. Shut(Line) <=> Shut(items) \/ (items = <<>> /\ Shut(held))
  <2>1. CASE items = <<>>
    <3>1. Line = held
      BY <1>0, <2>1 DEF Line
    <3>2. ~Shut(<<>>)
      BY DEF Shut
    <3> QED
      BY <2>1, <3>1, <3>2
  <2>2. CASE items # <<>>
    <3>1. Len(items) > 0
      BY <1>0, <2>2
    <3>2. Line[Len(Line)] = items[Len(items)] /\ Line # <<>>
      BY <1>0, <1>1, <3>1 DEF Line
    <3> QED
      BY <2>2, <3>2 DEF Shut
  <2> QED
    BY <2>1, <2>2
<1>3. Bytes(Line) = IF Shut(Line) THEN Len(Line) - 1 ELSE Len(Line)
  BY DEF Bytes, Shut
<1>4. ~done /\ wr # "done" =>
          /\ Len(held) + Len(items) = IF shutdown THEN buffered + 1 ELSE buffered
          /\ shutdown <=> Shut(items) \/ (items = <<>> /\ Shut(held))
  BY DEF QueueInv
<1>5. ~done /\ wr # "done" => buffered = Bytes(Line) /\ (shutdown <=> Len(Line) > Bytes(Line))
  BY <1>0, <1>1, <1>2, <1>3, <1>4
<1> QED
  BY <1>5 DEF Accounting, QueueInv

(* Type correctness: in particular progress() never takes more from        *)
(* buffered than it holds.                                                 *)
THEOREM TypesHold == Spec => []TypeOK
  BY LinkInvariance, PTL DEF LinkInv

(* buffered, an atomic that send(), the pongs, the reader and progress()   *)
(* all update, is exactly what waits in the queue and in the writer's      *)
(* batch.                                                                  *)
THEOREM QueueAccounted == Spec => []Accounting
<1>1. LinkInv => Accounting
  BY CountsTheLine DEF LinkInv, TypeOK
<1> QED
  BY <1>1, LinkInvariance, PTL

(* No connection is left closing without a close timeout, and the peer's   *)
(* close and our own violation exclude each other.                         *)
THEOREM ClosingArmed == Spec => []ClosingIsArmed
<1>1. LinkInv => ClosingIsArmed
  BY DEF LinkInv, ClosingInv
<1> QED
  BY <1>1, LinkInvariance, PTL

(* The close event is the last event of a connection, in whatever order    *)
(* threads end it.                                                         *)
THEOREM CloseEventLast == Spec => []CloseIsFinal
<1>1. Init => CloseIsFinal
  BY SMTT(30) DEF Init, ConnInit, CloseIsFinal
<1>2. LinkInv /\ CloseIsFinal /\ [Next]_vars => CloseIsFinal'
  BY CloseFinalStep, Refines DEF LinkInv, TypeOK, AppTypes
<1> QED
  BY <1>1, <1>2, LinkInvariance, PTL DEF Spec

(* A closed connection's socket is down, or a thread inside finish() or    *)
(* start() is about to take it down.                                       *)
THEOREM SocketsReleased == Spec => []SocketReleased
<1>1. Init => SocketReleased
  BY DEF Init, ConnInit, SocketReleased
<1>2. LinkInv /\ SocketReleased /\ [Next]_vars => SocketReleased'
  <2>1. LinkInv /\ SocketReleased /\ UNCHANGED vars => SocketReleased'
    BY DEF SocketReleased, vars, connVars, ioVars, taskVars
  <2> QED
    BY <2>1, SocketStep DEF LinkInv
<1> QED
  BY <1>1, <1>2, LinkInvariance, PTL DEF Spec

(* A send that was refused and would now fit was told so by a Drain        *)
(* event: the second look in send() and progress() exclude each other.     *)
THEOREM DrainNotMissed == Spec => []NoMissedDrain
<1>1. Init => NoMissedDrain
  BY DEF Init, NoMissedDrain
<1>2. LinkInv /\ NoMissedDrain /\ [Next]_vars => NoMissedDrain'
  <2>1. LinkInv /\ NoMissedDrain /\ UNCHANGED vars => NoMissedDrain'
    BY DEF NoMissedDrain, Fits, vars, queueVars
  <2> QED
    BY <2>1, DrainStep DEF LinkInv
<1> QED
  BY <1>1, <1>2, LinkInvariance, PTL DEF Spec

(* No future of the task waits on a Notify for something that already      *)
(* happened.                                                               *)
THEOREM WakeupsNotLost == Spec => []NoLostWakeup
<1>1. Init => NoLostWakeup
  BY DEF Init, ConnInit, NoLostWakeup
<1>2. LinkInv /\ NoLostWakeup /\ [Next]_vars => NoLostWakeup'
  <2>1. LinkInv /\ NoLostWakeup /\ UNCHANGED vars => NoLostWakeup'
    <3>1. UNCHANGED vars => UNCHANGED <<wr, items, pong, done, permits, rd, inbox, state, deadline, armed, buffered, shutdown, stopped, fin>>
      BY DEF vars, connVars, closeVars, queueVars, ioVars, taskVars, readVars, writeVars
    <3> QED
      BY <3>1 DEF NoLostWakeup, Pending, StopComing
  <2> QED
    BY <2>1, WakeupStep DEF LinkInv
<1> QED
  BY <1>1, <1>2, LinkInvariance, PTL DEF Spec

(* The inbox holds at most the events of one read beyond its limit, also   *)
(* while closing.                                                          *)
THEOREM InboxStaysBounded == Spec => []InboxBounded
<1>0. InboxLimit \in Nat \ {0} /\ ChunkMax \in Nat
  BY LinkAssumption
<1>1. Init => InboxInv
  <2>1. ASSUME Init PROVE InboxInv
    <3>1. inbox = 0 /\ rbuf = <<>> /\ ok /\ rd = "off" /\ Len(rbuf) = 0
      BY <2>1 DEF Init
    <3> QED
      BY <1>0, <3>1 DEF InboxInv
  <2> QED
    BY <2>1
<1>2. LinkInv /\ InboxInv /\ [Next]_vars => InboxInv'
  <2>1. LinkInv /\ InboxInv /\ UNCHANGED vars => InboxInv'
    <3>1. UNCHANGED vars => UNCHANGED <<ok, rbuf, rd, inbox, state, task>>
      BY DEF vars, connVars, taskVars, readVars, parseVars
    <3> QED
      BY <3>1 DEF InboxInv, Late
  <2> QED
    BY <2>1, InboxStep
<1>3. LinkInv /\ InboxInv => InboxBounded
  <2>1. ASSUME LinkInv, InboxInv PROVE InboxBounded
    <3>1. inbox \in Int /\ rbuf \in Seq(Msgs)
      BY <2>1 DEF LinkInv, TypeOK, CloseTypes, TaskTypes
    <3>2. Len(rbuf) \in Nat
      BY <3>1
    <3> QED
      BY <1>0, <2>1, <3>1, <3>2 DEF InboxInv, InboxBounded
  <2> QED
    BY <2>1
<1> QED
  BY <1>1, <1>2, <1>3, LinkInvariance, PTL DEF Spec

=============================================================================
