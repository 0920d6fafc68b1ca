--------------------------- MODULE HeartbeatProofs --------------------------
(***************************************************************************)
(* Heartbeat's safety for every interval, backlog and clock bound.         *)
(***************************************************************************)
EXTENDS Heartbeat, TLAPS

(* The inductive invariant: no time stamp is ahead of the clock, what was  *)
(* read covers what arrived unless input is still unread, a write covers   *)
(* the ping it sent, and the timer was armed for a deadline not after the  *)
(* one of now.                                                             *)
Stamps ==
    /\ {seen, written, queuedAt, sentAt, arrived} \subseteq 0..now
    /\ received \in 0..(now + 1)
    /\ ping = "sent" => sentAt <= written /\ queuedAt <= sentAt
    /\ sock = "none" => arrived <= Seen

HeartbeatInv == TypeOK /\ Stamps /\ TimerNeverLate /\ NoEarlyDrop

\* heartbeat_deadline() and heartbeat() agree: it decides something at now
\* exactly when now has reached the deadline the timer is armed for.
THEOREM DeadlineAgrees == TypeOK => (Verdict # "wait" <=> now >= Deadline)
  BY HeartbeatAssumption
     DEF TypeOK, Verdict, Decide, Deadline, Seen, Stall, Later, Since

\* The invariant holds when the reader starts.
LEMMA InitInv == Init => HeartbeatInv
<1> SUFFICES ASSUME Init PROVE HeartbeatInv
  OBVIOUS
<1>1. TypeOK
  <2>1. changed \in BOOLEAN
    BY Zenon DEF Init
  <2> QED
    BY <2>1, SMT DEF Init, TypeOK
<1>2. Stamps
  BY DEF Init, Stamps, Seen
<1> QED
  BY <1>1, <1>2 DEF Init, HeartbeatInv, TimerNeverLate, NoEarlyDrop

\* Every step, of the clock included, keeps the invariant.
LEMMA StepInv == HeartbeatInv /\ [Next]_vars => HeartbeatInv'
<1> SUFFICES ASSUME HeartbeatInv, [Next]_vars PROVE HeartbeatInv'
  OBVIOUS
<1> USE HeartbeatAssumption DEF HeartbeatInv, TypeOK, Stamps, TimerNeverLate, NoEarlyDrop
<1>1. ASSUME NEW kind \in {"partial", "data"}, Arrive(kind) PROVE HeartbeatInv'
  BY <1>1 DEF Arrive, clockVars, timeVars, pingVars, Deadline, Stall, Seen, Later
<1>2. CASE Top
  BY <1>2 DEF Top, clockVars, timeVars, pingVars, Deadline, Stall, Seen, Later
<1>3. CASE Consumed
  BY <1>3 DEF Consumed, clockVars, timeVars, pingVars, Deadline, Stall, Seen, Later
<1>4. CASE Changed
  BY <1>4 DEF Changed, clockVars, timeVars, pingVars, Deadline, Stall, Seen, Later
<1>5. CASE Read
  BY <1>5 DEF Read, clockVars, timeVars, pingVars, Deadline, Stall, Seen, Later
<1>6. CASE TimerFires
  <2>1. TypeOK' /\ Stamps' /\ rd' # "net"
    <3>1. CASE Verdict = "wait"
      BY <1>6, <3>1 DEF TimerFires, clockVars, pingVars, Seen, Later
    <3>2. CASE Verdict = "dead"
      BY <1>6, <3>2 DEF TimerFires, clockVars, pingVars, Seen, Later
    <3>3. CASE Verdict = "ping"
      BY <1>6, <3>3 DEF TimerFires, clockVars, pingVars, Seen, Later
    <3> QED
      BY <3>1, <3>2, <3>3 DEF Verdict, Decide
  <2>2. CASE Verdict = "dead"
    <3>1. sock = "none" /\ arrived <= Seen /\ UNCHANGED <<now, written, pingVars, arrived>>
      BY <1>6, <2>2 DEF TimerFires, Quiet, clockVars
    <3> QED
      BY <2>1, <2>2, <3>1 DEF Verdict, Decide, Stall, Seen, Later, Since, pingVars
  <2>3. CASE Verdict # "dead"
    BY <1>6, <2>1, <2>3 DEF TimerFires, clockVars, Verdict, Decide
  <2> QED
    BY <2>2, <2>3
<1>7. CASE WriteData
  BY <1>7 DEF WriteData, clockVars, timeVars, pingVars, Deadline, Stall, Seen, Later
<1>8. CASE WritePing
  BY <1>8 DEF WritePing, clockVars, timeVars, pingVars, Deadline, Stall, Seen, Later
<1>9. CASE Tick
  BY <1>9 DEF Tick, clockVars, timeVars, pingVars, Deadline, Stall, Seen, Later
<1>10. CASE UNCHANGED vars
  BY <1>10 DEF vars, clockVars, timeVars, pingVars, Deadline, Stall, Seen, Later
<1>11. QED
  BY <1>1, <1>2, <1>3, <1>4, <1>5, <1>6, <1>7, <1>8, <1>9, <1>10 DEF Next, Step

\* Every reachable state has the invariant, its type invariant included.
THEOREM Invariance == Spec => []HeartbeatInv
  BY InitInv, StepInv, PTL DEF Spec

\* heartbeat() never drops a peer that was heard from within an interval of
\* the ping, whatever is read late and however long the reader was throttled.
THEOREM NeverEarly == Spec => []NoEarlyDrop
<1>1. HeartbeatInv => NoEarlyDrop
  BY DEF HeartbeatInv
<1> QED
  BY <1>1, Invariance, PTL

\* The timer read_loop armed is never later than the deadline of the moment.
THEOREM NeverLate == Spec => []TimerNeverLate
<1>1. HeartbeatInv => TimerNeverLate
  BY DEF HeartbeatInv
<1> QED
  BY <1>1, Invariance, PTL

\* A timer wakeup that decides nothing was overtaken by a later deadline.
THEOREM NeverSpins == Spec => NoSpin
<1>1. ASSUME HeartbeatInv, [Next]_vars, TimerFires, rd' = "top", ping' = ping
      PROVE  Deadline' > now
  <2>1. Verdict = "wait" /\ UNCHANGED pingVars
    BY <1>1 DEF TimerFires, Verdict, Decide, HeartbeatInv, TypeOK, pingVars
  <2>2. Deadline > now
    BY <1>1, <2>1, DeadlineAgrees, HeartbeatAssumption
       DEF HeartbeatInv, TypeOK, Deadline, Seen, Stall, Later
  <2>3. Seen' = Seen
    BY <1>1 DEF TimerFires, Seen, Later, HeartbeatInv, TypeOK
  <2> QED
    BY <1>1, <2>1, <2>2, <2>3 DEF Deadline, Stall, Later, TimerFires, clockVars, pingVars, HeartbeatInv,
       TypeOK
<1>2. HeartbeatInv /\ [Next]_vars =>
        [TimerFires /\ rd' = "top" /\ ping' = ping => Deadline' > now]_vars
  BY <1>1
<1> QED
  BY <1>2, Invariance, PTL DEF Spec, NoSpin

\* While the reader was never kept waiting, unread input arrived just now, the
\* latest sign of life is its arrival, and the drop is in time.
PromptInv ==
    late = "no" /\ rd # "dead" =>
        /\ DropInTime
        /\ sock # "none" => arrived = now
        /\ Seen <= arrived

\* Every step keeps that: the clock by the timer, which is due no later than
\* the deadline, the others because they happen within a tick.
LEMMA PromptStep == HeartbeatInv /\ PromptInv /\ [Next]_vars => PromptInv'
<1> SUFFICES ASSUME HeartbeatInv, PromptInv, [Next]_vars, late' = "no", rd' # "dead"
             PROVE  PromptInv'
  BY DEF PromptInv
<1> USE HeartbeatAssumption DEF HeartbeatInv, TypeOK, Stamps, PromptInv, DropInTime
<1>1. ASSUME NEW kind \in {"partial", "data"}, Arrive(kind) PROVE PromptInv'
  BY <1>1 DEF Arrive, clockVars, timeVars, pingVars, Seen, Later
<1>2. CASE Top
  BY <1>2 DEF Top, clockVars, timeVars, pingVars, Seen, Later
<1>3. CASE Consumed
  BY <1>3 DEF Consumed, clockVars, timeVars, pingVars, Seen, Later
<1>4. CASE Changed
  BY <1>4 DEF Changed, clockVars, timeVars, pingVars, Seen, Later
<1>5. CASE Read
  BY <1>5 DEF Read, clockVars, timeVars, pingVars, Seen, Later
<1>6. CASE TimerFires
  <2>1. Seen' = Seen /\ UNCHANGED <<clockVars, received, written, sock, arrived>>
    BY <1>6 DEF TimerFires, Seen, Later
  <2>2. CASE Verdict = "wait"
    BY <1>6, <2>1, <2>2 DEF TimerFires, clockVars, pingVars, Later
  <2>3. CASE Verdict = "dead"
    BY <1>6, <2>3 DEF TimerFires
  <2>4. CASE Verdict = "ping"
    BY <1>6, <2>1, <2>4 DEF TimerFires, clockVars, Later
  <2> QED
    BY <2>2, <2>3, <2>4 DEF Verdict, Decide
<1>7. CASE WriteData
  BY <1>7 DEF WriteData, clockVars, timeVars, pingVars, Seen, Later
<1>8. CASE WritePing
  BY <1>8 DEF WritePing, clockVars, timeVars, pingVars, Seen, Later
<1>9. CASE Tick
  <2>1. late = "no" /\ rd = "net" /\ sock = "none" /\ now < target /\ target <= Deadline
    BY <1>9 DEF Tick, Due, TimerNeverLate
  <2>2. now' = now + 1 /\ UNCHANGED <<timeVars, pingVars, sock, arrived, rd>>
    BY <1>9 DEF Tick
  <2> QED
    BY <2>1, <2>2 DEF timeVars, pingVars, Deadline, Stall, Seen, Later
<1>10. CASE UNCHANGED vars
  BY <1>10 DEF vars, clockVars, timeVars, pingVars, Seen, Later
<1> QED
  BY <1>1, <1>2, <1>3, <1>4, <1>5, <1>6, <1>7, <1>8, <1>9, <1>10 DEF Next, Step

\* A silent peer is dropped within the intervals the option promises, as long as
\* neither the application nor the runtime keeps read_loop waiting.
THEOREM DropsInTime == Spec => []DropInTime
<1>1. Init => PromptInv
  BY HeartbeatAssumption DEF Init, PromptInv, DropInTime, Seen
<1>2. PromptInv => DropInTime
  BY DEF PromptInv, DropInTime
<1> QED
  BY <1>1, <1>2, PromptStep, Invariance, PTL DEF Spec

=============================================================================
