---------------------------- MODULE SignalProofs ----------------------------
(***************************************************************************)
(* Signal implements Cancellation and loses no wakeup, for any number of   *)
(* waiters, setters and tasks.  The argument is SignalInv: a waiter parks  *)
(* only with its own waker in Notify's list and only while the flag is     *)
(* clear, so the one notify_waiters() that follows the swap finds it there.*)
(***************************************************************************)
EXTENDS Signal, TLAPS

WaiterInv(w) ==
    /\ registered[w] = stored[w]
    /\ entry[w] = "fired" => set
    /\ pc[w] \in Polling \cup {"parked"} => cur[w] \in Wakers
    /\ pc[w] = "enabling" => entry[w] \in {"created", "fired"}
    /\ pc[w] \in {"checking", "polling", "rechecking", "parked"} => entry[w] \in {"listed", "fired"}
    /\ pc[w] = "rechecking" => registered[w] = cur[w] \/ entry[w] = "fired"
    /\ pc[w] = "parked" => registered[w] = cur[w]
    /\ pc[w] = "parked" /\ entry[w] = "listed" => ~Notified
    /\ pc[w] = "parked" /\ entry[w] = "fired" => cur[w] \in woken[w]

SignalInv ==
    /\ TypeOK
    /\ \A s \in Setters : setter[s] = "swapped" => set
    /\ \A w \in Waiters : WaiterInv(w)

(* No notification is pending before the swap, and the initial state has   *)
(* no waiter at all.                                                       *)
LEMMA InvInit == Init => SignalInv
  <1> SUFFICES ASSUME Init PROVE SignalInv
    OBVIOUS
  <1>1. TypeOK
    BY DEF Init, TypeOK, OrNone, Polling
  <1>2. ASSUME NEW w \in Waiters PROVE WaiterInv(w)
    BY DEF Init, WaiterInv, Polling
  <1> QED BY <1>1, <1>2 DEF SignalInv, Init

(* Every step of a setter and of a waiter's poll keeps the invariant.      *)
LEMMA InvNext == SignalInv /\ [Next]_vars => SignalInv'
  <1> SUFFICES ASSUME SignalInv, [Next]_vars PROVE SignalInv'
    OBVIOUS
  <1> USE DEF SignalInv
  <1>1. ASSUME NEW s \in Setters, Swap(s) PROVE SignalInv'
    BY <1>1 DEF Swap, TypeOK, WaiterInv, Notified, notifyVars
  <1>2. ASSUME NEW s \in Setters, NotifyWaiters(s) PROVE SignalInv'
    <2>1. TypeOK'
      BY <1>2 DEF NotifyWaiters, TypeOK, Fired, Wakened, OrNone
    <2>2. ASSUME NEW w \in Waiters PROVE WaiterInv(w)'
      BY <1>2, SignalAssumption
      DEF NotifyWaiters, TypeOK, WaiterInv, Fired, Wakened, Notified, OrNone, Polling
    <2> QED BY <1>2, <2>1, <2>2 DEF NotifyWaiters, TypeOK
  <1>3. ASSUME NEW w \in Waiters, NEW k \in Wakers, FirstPoll(w, k) PROVE SignalInv'
    BY <1>3 DEF FirstPoll, Poll, At, TypeOK, WaiterInv, Notified, OrNone, Polling
  <1>4. ASSUME NEW w \in Waiters, Enable(w) PROVE SignalInv'
    BY <1>4 DEF Enable, At, TypeOK, WaiterInv, Notified, Polling
  <1>5. ASSUME NEW w \in Waiters, Check(w) PROVE SignalInv'
    BY <1>5 DEF Check, At, AfterCheck, Unchanged, TypeOK, WaiterInv, Notified, Polling, notifyVars
  <1>6. ASSUME NEW w \in Waiters, PollNotified(w) PROVE SignalInv'
    BY <1>6 DEF PollNotified, At, TypeOK, WaiterInv, Notified, OrNone, Polling
  <1>7. ASSUME NEW w \in Waiters, Recheck(w) PROVE SignalInv'
    BY <1>7 DEF Recheck, At, AfterPoll, TypeOK, WaiterInv, Notified, Polling, notifyVars
  <1>8. ASSUME NEW w \in Waiters, NEW k \in Wakers, OtherPoll(w, k) PROVE SignalInv'
    BY <1>8 DEF OtherPoll, Poll, At, TypeOK, WaiterInv, Notified, OrNone, Polling
  <1>9. ASSUME NEW w \in Waiters, WokenPoll(w) PROVE SignalInv'
    <2>1. cur[w] \in Wakers
      BY <1>9 DEF WokenPoll, WaiterInv
    <2> QED BY <1>8, <1>9, <2>1 DEF WokenPoll, OtherPoll
  <1>10. ASSUME NEW w \in Waiters, Drop(w) PROVE SignalInv'
    BY <1>10 DEF Drop, At, TypeOK, WaiterInv, Notified, Polling
  <1>11. CASE UNCHANGED vars
    BY <1>11 DEF vars, notifyVars, TypeOK, WaiterInv, Notified
  <1> QED
    BY <1>1, <1>2, <1>3, <1>4, <1>5, <1>6, <1>7, <1>8, <1>9, <1>10, <1>11 DEF Next, Runs

(* The inductive invariant of the signal.                                  *)
THEOREM SignalInvariance == Spec => []SignalInv
  BY InvInit, InvNext, PTL DEF Spec

(* No waiter stays parked without a wakeup once set() has notified.        *)
THEOREM CancelNotLost == Spec => []NoLostCancel
  <1>1. SignalInv => NoLostCancel
    BY DEF SignalInv, TypeOK, WaiterInv, NoLostCancel
  <1> QED BY <1>1, SignalInvariance, PTL

(* A step of the signal is a step of Cancellation, or none.                *)
LEMMA LatchStep == SignalInv /\ [Next]_vars => [Latch!LatchNext]_(Latch!latchVars)
  <1> SUFFICES ASSUME SignalInv, [Next]_vars
               PROVE Latch!LatchNext \/ UNCHANGED Latch!latchVars
    OBVIOUS
  <1> USE DEF SignalInv
  <1>1. ASSUME NEW w \in Waiters, NEW to, At(w, to), UNCHANGED set,
               Phase(w) = IF to \in Polling \cup {"parked"} THEN "waiting" ELSE to
        PROVE UNCHANGED Latch!latchVars
    BY <1>1 DEF At, Phase, TypeOK, Latch!latchVars
  <1>2. ASSUME NEW w \in Waiters, NEW to, At(w, to), UNCHANGED set, NEW from,
               Phase(w) = from, to \notin Polling \cup {"parked"}
        PROVE Latch!Moves(w, from, to)
    BY <1>2 DEF At, Phase, TypeOK, Latch!Moves
  <1>3. ASSUME NEW s \in Setters, Swap(s) PROVE Latch!Sets
    BY <1>3 DEF Swap, Phase, Latch!Sets
  <1>4. ASSUME NEW s \in Setters, NotifyWaiters(s) PROVE UNCHANGED Latch!latchVars
    BY <1>4 DEF NotifyWaiters, Phase, Latch!latchVars
  <1>5. ASSUME NEW w \in Waiters, NEW k \in Wakers, FirstPoll(w, k) PROVE Latch!Waits(w)
    BY <1>5 DEF FirstPoll, Poll, At, Phase, Polling, TypeOK, Latch!Waits, Latch!Moves
  <1>6. ASSUME NEW w \in Waiters, Enable(w) PROVE UNCHANGED Latch!latchVars
    BY <1>1, <1>6 DEF Enable, Phase, Polling
  <1>7. ASSUME NEW w \in Waiters, Check(w) PROVE Latch!Returns(w) \/ UNCHANGED Latch!latchVars
    BY <1>1, <1>2, <1>7 DEF Check, AfterCheck, Phase, Polling, Latch!Returns
  <1>8. ASSUME NEW w \in Waiters, PollNotified(w) PROVE UNCHANGED Latch!latchVars
    BY <1>1, <1>8 DEF PollNotified, Phase, Polling
  <1>9. ASSUME NEW w \in Waiters, Recheck(w) PROVE Latch!Returns(w) \/ UNCHANGED Latch!latchVars
    BY <1>1, <1>2, <1>9 DEF Recheck, AfterPoll, WaiterInv, Phase, Polling, Latch!Returns
  <1>10. ASSUME NEW w \in Waiters, NEW k, OtherPoll(w, k) PROVE UNCHANGED Latch!latchVars
    BY <1>1, <1>10 DEF OtherPoll, Poll, Phase, Polling
  <1>11. ASSUME NEW w \in Waiters, WokenPoll(w) PROVE UNCHANGED Latch!latchVars
    BY <1>10, <1>11 DEF WokenPoll, OtherPoll
  <1>12. ASSUME NEW w \in Waiters, Drop(w) PROVE Latch!Drops(w)
    BY <1>2, <1>12 DEF Drop, Phase, Polling, Latch!Drops
  <1>13. CASE UNCHANGED vars
    BY <1>13 DEF vars, Phase, Latch!latchVars
  <1> QED
    BY <1>3, <1>4, <1>5, <1>6, <1>7, <1>8, <1>9, <1>10, <1>11, <1>12, <1>13
    DEF Next, Runs, Latch!LatchNext

(* wait() returns only once the signal is set, whatever the tasks do.      *)
THEOREM SignalImplements == Spec => ImplementsLatch
  <1>1. Init => Latch!LatchInit
    BY DEF Init, Phase, Polling, Latch!LatchInit
  <1> QED
    BY <1>1, SignalInvariance, LatchStep, PTL DEF Spec, ImplementsLatch, Latch!LatchSpec

=============================================================================
