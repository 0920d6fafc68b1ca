------------------------------- MODULE Signal -------------------------------
(***************************************************************************)
(* The cancellation signal: an atomic flag and tokio's Notify.  A waiter   *)
(* registers, looks at the flag, and leaves its waker with Notify only     *)
(* when it is polled with another waker than the last time.  Every atomic  *)
(* access, and every call that takes Notify's lock, is a step.             *)
(***************************************************************************)
CONSTANTS
    Waiters,  \* calls of wait()
    Setters,  \* calls of set()
    Wakers,   \* the tasks a waiter may be polled by
    NoWaker   \* no waker yet

ASSUME SignalAssumption == NoWaker \notin Wakers

VARIABLES
    set,         \* Signal.set
    setter,      \* each set(): "idle", "swapped" the flag first, or "done"
    pc,          \* where each wait() is
    cur,         \* the waker of its latest poll
    registered,  \* its local of that name
    entry,       \* its Notified future: "none", "created", "listed" or "fired"
    stored,      \* the waker that Notify keeps for it
    woken        \* the wakers of it that were woken since they last polled it

notifyVars == <<entry, stored, woken>>
vars == <<set, setter, pc, cur, registered, notifyVars>>

Polling == {"enabling", "checking", "polling", "rechecking"}
OrNone == Wakers \cup {NoWaker}

Init ==
    /\ set = FALSE
    /\ setter = [s \in Setters |-> "idle"]
    /\ pc = [w \in Waiters |-> "before"]
    /\ cur = [w \in Waiters |-> NoWaker]
    /\ registered = [w \in Waiters |-> NoWaker]
    /\ entry = [w \in Waiters |-> "none"]
    /\ stored = [w \in Waiters |-> NoWaker]
    /\ woken = [w \in Waiters |-> {}]

(***************************************************************************)
(* set(): the swap, and notify_waiters() by the call that came first.      *)
(***************************************************************************)
Swap(s) ==
    /\ setter[s] = "idle"
    /\ set' = TRUE
    /\ setter' = [setter EXCEPT ![s] = IF set THEN "done" ELSE "swapped"]
    /\ UNCHANGED <<pc, cur, registered, notifyVars>>

\* notify_waiters() fires every Notified future created before it, in the list
\* or not, and wakes the wakers of those in the list.  No permit stays behind.
Fired(w) == IF entry[w] = "none" THEN "none" ELSE "fired"
Wakened(w) == IF entry[w] = "listed" THEN woken[w] \cup ({stored[w]} \ {NoWaker}) ELSE woken[w]

NotifyWaiters(s) ==
    /\ setter[s] = "swapped"
    /\ setter' = [setter EXCEPT ![s] = "done"]
    /\ entry' = [w \in Waiters |-> Fired(w)]
    /\ woken' = [w \in Waiters |-> Wakened(w)]
    /\ UNCHANGED <<set, pc, cur, registered, stored>>

Notified == set /\ \A s \in Setters : setter[s] # "swapped"

(***************************************************************************)
(* wait(): the first poll creates and enables the Notified future, and     *)
(* every poll runs the closure.                                            *)
(***************************************************************************)
At(w, next) == pc' = [pc EXCEPT ![w] = next]

Poll(w, k, next) ==
    /\ At(w, next)
    /\ cur' = [cur EXCEPT ![w] = k]
    /\ woken' = [woken EXCEPT ![w] = @ \ {k}]
    /\ UNCHANGED <<set, setter, registered, stored>>

FirstPoll(w, k) ==
    /\ pc[w] = "before"
    /\ entry' = [entry EXCEPT ![w] = "created"]
    /\ Poll(w, k, "enabling")

Enable(w) ==
    /\ pc[w] = "enabling"
    /\ At(w, "checking")
    /\ entry' = [entry EXCEPT ![w] = IF @ = "created" THEN "listed" ELSE @]
    /\ UNCHANGED <<set, setter, cur, registered, stored, woken>>

\* The waker of this poll is the one that is registered.
Unchanged_Any(w) == registered[w] # NoWaker
Unchanged(w) == registered[w] = cur[w]

AfterCheck_Registered(w) ==
    IF Unchanged(w) THEN "parked" ELSE IF set THEN "returned" ELSE "polling"
AfterCheck(w) ==
    IF set THEN "returned" ELSE IF Unchanged(w) THEN "parked" ELSE "polling"

Check(w) ==
    /\ pc[w] = "checking"
    /\ At(w, AfterCheck(w))
    /\ UNCHANGED <<set, setter, cur, registered, notifyVars>>

\* Pending: Notify has the waker, and so has the local.
PollNotified(w) ==
    /\ pc[w] = "polling"
    /\ At(w, "rechecking")
    /\ IF entry[w] = "fired" THEN UNCHANGED <<stored, registered>>
       ELSE /\ stored' = [stored EXCEPT ![w] = cur[w]]
            /\ registered' = [registered EXCEPT ![w] = cur[w]]
    /\ UNCHANGED <<set, setter, cur, entry, woken>>

\* The result is Ready when the poll left the waker unregistered.
AfterPoll(w) == IF set \/ registered[w] # cur[w] THEN "returned" ELSE "parked"

Recheck(w) ==
    /\ pc[w] = "rechecking"
    /\ At(w, AfterPoll(w))
    /\ UNCHANGED <<set, setter, cur, registered, notifyVars>>

\* The task that polled last runs again because it was woken, ...
WokenPoll(w) == pc[w] = "parked" /\ cur[w] \in woken[w] /\ Poll(w, cur[w], "checking") /\ UNCHANGED entry
\* ... or some task polls for another reason: select! polls all its branches,
\* and a future may be moved to another task.
OtherPoll(w, k) == pc[w] = "parked" /\ Poll(w, k, "checking") /\ UNCHANGED entry

\* select! drops the waiter; Notified leaves the list.
Drop(w) ==
    /\ pc[w] = "parked"
    /\ At(w, "dropped")
    /\ entry' = [entry EXCEPT ![w] = "none"]
    /\ UNCHANGED <<set, setter, cur, registered, stored, woken>>

Runs(w) == Enable(w) \/ Check(w) \/ PollNotified(w) \/ Recheck(w) \/ WokenPoll(w)

Next ==
    \/ \E s \in Setters : Swap(s) \/ NotifyWaiters(s)
    \/ \E w \in Waiters : Runs(w) \/ Drop(w) \/ \E k \in Wakers : FirstPoll(w, k) \/ OtherPoll(w, k)

Spec == Init /\ [][Next]_vars

\* A poll that began ends, a thread inside set() goes on, and a task that was
\* woken is polled.  Nobody has to call set() or to poll without a reason.
Fairness ==
    /\ \A w \in Waiters : WF_vars(Runs(w))
    /\ \A s \in Setters : WF_vars(NotifyWaiters(s))

TypeOK ==
    /\ set \in BOOLEAN
    /\ setter \in [Setters -> {"idle", "swapped", "done"}]
    /\ pc \in [Waiters -> Polling \cup {"before", "parked", "returned", "dropped"}]
    /\ cur \in [Waiters -> OrNone] /\ registered \in [Waiters -> OrNone]
    /\ entry \in [Waiters -> {"none", "created", "listed", "fired"}]
    /\ stored \in [Waiters -> OrNone]
    /\ woken \in [Waiters -> SUBSET Wakers]

(* "Register before checking the flag so notify_waiters cannot be lost"    *)
(* (signal.rs): once set() has notified, no waiter is parked unless the    *)
(* very task that polled it last has a wakeup coming.                      *)
NoLostCancel ==
    Notified => \A w \in Waiters : pc[w] = "parked" => cur[w] \in woken[w]

Phase(w) == IF pc[w] \in Polling \cup {"parked"} THEN "waiting" ELSE pc[w]
Latch == INSTANCE Cancellation WITH phase <- [w \in Waiters |-> Phase(w)]

(* "A permanent cancellation signal with race-free asynchronous waiters":  *)
(* wait() returns only once the signal is set.                             *)
ImplementsLatch == Latch!LatchSpec
(* And once it is set every waiter that is not dropped does return.        *)
ImplementsFairLatch == Latch!FairLatch

=============================================================================
