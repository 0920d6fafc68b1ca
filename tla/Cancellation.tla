---------------------------- MODULE Cancellation ----------------------------
(***************************************************************************)
(* What a Signal promises, and what Link, Admission and Client assume of   *)
(* it: a flag that is set for good, and waiters that return if, and only   *)
(* if, it is set.  Signal implements this specification.                   *)
(***************************************************************************)
CONSTANT Waiters

VARIABLES
    set,    \* the flag
    phase   \* per wait(): "before", "waiting", "returned" or "dropped"

latchVars == <<set, phase>>

LatchInit == set = FALSE /\ phase = [w \in Waiters |-> "before"]

Sets == set' = TRUE /\ UNCHANGED phase

Moves(w, from, to) ==
    /\ phase[w] = from
    /\ phase' = [phase EXCEPT ![w] = to]
    /\ UNCHANGED set

Waits(w) == Moves(w, "before", "waiting")
Returns(w) == set /\ Moves(w, "waiting", "returned")
Drops(w) == Moves(w, "waiting", "dropped")

LatchNext == Sets \/ \E w \in Waiters : Waits(w) \/ Returns(w) \/ Drops(w)

LatchSpec == LatchInit /\ [][LatchNext]_latchVars

\* A waiter that is not dropped does return once the flag is set.
FairLatch == LatchSpec /\ \A w \in Waiters : WF_latchVars(Returns(w))

=============================================================================
