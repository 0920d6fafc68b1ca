------------------------------- MODULE Timers -------------------------------
(***************************************************************************)
(* The Lua timers and the step of the event loop that drives them: fire    *)
(* what is due, wait for an event or for the next timer, handle a batch of *)
(* events, fire again.  Callbacks of timers and events may start and       *)
(* cancel timers and may raise.  Time passes wherever user code runs and   *)
(* while the loop sleeps; the events themselves are module Binding.        *)
(***************************************************************************)
EXTENDS Integers, Sequences, FiniteSets, SequencesExt

CONSTANTS
    Ids,     \* timer objects; a dead one stands for a new one as well
    Delays,  \* the delays and intervals an application asks for
    Limits,  \* the timeouts it gives poll()
    Batch,   \* BATCH
    MaxNow   \* bound on the clock

ASSUME TimersAssumption ==
    /\ IsFiniteSet(Ids) /\ Delays \subseteq Nat /\ Limits \subseteq Nat
    /\ Batch \in Nat \ {0} /\ MaxNow \in Nat

VARIABLES
    now,     \* core.now()
    timers,  \* the objects in the local list `timers`
    live,    \* those with live = true
    due,     \* their due times
    every,   \* their intervals, 0 for one-shot timers
    pc,      \* where the loop is
    last,    \* whether this is the fire() that ends the step
    todo,    \* what fire() has yet to run
    wake,    \* when core.wait() gives up
    left     \* how many more events this batch takes

timerVars == <<timers, live, due, every>>
loopVars == <<pc, last, todo, wake, left>>
vars == <<now, timerVars, loopVars>>

Never == MaxNow + 1  \* core.wait(hub, -1)

Init ==
    /\ now = 0 /\ timers = {} /\ live = {}
    /\ due = [t \in Ids |-> 0] /\ every = [t \in Ids |-> 0]
    /\ pc = "main" /\ last = FALSE /\ todo = <<>> /\ wake = 0 /\ left = 0

Tick ==
    /\ now < MaxNow
    /\ now' = now + 1
    /\ UNCHANGED <<timerVars, loopVars>>

(***************************************************************************)
(* ws.after, ws.every and Timer:cancel, from the main program, from a      *)
(* timer or from the listener of an event.                                 *)
(***************************************************************************)
UserCode == pc \in {"main", "callback", "listener"}

Start(t, delay, repeats) ==
    /\ UserCode /\ t \notin live \cup ToSet(todo)
    /\ repeats => delay > 0
    /\ timers' = timers \cup {t} /\ live' = live \cup {t}
    /\ due' = [due EXCEPT ![t] = now + delay]
    /\ every' = [every EXCEPT ![t] = IF repeats THEN delay ELSE 0]
    /\ UNCHANGED <<now, loopVars>>

Cancel(t) ==
    /\ UserCode /\ t \in live
    /\ live' = live \ {t}
    /\ UNCHANGED <<now, timers, due, every, loopVars>>

(***************************************************************************)
(* fire().  table.sort is not stable: timers due together come in any      *)
(* order.                                                                  *)
(***************************************************************************)
Due == {t \in timers \cap live : due[t] <= now}

Sorted_ByStart(S) == SetToSeqs(S)
Sorted(S) ==
    {s \in SetToSeqs(S) : \A i, j \in 1..Len(s) : i < j => due[s[i]] <= due[s[j]]}

Fire ==
    /\ pc = "fire"
    /\ todo' \in Sorted(Due)
    /\ pc' = "firing"
    /\ UNCHANGED <<now, timerVars, last, wake, left>>

RunTimer ==
    /\ pc = "firing" /\ todo # <<>>
    /\ LET t == Head(todo) IN
       /\ todo' = Tail(todo)
       /\ IF t \in live
          THEN /\ pc' = "callback"
               /\ IF every[t] > 0
                  THEN due' = [due EXCEPT ![t] = now + every[t]] /\ UNCHANGED live
                  ELSE live' = live \ {t} /\ UNCHANGED due
          ELSE UNCHANGED <<pc, live, due>>
    /\ UNCHANGED <<now, timers, every, last, wake, left>>

\* An error leaves fire() before prune(), the step, and run() or poll().
CallbackReturns(raises) ==
    /\ pc = "callback"
    /\ IF raises THEN pc' = "main" /\ todo' = <<>> ELSE pc' = "firing" /\ UNCHANGED todo
    /\ UNCHANGED <<now, timerVars, last, wake, left>>

Pruned == timers \cap live

(***************************************************************************)
(* step(): sockets and servers keep it going too, or they do not.          *)
(***************************************************************************)
Active(others) == others \/ Pruned # {}

Step ==
    /\ pc = "main"
    /\ pc' = "fire" /\ last' = FALSE
    /\ UNCHANGED <<now, timerVars, todo, wake, left>>

Soonest_Any == due[CHOOSE t \in Pruned : TRUE]
Soonest == Min({due[t] : t \in Pruned})
\* now + math.max(0, soonest - now), cut to the limit of poll().
WakeAt(limit) ==
    LET timer == IF Pruned = {} THEN Never ELSE Max({Soonest, now}) IN Min({timer, now + limit})

\* The first fire() of a step has run everything.
Sleep(others, limit) ==
    /\ pc = "firing" /\ todo = <<>> /\ ~last
    /\ timers' = Pruned
    /\ IF Active(others)
       THEN pc' = "asleep" /\ wake' = WakeAt(limit) /\ left' = Batch
       ELSE pc' = "main" /\ UNCHANGED <<wake, left>>
    /\ UNCHANGED <<now, live, due, every, last, todo>>

\* The last one has: run() takes another step, poll() returns.
StepEnds(others, polls) ==
    /\ pc = "firing" /\ todo = <<>> /\ last
    /\ timers' = Pruned
    /\ IF Active(others) /\ ~polls THEN pc' = "fire" /\ last' = FALSE
       ELSE pc' = "main" /\ UNCHANGED last
    /\ UNCHANGED <<now, live, due, every, todo, wake, left>>

Wakes ==
    /\ pc = "asleep" /\ now >= wake
    /\ pc' = "fire" /\ last' = TRUE
    /\ UNCHANGED <<now, timerVars, todo, wake, left>>

More == left > 0
LeftAfter_Unbounded == left
LeftAfter == left - 1

Takes ==
    /\ pc = "asleep" \/ (pc = "handled" /\ More)
    /\ pc' = "listener" /\ left' = LeftAfter
    /\ UNCHANGED <<now, timerVars, last, todo, wake>>

ListenerReturns(raises) ==
    /\ pc = "listener"
    /\ pc' = IF raises THEN "main" ELSE "handled"
    /\ UNCHANGED <<now, timerVars, last, todo, wake, left>>

\* The batch is full, or the queue is empty.
BatchEnds ==
    /\ pc = "handled"
    /\ pc' = "fire" /\ last' = TRUE
    /\ UNCHANGED <<now, timerVars, todo, wake, left>>

Loop ==
    \/ Fire \/ RunTimer \/ Wakes \/ Takes
    \/ ~More /\ BatchEnds
    \/ \E raises \in BOOLEAN : CallbackReturns(raises) \/ ListenerReturns(raises)
    \/ \E others \in BOOLEAN :
          \/ \E limit \in Limits \cup {Never} : Sleep(others, limit)
          \/ \E polls \in BOOLEAN : StepEnds(others, polls)

Next ==
    \/ Tick \/ Step \/ Loop \/ BatchEnds
    \/ \E t \in Ids : Cancel(t) \/ \E delay \in Delays, repeats \in BOOLEAN : Start(t, delay, repeats)

Spec == Init /\ [][Next]_vars

\* The Lua thread runs on, callbacks return, and the queue is never empty: the
\* worst case for a timer.  Nobody has to call run() again.
LiveSpec == Spec /\ WF_vars(Loop)

(* wait() never sleeps past a live timer, also one started or moved by the *)
(* callbacks that just ran: none of them was lost from the list while it   *)
(* was walked and rebuilt.                                                 *)
NoOversleep == pc = "asleep" => \A t \in live : wake <= due[t] \/ wake <= now

(* "Runs every timer due now, earliest first" (timer.lua): what runs is    *)
(* due and live, so not cancelled by a callback of the same fire() and no  *)
(* one-shot timer a second time, and nothing collected with it was due     *)
(* before.                                                                 *)
FiresInOrder ==
    [][pc = "firing" /\ pc' = "callback" =>
        /\ Head(todo) \in live /\ due[Head(todo)] <= now
        /\ \A t \in ToSet(todo) \cap live : due[Head(todo)] <= due[t]]_vars

(* "Events handled per wait, so timers are never starved" (loop.lua): a    *)
(* due timer runs or is cancelled although events never cease and although *)
(* callbacks keep starting timers that are due at once.                    *)
NotStarved ==
    \A t \in Ids : (t \in live /\ due[t] <= now) ~> (t \notin live \/ due[t] > now \/ pc = "main")

=============================================================================
