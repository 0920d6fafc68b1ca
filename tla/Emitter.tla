------------------------------ MODULE Emitter ------------------------------
(***************************************************************************)
(* The listeners of one event of a socket or server, and their delivery.   *)
(* A once() listener is a wrapper that stands for its function and removes *)
(* itself when it is called.  Listeners may add and remove listeners while *)
(* the event is delivered, and may raise.                                  *)
(***************************************************************************)
EXTENDS Integers, Sequences, SequencesExt

CONSTANTS
    Fns,       \* the application's functions
    Wrappers,  \* the closures that once() creates
    Plain,     \* not a wrapper
    MaxList    \* bound on the listeners of an event

VARIABLES
    list,     \* self._on[name]
    pc,       \* "idle", "emitting" or in a "listener"
    pending,  \* what emit() has yet to call
    called    \* what it has called

emitVars == <<pc, pending, called>>
vars == <<list, emitVars>>

Init == list = <<>> /\ pc = "idle" /\ pending = <<>> /\ called = <<>>

UserCode == pc \in {"idle", "listener"} /\ UNCHANGED emitVars

On(fn) ==
    /\ UserCode /\ Len(list) < MaxList
    /\ list' = Append(list, [fn |-> fn, wrapper |-> Plain])

Once(fn, w) ==
    /\ UserCode /\ Len(list) < MaxList
    /\ \A e \in ToSet(list \o pending \o called) : e.wrapper # w
    /\ list' = Append(list, [fn |-> fn, wrapper |-> w])

\* The list without the latest of the entries that match.
Without(matches) ==
    LET hits == {i \in DOMAIN list : list[i] \in matches} IN
    IF hits = {} THEN list ELSE RemoveAt(list, Max(hits))

Off(fn) == UserCode /\ list' = Without({e \in ToSet(list) : e.fn = fn})

\* The wrapper removes itself before it calls its function.
AfterCall_ByFn(entry) == IF entry.wrapper = Plain THEN list ELSE Without({e \in ToSet(list) : e.fn = entry.fn})
AfterCall(entry) == IF entry.wrapper = Plain THEN list ELSE Without({entry})

\* One listener is called without a snapshot, several from one.  The close
\* event takes the listeners from the socket first.
Emit(close) ==
    /\ pc = "idle" /\ list # <<>>
    /\ pc' = "emitting" /\ pending' = list /\ called' = <<>>
    /\ list' = IF close THEN <<>> ELSE list

Call ==
    /\ pc = "emitting" /\ pending # <<>>
    /\ LET entry == Head(pending) IN
       /\ list' = AfterCall(entry)
       /\ pending' = Tail(pending)
       /\ called' = Append(called, entry)
    /\ pc' = "listener"

\* An error leaves emit() and the event loop.
Returns(raises) ==
    /\ pc = "listener"
    /\ pc' = IF raises THEN "idle" ELSE "emitting"
    /\ pending' = IF raises THEN <<>> ELSE pending
    /\ UNCHANGED <<list, called>>

Emitted ==
    /\ pc = "emitting" /\ pending = <<>>
    /\ pc' = "idle"
    /\ UNCHANGED <<list, pending, called>>

Next ==
    \/ \E fn \in Fns : On(fn) \/ Off(fn) \/ \E w \in Wrappers : Once(fn, w)
    \/ Call \/ Emitted \/ \E b \in BOOLEAN : Emit(b) \/ Returns(b)

Spec == Init /\ [][Next]_vars

(* "Registers `fn` for the next `name` event only" (emitter.lua): a once() *)
(* listener that was called is gone, and of the others with the same       *)
(* function only off() removes one.                                        *)
OnceExact ==
    [][/\ \A e \in ToSet(called') : e.wrapper # Plain => e \notin ToSet(list')
       /\ pc = "emitting" => \A e \in ToSet(list) \ ToSet(list') : e = Last(called')]_vars

=============================================================================
