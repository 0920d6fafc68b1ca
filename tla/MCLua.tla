------------------------------- MODULE MCLua --------------------------------
(* Timers and Emitter for model checking.  Neither reads what the other    *)
(* changes, so a behaviour runs one of them while the other stays as it    *)
(* began.                                                                  *)
EXTENDS Timers

CONSTANTS t1, t2, f, g, w1, w2, Fns, Wrappers, Plain, MaxList

VARIABLES list, delivery, pending, called
emitterVars == <<list, delivery, pending, called>>

E == INSTANCE Emitter WITH pc <- delivery

TwoTimers == {t1, t2}
TwoFns == {f, g}
TwoWrappers == {w1, w2}

LuaInit == Init /\ E!Init
LuaNext ==
    \/ Next /\ E!Init /\ UNCHANGED emitterVars
    \/ E!Next /\ Init /\ UNCHANGED vars
LuaSpec == LuaInit /\ [][LuaNext]_<<vars, emitterVars>> /\ WF_vars(Loop)

(* once() listeners run once, and off() alone removes others (Emitter).    *)
OnceExact == E!OnceExact

=============================================================================
