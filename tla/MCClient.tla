------------------------------ MODULE MCClient ------------------------------
(* Client and Signal for model checking: how a client gets up, and how     *)
(* whoever waits for a signal is stopped.  Neither reads what the other    *)
(* changes: the signal's calls begin once the clients are over.            *)
EXTENDS Signal

CONSTANTS w1, w2, s1, s2, t1, t2, c1, c2, c3, Clients, Limit, MaxAddrs, Reachable
VARIABLES stage, free, waiting, jobs, addrs, attempt
clientVars == <<stage, free, waiting, jobs, addrs, attempt>>

C == INSTANCE Client

TwoWaiters == {w1, w2}
TwoSetters == {s1, s2}
TwoTasks == {t1, t2}
ThreeClients == {c1, c2, c3}

ClientsOver ==
    /\ stage = [c \in Clients |-> "dropped"]
    /\ waiting = <<>> /\ jobs = {} /\ free = Limit
    /\ addrs = [c \in Clients |-> 0] /\ attempt = [c \in Clients |-> C!Nothing]

ClientInit == Init /\ C!Init
ClientNext ==
    \/ C!Next /\ UNCHANGED vars
    \/ ClientsOver /\ Next /\ UNCHANGED clientVars
ClientSpec == ClientInit /\ [][ClientNext]_<<vars, clientVars>> /\ Fairness /\ C!Fairness

(* The properties of Client.                                               *)
PermitsConserved == C!PermitsConserved
QueuedGetsSlot == C!QueuedGetsSlot
ReachesListener == C!ReachesListener

=============================================================================
