------------------------------- MODULE Client -------------------------------
(***************************************************************************)
(* How clients reach their servers: each connect() runs one task that      *)
(* resolves the host, dials its addresses with a stagger, and upgrades the *)
(* first socket that connects, all under a deadline and a select that      *)
(* drops the whole future.  The tasks share the resolver's slots, and a    *)
(* lookup of the operating system outlives the task that asked for it.     *)
(* What happens once a client is up is module Link.                        *)
(***************************************************************************)
EXTENDS Integers, Sequences, FiniteSets, SequencesExt

CONSTANTS
    Clients,
    Limit,      \* dns::LIMIT
    MaxAddrs,   \* bound on the addresses of a host
    Reachable   \* the positions in a host's list at which somebody listens

VARIABLES
    stage,    \* where each task is
    free,     \* permits in the semaphore
    waiting,  \* the semaphore's queue
    jobs,     \* clients whose lookup the operating system is working on
    addrs,    \* how many addresses dial() got
    attempt   \* the JoinSet of dial(): what became of each address

resolverVars == <<free, waiting, jobs>>
dialVars == <<addrs, attempt>>
vars == <<stage, resolverVars, dialVars>>

Positions == 1..MaxAddrs
Results == {"ok", "error", "died"}
Nothing == [i \in Positions |-> "untried"]
Running == {"new", "queued", "granted", "lookup", "dial", "upgrade"}
Over == {"up", "unresolved", "undialled", "refused", "dropped"}

Init ==
    /\ stage = [c \in Clients |-> "new"]
    /\ free = Limit /\ waiting = <<>> /\ jobs = {}
    /\ addrs = [c \in Clients |-> 0]
    /\ attempt = [c \in Clients |-> Nothing]

Goes(c, next) == stage' = [stage EXCEPT ![c] = next]

(***************************************************************************)
(* dial(): a JoinSet of attempts in the order of the addresses.  An error, *)
(* or STAGGER without a result, starts the next one; so does not a task    *)
(* that died.  Returning drops the attempts that are left.                 *)
(***************************************************************************)
Untried(c, tried) == {i \in 1..addrs[c] : tried[i] = "untried"}
Outstanding(tried) == {i \in Positions : tried[i] = "trying"}

Returns(c) ==
    addrs' = [addrs EXCEPT ![c] = 0] /\ attempt' = [attempt EXCEPT ![c] = Nothing]

\* addresses.next(), started.
StartNext(c, tried) ==
    IF Untried(c, tried) = {} THEN tried
    ELSE [tried EXCEPT ![Min(Untried(c, tried))] = "trying"]

Dial(c, n) ==
    /\ addrs' = [addrs EXCEPT ![c] = n]
    /\ attempt' = IF n = 0 THEN attempt ELSE [attempt EXCEPT ![c][1] = "trying"]
    /\ Goes(c, IF n = 0 THEN "unresolved" ELSE "dial")

\* The network answers an attempt, or its task dies, and join_next() returns that.
Joined(c, i, result) ==
    LET tried == [attempt[c] EXCEPT ![i] = IF result = "died" THEN "lost" ELSE "joined"]
        left == IF result = "error" THEN StartNext(c, tried) ELSE tried
    IN  /\ stage[c] = "dial" /\ attempt[c][i] = "trying"
        /\ i \in Reachable => result # "error"
        /\ i \notin Reachable => result # "ok"
        /\ IF result = "ok"
           THEN Returns(c) /\ Goes(c, "upgrade")
           ELSE /\ attempt' = [attempt EXCEPT ![c] = left] /\ UNCHANGED addrs
                /\ IF Outstanding(left) = {} THEN Goes(c, "undialled") ELSE UNCHANGED stage
        /\ UNCHANGED resolverVars

Stagger_Sequential(c) ==
    /\ stage[c] = "dial" /\ Untried(c, attempt[c]) # {} /\ Outstanding(attempt[c]) = {}
    /\ attempt' = [attempt EXCEPT ![c] = StartNext(c, @)]
    /\ UNCHANGED <<stage, resolverVars, addrs>>
Stagger(c) ==
    /\ stage[c] = "dial" /\ Untried(c, attempt[c]) # {}
    /\ attempt' = [attempt EXCEPT ![c] = StartNext(c, @)]
    /\ UNCHANGED <<stage, resolverVars, addrs>>

(***************************************************************************)
(* resolve(): tokio's fair semaphore.  A released permit goes to the first *)
(* in the queue, who has it from then on, polled or not.                   *)
(***************************************************************************)
Release_Unclaimed(stages) ==
    free' = free + 1 /\ stage' = stages /\ UNCHANGED waiting
Release(stages) ==
    IF waiting = <<>>
    THEN free' = free + 1 /\ stage' = stages /\ UNCHANGED waiting
    ELSE /\ stage' = [stages EXCEPT ![Head(waiting)] = "granted"]
         /\ waiting' = Tail(waiting) /\ UNCHANGED free

\* The host is an address or localhost, which need no lookup: one address, or two.
Literal(c) ==
    /\ stage[c] = "new"
    /\ \E n \in {1, 2} \cap Positions : Dial(c, n)
    /\ UNCHANGED resolverVars

\* Any other host.
Resolve(c) ==
    /\ stage[c] = "new"
    /\ IF free > 0
       THEN free' = free - 1 /\ jobs' = jobs \cup {c} /\ Goes(c, "lookup") /\ UNCHANGED waiting
       ELSE waiting' = Append(waiting, c) /\ Goes(c, "queued") /\ UNCHANGED <<free, jobs>>
    /\ UNCHANGED dialVars

\* The permit moves into the blocking job.
Spawn(c) ==
    /\ stage[c] = "granted"
    /\ jobs' = jobs \cup {c}
    /\ Goes(c, "lookup")
    /\ UNCHANGED <<free, waiting, dialVars>>

\* The lookup returns, asked for or not, and its permit is dropped.
JobEnds(c) ==
    /\ c \in jobs
    /\ jobs' = jobs \ {c}
    /\ Release(stage)
    /\ UNCHANGED dialVars

\* The task gets the answer: an error, or any number of addresses.
Resolved(c) ==
    /\ stage[c] = "lookup" /\ c \notin jobs
    /\ \/ Goes(c, "unresolved") /\ UNCHANGED dialVars
       \/ \E n \in 0..MaxAddrs : Dial(c, n)
    /\ UNCHANGED resolverVars

(***************************************************************************)
(* The task of connect(): establish() under timeout_at and the select.     *)
(***************************************************************************)
\* TLS, the request and the response: up, or any of their errors.
Upgrade(c) ==
    /\ stage[c] = "upgrade"
    /\ Goes(c, "up") \/ Goes(c, "refused")
    /\ UNCHANGED <<resolverVars, dialVars>>

\* Dropping the future of acquire_owned(): it leaves the queue, and a permit it
\* was given meanwhile goes on to the next.
LeaveQueue_Granted(c, over) ==
    stage' = over /\ waiting' = Remove(waiting, c) /\ UNCHANGED free
LeaveQueue(c, over) ==
    IF stage[c] = "granted" THEN Release(over)
    ELSE stage' = over /\ waiting' = Remove(waiting, c) /\ UNCHANGED free

\* A job that runs keeps its permit; dial() cancels its attempts.
Drop(c) ==
    /\ LeaveQueue(c, [stage EXCEPT ![c] = "dropped"])
    /\ Returns(c)
    /\ UNCHANGED jobs

\* The client's stop signal, or its hub's, is set or the deadline passes.
Stopped(c) == stage[c] \in Running /\ Drop(c)

Next == \E c \in Clients :
    \/ Literal(c) \/ Resolve(c) \/ Spawn(c) \/ JobEnds(c) \/ Resolved(c)
    \/ \E i \in Positions, result \in Results : Joined(c, i, result)
    \/ Stagger(c) \/ Upgrade(c) \/ Stopped(c)

Spec == Init /\ [][Next]_vars

\* A task that can go on is polled, the stagger timer fires, and who listens
\* answers, as does the resolver.  An address where nobody listens may hang forever.
Runs(c) == Literal(c) \/ Resolve(c) \/ Spawn(c) \/ Resolved(c)
Fairness ==
    \A c \in Clients :
        /\ WF_vars(Runs(c)) /\ WF_vars(Stagger(c)) /\ WF_vars(JobEnds(c))
        /\ \A i \in Reachable : WF_vars(Joined(c, i, "ok"))

Granted == {c \in Clients : stage[c] = "granted"}

(* "Bound OS resolver work, including resolutions whose callers were       *)
(* cancelled" (dns.rs): every permit is in the semaphore, given to a       *)
(* waiter, or inside a running lookup, and none idles while a client waits.*)
(* So at most LIMIT lookups run, one for each thread that runtime.rs       *)
(* allows, and cancelled clients neither leak permits nor mint them.       *)
PermitsConserved ==
    /\ free + Cardinality(Granted) + Cardinality(jobs) = Limit
    /\ waiting # <<>> => free = 0

(* "Staggered address attempts" (dial.rs): addresses that hang or refuse do *)
(* not keep dial() from a later one that answers.  Only the deadline, a    *)
(* stop or an attempt whose task died does.                                *)
ReachesListener ==
    \A c \in Clients :
        (stage[c] = "dial" /\ Reachable \cap (1..addrs[c]) # {})
            ~> \/ stage[c] \in {"upgrade", "dropped"}
               \/ \E i \in Positions : attempt[c][i] = "lost"

(* A client that waits for a resolver slot gets one or is dropped, however *)
(* many clients are cancelled before and after it.                         *)
QueuedGetsSlot ==
    \A c \in Clients : stage[c] = "queued" ~> stage[c] \in Over \cup {"lookup"}

=============================================================================
