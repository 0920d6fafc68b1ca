----------------------------- MODULE Heartbeat ------------------------------
(***************************************************************************)
(* The heartbeat of one open connection against a discrete clock:          *)
(* core/src/net/link/heartbeat.rs, heartbeat/clock.rs, net/activity.rs and *)
(* net/timer.rs, with the arms of read_loop and the part of write_out that *)
(* they share time stamps with.  Closing has its own deadline (Link).      *)
(***************************************************************************)
EXTENDS Integers

CONSTANTS
    Interval,  \* Config.heartbeat, in ticks
    MaxAhead,  \* bound on socket writes queued in front of a ping
    MaxTime    \* bound on the clock

ASSUME HeartbeatAssumption ==
    Interval \in Nat \ {0} /\ MaxAhead \in Nat /\ MaxTime \in Nat

VARIABLES
    now,
    seen,      \* Alive.seen
    received,  \* Link.received: 0, or the last inbound progress plus one
    written,   \* Link.written: the last outbound progress
    ping,      \* Alive.ping: "none", "queued" (not written yet) or "sent"
    queuedAt, sentAt,
    ahead,     \* writes in front of a queued ping
    sock,      \* unread input: "none", "partial" (TLS record) or "data"
    arrived,   \* when input last arrived at the socket
    rd,        \* reader: "top", "inbox" (throttled), "net" or "dead"
    target,    \* Timer.target
    changed,   \* a permit of Link.changed
    late       \* "yes" once the application or the runtime kept the reader waiting

clockVars == <<now, late>>
timeVars == <<seen, received, written>>
pingVars == <<ping, queuedAt, sentAt, ahead>>
vars == <<clockVars, timeVars, pingVars, sock, arrived, rd, target, changed>>

Init ==
    /\ now = 0 /\ seen = 0 /\ received = 0 /\ written = 0
    /\ ping = "none" /\ queuedAt = 0 /\ sentAt = 0 /\ ahead = 0
    /\ sock = "none" /\ arrived = 0 /\ rd = "top" /\ target = 0 /\ changed = FALSE /\ late = "no"

Later(s, t) == IF s >= t THEN s ELSE t
\* saturating_duration_since
Since(t) == IF now >= t THEN now - t ELSE 0

\* The latest sign of life, TCP progress below TLS included.
Seen_Writes == Later(seen, written)
Seen == IF received = 0 THEN seen ELSE Later(seen, received - 1)

\* A queued ping is stalled from the latest progress in either direction on.
Stall == Later(Later(Seen, written), queuedAt)

\* decide()
Decide(last) ==
    IF ping = "sent" /\ last <= sentAt
    THEN IF Since(sentAt) >= Interval THEN "dead" ELSE "wait"
    ELSE IF Since(last) >= Interval THEN "ping" ELSE "wait"

\* heartbeat() up to what it does about the decision.
Verdict ==
    IF ping = "queued"
    THEN IF Since(Stall) < Interval THEN "wait" ELSE "dead"
    ELSE Decide(Seen)

\* heartbeat_deadline()
Deadline ==
    (CASE ping = "none" -> Seen
       [] ping = "queued" -> Stall
       [] ping = "sent" -> IF Seen <= sentAt THEN sentAt ELSE Seen) + Interval

-----------------------------------------------------------------------------
\* The network: input arrives, whole or as part of a TLS record.
Arrive(kind) ==
    /\ rd # "dead"
    /\ sock # "data"
    /\ sock' = kind
    /\ arrived' = now
    /\ UNCHANGED <<clockVars, timeVars, pingVars, rd, target, changed>>

\* The top of read_loop: wait for the application, or for input and the timer.
Top ==
    /\ rd = "top"
    /\ \/ rd' = "inbox" /\ UNCHANGED target
       \/ rd' = "net" /\ target' = Deadline
    /\ UNCHANGED <<clockVars, timeVars, pingVars, sock, arrived, changed>>

Consumed ==
    /\ rd = "inbox"
    /\ rd' = "top"
    /\ UNCHANGED <<clockVars, timeVars, pingVars, sock, arrived, target, changed>>

Changed ==
    /\ rd \in {"inbox", "net"} /\ changed
    /\ changed' = FALSE
    /\ rd' = "top"
    /\ UNCHANGED <<clockVars, timeVars, pingVars, sock, arrived, target>>

\* Observed::poll_read notes any input; read_chunk returns once TLS has data.
Read ==
    /\ rd = "net" /\ sock # "none"
    /\ received' = now + 1
    /\ sock' = "none"
    /\ IF sock = "data" THEN seen' = now /\ rd' = "top" ELSE UNCHANGED <<seen, rd>>
    /\ UNCHANGED <<clockVars, written, pingVars, arrived, target, changed>>

\* The select is biased: the timer is looked at only after a read found nothing.
Quiet_Unbiased == TRUE
Quiet == sock = "none"

\* timer.wait() and heartbeat().
TimerFires ==
    /\ rd = "net" /\ Quiet
    /\ target <= now
    /\ seen' = Seen
    /\ CASE Verdict = "wait" -> rd' = "top" /\ UNCHANGED pingVars
         [] Verdict = "dead" -> rd' = "dead" /\ UNCHANGED pingVars
         [] Verdict = "ping" ->
                /\ rd' = "top"
                /\ ping' = "queued" /\ queuedAt' = now
                /\ ahead' \in 0..MaxAhead
                /\ UNCHANGED sentAt
    /\ UNCHANGED <<clockVars, received, written, sock, arrived, target, changed>>

\* write_out: application data, in front of a queued ping or with none queued.
WriteData ==
    /\ rd # "dead"
    /\ ping = "queued" => ahead > 0
    /\ written' = now
    /\ ahead' = IF ahead > 0 THEN ahead - 1 ELSE 0
    /\ UNCHANGED <<clockVars, seen, received, ping, queuedAt, sentAt, sock, arrived, rd,
                   target, changed>>

\* write_out of the ping: its clock starts at the TCP progress.
WritePing ==
    /\ rd # "dead"
    /\ ping = "queued" /\ ahead = 0
    /\ written' = now
    /\ ping' = "sent" /\ sentAt' = now
    /\ changed' = TRUE
    /\ UNCHANGED <<clockVars, seen, received, queuedAt, ahead, sock, arrived, rd, target>>

Step ==
    \/ \E kind \in {"partial", "data"} : Arrive(kind)
    \/ Top \/ Consumed \/ Changed \/ Read \/ TimerFires \/ WriteData \/ WritePing

\* The runtime may be arbitrarily late, or poll the reader within the tick in
\* which it can go on.
Due == rd = "top" \/ (rd = "net" /\ (sock # "none" \/ target <= now \/ changed))

Tick ==
    /\ now < MaxTime
    /\ now' = now + 1
    /\ late' = IF Due \/ rd = "inbox" THEN "yes" ELSE late
    /\ UNCHANGED <<timeVars, pingVars, sock, arrived, rd, target, changed>>

Next == Step \/ Tick
Spec == Init /\ [][Next]_vars

-----------------------------------------------------------------------------
TypeOK ==
    /\ {now, seen, received, written, queuedAt, sentAt, ahead, arrived, target}
           \subseteq Nat
    /\ ping \in {"none", "queued", "sent"}
    /\ sock \in {"none", "partial", "data"}
    /\ rd \in {"top", "inbox", "net", "dead"}
    /\ changed \in BOOLEAN /\ late \in {"no", "yes"}

(* No healthy peer is dropped: heartbeat() gives up only if, for a whole   *)
(* interval after the ping left, no input arrived at the socket, read or   *)
(* not, or if a ping stuck in the queue saw no progress in that time.      *)
NoEarlyDrop ==
    rd = "dead" =>
        \/ ping = "sent" /\ arrived <= sentAt /\ now >= sentAt + Interval
        \/ /\ ping = "queued"
           /\ \A t \in {arrived, written, queuedAt} : now >= t + Interval

(* The armed timer is never later than the deadline of the moment, so      *)
(* nothing that happens while the reader waits can delay the verdict.      *)
TimerNeverLate == rd = "net" => target <= Deadline

(* The timer and heartbeat() agree: a wakeup that decides nothing has been *)
(* overtaken by a later deadline, so the reader never spins.               *)
NoSpin == [][TimerFires /\ rd' = "top" /\ ping' = ping => Deadline' > now]_vars

(* A silent peer is dropped in time (heartbeat option, README.md): as long *)
(* as the reader was never kept waiting, a connection whose socket saw no  *)
(* input for an interval has pinged, and it outlives an unanswered ping by *)
(* no more than another interval; a ping that cannot leave counts likewise.*)
DropInTime ==
    rd # "dead" /\ late = "no" =>
        /\ ping = "none" => now <= arrived + Interval
        /\ ping = "queued" => now <= Later(Later(arrived, written), queuedAt) + Interval
        /\ ping = "sent" => now <= Later(arrived, sentAt) + Interval

=============================================================================
