--------------------------- MODULE AdmissionProofs ---------------------------
(***************************************************************************)
(* The limits of module Admission hold for every number of peers, closers  *)
(* and slots.  The invariant says who owns a connection slot: the Events   *)
(* handle exactly while serve() may still send the close event, and every  *)
(* envelope.  So the peers with undelivered events are among the holders   *)
(* of slots, and only Accept adds a holder.                                *)
(***************************************************************************)
EXTENDS Admission, FiniteSetTheorems, TLAPS

Envelope == [kind : Kinds, peer : Peers, slot : BOOLEAN, pending : BOOLEAN]
Admitted == Handshake \cup {"accepted", "opening", "run"}

\* Who owns what: see the introduction.
Owned ==
    /\ admission = {p \in Peers : stage[p] \in Admitted}
    /\ \A env \in Envelopes : env.slot /\ (env.kind = "request" => env.pending)

\* The inductive invariant.
AdmissionInv == TypeOK /\ Owned /\ AdmissionBounded

-----------------------------------------------------------------------------
\* Sending adds one envelope.
LEMMA EnvelopesAppend ==
    ASSUME NEW e \in Envelope, queue \in Seq(Envelope), queue' = Append(queue, e)
    PROVE  Envelopes' = Envelopes \cup {e} /\ queue' \in Seq(Envelope)
BY DEF Envelopes

\* Envelopes are of peers.
LEMMA EnvelopePeers == TypeOK => \A env \in Envelopes : env.peer \in Peers
<1> SUFFICES ASSUME TypeOK, NEW i \in 1..Len(queue) PROVE queue[i].peer \in Peers
  BY DEF Envelopes
<1>1. queue \in Seq(Envelope)
  BY DEF TypeOK, Envelope
<1>2. queue[i] \in Envelope
  BY <1>1
<1> QED
  BY <1>2 DEF Envelope

\* Receiving adds none.
LEMMA EnvelopesTail ==
    ASSUME queue \in Seq(Envelope), queue # <<>>, queue' = Tail(queue)
    PROVE  Envelopes' \subseteq Envelopes /\ queue' \in Seq(Envelope)
BY DEF Envelopes

\* Dropping the receiver leaves none.
LEMMA EnvelopesNone ==
    ASSUME queue' = <<>>
    PROVE  Envelopes' = {} /\ queue' \in Seq(Envelope)
BY DEF Envelopes

\* An event is sent by a peer that owns its slot, and leaves owned envelopes.
LEMMA SendOwned ==
    ASSUME TypeOK, Owned, NEW p \in Peers, p \in admission, NEW kind \in Kinds,
           NEW pending \in BOOLEAN, kind = "request" => pending,
           queue' = Append(queue, Queued(kind, p, EnvelopeSlot(kind, p), pending))
    PROVE  /\ queue' \in Seq(Envelope)
           /\ \A env \in Envelopes' : env.slot /\ (env.kind = "request" => env.pending)
           /\ Envelopes' = Envelopes \cup {Queued(kind, p, TRUE, pending)}
<1>1. EnvelopeSlot(kind, p) = TRUE
  BY DEF EnvelopeSlot
<1>2. Queued(kind, p, TRUE, pending) \in Envelope
  BY DEF Queued, Envelope
<1>3. queue' = Append(queue, Queued(kind, p, TRUE, pending))
  BY <1>1
<1>4. queue \in Seq(Envelope)
  BY DEF TypeOK, Envelope
<1>5. Envelopes' = Envelopes \cup {Queued(kind, p, TRUE, pending)} /\ queue' \in Seq(Envelope)
  BY <1>2, <1>3, <1>4, EnvelopesAppend
<1>6. \A env \in Envelopes' : env.slot /\ (env.kind = "request" => env.pending)
  BY <1>5 DEF Owned, Queued
<1> QED
  BY <1>5, <1>6

\* What every step but an admission does: it keeps the types and the ownership,
\* and nobody comes to hold a slot.
Shrinks ==
    \A p \in Peers : (HoldsSlot(p)' => HoldsSlot(p)) /\ (HoldsPending(p)' => HoldsPending(p))

\* A step that leaves the queue and moves one peer on: the Events handle is
\* dropped exactly when the peer leaves the stages that may still send.
LEMMA MoveStep ==
    ASSUME TypeOK, Owned, NEW p \in Peers, NEW next \in Stages,
           stage[p] \notin {"away", "over"}, At(p, next),
           admission' = IF next \in Admitted THEN admission ELSE admission \ {p},
           next \in Admitted => p \in admission,
           next \in Handshake \cup {"accepted"} => stage[p] \in Handshake,
           UNCHANGED <<stop, hub, acceptor, reply, queue, closing>>
    PROVE  TypeOK' /\ Owned' /\ Shrinks
<1>1. stage' \in [Peers -> Stages] /\ stage'[p] = next /\ \A q \in Peers \ {p} : stage'[q] = stage[q]
  BY DEF TypeOK, At
<1>2. TypeOK'
  BY <1>1 DEF TypeOK
<1>3. Envelopes' = Envelopes
  BY DEF Envelopes
<1>4. Owned'
  BY <1>1, <1>3 DEF Owned
<1>5. admission' \subseteq admission
  OBVIOUS
<1>6. ASSUME NEW q \in Peers, HoldsSlot(q)' PROVE HoldsSlot(q)
  BY <1>1, <1>3, <1>5, <1>6 DEF HoldsSlot
<1>7. ASSUME NEW q \in Peers, HoldsPending(q)' PROVE HoldsPending(q)
  BY <1>1, <1>3, <1>7 DEF HoldsPending
<1> QED
  BY <1>2, <1>4, <1>6, <1>7 DEF Shrinks

\* A step that sends an event of an admitted peer, or has it refused.
LEMMA SendStep ==
    ASSUME TypeOK, Owned, NEW p \in Peers, NEW next \in Admitted \cup {"ended"},
           NEW kind \in Kinds, NEW pending \in BOOLEAN,
           stage[p] \in Admitted, At(p, next),
           kind = "request" => pending, pending => stage[p] = "head",
           next \in Handshake \cup {"accepted"} => stage[p] = "head",
           admission' = IF next = "ended" THEN admission \ {p} ELSE admission,
           \/ queue' = Append(queue, Queued(kind, p, EnvelopeSlot(kind, p), pending))
           \/ queue' = queue,
           reply' \in [Peers -> {"none", "queued", "held", "accept", "reject", "dropped"}],
           UNCHANGED <<stop, hub, acceptor, closing>>
    PROVE  TypeOK' /\ Owned' /\ Shrinks
<1>1. /\ stage' \in [Peers -> Stages] /\ stage'[p] = next
      /\ \A q \in Peers \ {p} : stage'[q] = stage[q]
  BY DEF TypeOK, At, Admitted, Handshake, Stages
<1>2. p \in admission
  BY DEF Owned
<1>3. /\ queue' \in Seq(Envelope)
      /\ \A env \in Envelopes' : env.slot /\ (env.kind = "request" => env.pending)
      /\ Envelopes' \subseteq Envelopes \cup {Queued(kind, p, TRUE, pending)}
  <2>1. CASE queue' = queue
    BY <2>1, ZenonT(60) DEF TypeOK, Owned, Envelopes, Envelope
  <2>2. CASE queue' = Append(queue, Queued(kind, p, EnvelopeSlot(kind, p), pending))
    BY <1>2, <2>2, SendOwned
  <2> QED
    BY <2>1, <2>2
<1>4. TypeOK'
  <2>1. admission' \subseteq Peers
    BY DEF TypeOK
  <2>2. queue' \in Seq([kind : Kinds, peer : Peers, slot : BOOLEAN, pending : BOOLEAN])
    BY <1>3 DEF Envelope
  <2> QED
    BY <1>1, <2>1, <2>2 DEF TypeOK
<1>5. admission' = {q \in Peers : stage'[q] \in Admitted}
  <2>1. "ended" \notin Admitted
    BY DEF Admitted, Handshake
  <2> QED
    BY <1>1, <2>1 DEF Owned
<1>6. Owned'
  BY <1>3, <1>5 DEF Owned
<1>7. ASSUME NEW q \in Peers, HoldsSlot(q)' PROVE HoldsSlot(q)
  <2>1. CASE q = p
    BY <2>1, <1>2 DEF HoldsSlot
  <2>2. CASE q # p
    BY <2>2, <1>1, <1>3, <1>7 DEF HoldsSlot, Queued
  <2> QED
    BY <2>1, <2>2
<1>8. ASSUME NEW q \in Peers, HoldsPending(q)' PROVE HoldsPending(q)
  <2>1. CASE q = p /\ stage[p] \in Handshake
    BY <2>1 DEF HoldsPending
  <2>2. CASE q = p /\ stage[p] \notin Handshake
    <3>1. ~pending /\ next \notin Handshake \cup {"accepted"}
      BY <2>2 DEF Handshake
    <3> QED
      BY <2>2, <3>1, <1>1, <1>3, <1>8 DEF HoldsPending, Queued
  <2>3. CASE q # p
    BY <2>3, <1>1, <1>3, <1>8 DEF HoldsPending, Queued
  <2> QED
    BY <2>1, <2>2, <2>3
<1> QED
  BY <1>4, <1>6, <1>7, <1>8 DEF Shrinks

\* A step that takes envelopes and moves no peer.
LEMMA TakeStep ==
    ASSUME TypeOK, Owned, Envelopes' \subseteq Envelopes, queue' \in Seq(Envelope),
           reply' \in [Peers -> {"none", "queued", "held", "accept", "reject", "dropped"}],
           hub' \in {"up", "draining", "dropping", "gone"}, stop' \in BOOLEAN,
           acceptor' \in {"top", "polled", "gone"},
           closing' \in [Closers -> {"idle", "waiting", "back"}],
           UNCHANGED <<stage, admission>>
    PROVE  TypeOK' /\ Owned' /\ Shrinks
<1>1. TypeOK'
  BY DEF TypeOK, Envelope
<1>2. Owned'
  BY DEF Owned
<1>3. Shrinks
  BY DEF Shrinks, HoldsSlot, HoldsPending
<1> QED
  BY <1>1, <1>2, <1>3

\* The steps of serve() and of the link keep the ownership and admit nobody.
LEMMA ServeStep ==
    ASSUME TypeOK, Owned, NEW p \in Peers, Serve(p) \/ Traffic(p) \/ Finish(p)
    PROVE  TypeOK' /\ Owned' /\ Shrinks
<1> USE DEF Stages, Handshake, Admitted
<1>a. p \in admission <=> stage[p] \in Admitted
  BY DEF Owned
<1>1. CASE ServeStops(p)
  BY <1>1, MoveStep DEF ServeStops, Over
<1>2. CASE HandshakeFails(p)
  BY <1>2, MoveStep DEF HandshakeFails, Over
<1>3. CASE HeadRejected(p)
  BY <1>3, <1>a, MoveStep DEF HeadRejected
<1>4. CASE Ask(p)
  <2>1. PICK lands \in Outcomes :
           IF lands THEN /\ SendPending("request", p, TRUE)
                         /\ At(p, "decide")
                         /\ reply' = [reply EXCEPT ![p] = "queued"]
           ELSE Over(p) /\ UNCHANGED <<reply, queue>>
    BY <1>4 DEF Ask
  <2>2. CASE ~lands
    BY <1>4, <2>1, <2>2, MoveStep DEF Ask, Over
  <2>3. CASE lands
    <3>1. reply' \in [Peers -> {"none", "queued", "held", "accept", "reject", "dropped"}]
      BY <2>1, <2>3 DEF TypeOK
    <3>2. queue' = Append(queue, Queued("request", p, EnvelopeSlot("request", p), TRUE))
      BY <2>1, <2>3 DEF SendPending, RequestPending
    <3>3. admission' = admission
      BY <2>1, <2>3 DEF SendPending, AfterSend
    <3>4. At(p, "decide") /\ stage[p] = "head" /\ UNCHANGED <<stop, hub, acceptor, closing>>
      BY <1>4, <2>1, <2>3 DEF Ask
    <3> QED
      BY <3>1, <3>2, <3>3, <3>4, SendStep DEF Kinds
  <2> QED
    BY <2>2, <2>3
<1>5. CASE Decide(p)
  <2>1. PICK next \in Decided(p) : At(p, next)
    BY <1>5 DEF Decide
  <2>2. next \in {"switch", "reject"}
    BY <2>1 DEF Decided
  <2> QED
    BY <1>5, <1>a, <2>1, <2>2, MoveStep DEF Decide
<1>6. CASE Switch(p)
  BY <1>6, <1>a, MoveStep DEF Switch
<1>7. CASE Check(p)
  BY <1>7, <1>a, MoveStep DEF Check, Over
<1>8. ASSUME NEW kind \in {"connection", "traffic"}, Emit(p, kind), stage[p] \in {"opening", "run"},
             UNCHANGED <<stop, hub, acceptor, reply, closing>>
      PROVE  TypeOK' /\ Owned' /\ Shrinks
  <2>1. \/ queue' = Append(queue, Queued(kind, p, EnvelopeSlot(kind, p), FALSE))
        \/ queue' = queue
    BY <1>8 DEF Emit
  <2>2. reply' \in [Peers -> {"none", "queued", "held", "accept", "reject", "dropped"}]
    BY <1>8 DEF TypeOK
  <2>3. CASE hubUp
    BY <1>8, <2>1, <2>2, <2>3, SendStep DEF Emit, AfterSend, Kinds
  <2>4. CASE ~hubUp
    BY <1>8, <2>1, <2>2, <2>4, SendStep DEF Emit, AfterSend, Kinds
  <2> QED
    BY <2>3, <2>4
<1>9. CASE Open(p)
  BY <1>8, <1>9 DEF Open
<1>10. CASE Traffic(p)
  BY <1>8, <1>10 DEF Traffic
<1>11. CASE Finish(p)
  <2>1. \/ queue' = Append(queue, Queued("close", p, EnvelopeSlot("close", p), FALSE))
        \/ queue' = queue
    BY <1>11 DEF Finish, SendPending, RequestPending
  <2>2. reply' \in [Peers -> {"none", "queued", "held", "accept", "reject", "dropped"}]
    BY <1>11 DEF TypeOK, Finish
  <2> QED
    BY <1>11, <2>1, <2>2, SendStep DEF Finish, SendPending, AfterSend, Kinds
<1>12. CASE WorkerEnds(p)
  <2>1. admission' = admission \ {p}
    BY <1>12, <1>a DEF WorkerEnds
  <2> QED
    BY <1>12, <2>1, MoveStep DEF WorkerEnds
<1> QED
  BY <1>1, <1>2, <1>3, <1>4, <1>5, <1>6, <1>7, <1>9, <1>10, <1>11, <1>12 DEF Serve

\* The steps of the accept loop but Accept, of the application and of the hub
\* keep the ownership and admit nobody.
LEMMA OtherStep ==
    ASSUME TypeOK, Owned,
           \/ Poll \/ AcceptFails \/ AcceptEnds
           \/ \E p \in Peers, decision \in {"accept", "reject", "dropped"} : Answer(p, decision)
           \/ Recv \/ HubClose \/ HubDrain \/ HubDrained \/ HubGone
           \/ \E c \in Closers : Close(c) \/ CloseReturns(c)
    PROVE  TypeOK' /\ Owned' /\ Shrinks
<1>q. queue \in Seq(Envelope)
  BY DEF TypeOK, Envelope
<1>e. ASSUME UNCHANGED queue PROVE Envelopes' \subseteq Envelopes /\ queue' \in Seq(Envelope)
  BY <1>e, <1>q DEF Envelopes
<1>1. CASE Poll
  BY <1>1, <1>e, TakeStep DEF Poll, TypeOK, workVars
<1>2. CASE AcceptFails
  BY <1>2, <1>e, TakeStep DEF AcceptFails, TypeOK, workVars
<1>3. CASE AcceptEnds
  BY <1>3, <1>e, TakeStep DEF AcceptEnds, TypeOK, workVars
<1>4. ASSUME NEW p \in Peers, NEW decision \in {"accept", "reject", "dropped"}, Answer(p, decision)
      PROVE  TypeOK' /\ Owned' /\ Shrinks
  BY <1>4, <1>e, TakeStep DEF Answer, TypeOK
<1>5. CASE Recv
  <2>1. Head(queue) \in Envelope /\ queue # <<>>
    BY <1>5, <1>q DEF Recv
  <2>2. Envelopes' \subseteq Envelopes /\ queue' \in Seq(Envelope)
    BY <1>5, <1>q, EnvelopesTail DEF Recv
  <2>3. reply' \in [Peers -> {"none", "queued", "held", "accept", "reject", "dropped"}]
    BY <1>5, <2>1 DEF Recv, TypeOK, Envelope
  <2> QED
    BY <1>5, <2>2, <2>3, TakeStep DEF Recv, TypeOK
<1>6. CASE HubClose
  BY <1>6, <1>e, TakeStep DEF HubClose, TypeOK, workVars
<1>7. CASE HubDrain
  <2> DEFINE env == Head(queue)
             ends == env.kind = "connection" /\ stage[env.peer] = "run"
  <2>1. env \in Envelope /\ queue # <<>>
    BY <1>7, <1>q DEF HubDrain
  <2>2. Envelopes' \subseteq Envelopes /\ queue' \in Seq(Envelope)
    BY <1>7, <1>q, EnvelopesTail DEF HubDrain
  <2>3. reply' \in [Peers -> {"none", "queued", "held", "accept", "reject", "dropped"}]
    BY <1>7, <2>1 DEF HubDrain, TypeOK, Envelope
  <2>4. CASE ~ends
    <3>1. UNCHANGED <<stage, admission>>
      BY <1>7, <2>4 DEF HubDrain
    <3> QED
      BY <1>7, <2>2, <2>3, <3>1, TakeStep DEF HubDrain, TypeOK
  <2>5. CASE ends
    <3>1. /\ stage' = [stage EXCEPT ![env.peer] = "ended"]
          /\ admission' = admission \ {env.peer}
          /\ UNCHANGED <<stop, hub, acceptor, closing>>
      BY <1>7, <2>5 DEF HubDrain, AfterSend
    <3>2. env.peer \in Peers
      BY <2>1 DEF Envelope
    <3> HIDE DEF env
    <3>3. /\ stage' \in [Peers -> Stages] /\ stage'[env.peer] = "ended"
          /\ \A q \in Peers \ {env.peer} : stage'[q] = stage[q]
      BY <3>1, <3>2 DEF TypeOK, Stages
    <3>4. TypeOK'
      <4>1. admission' \subseteq Peers
        BY <3>1 DEF TypeOK
      <4>2. queue' \in Seq([kind : Kinds, peer : Peers, slot : BOOLEAN, pending : BOOLEAN])
        BY <2>2 DEF Envelope
      <4> QED
        BY <2>3, <3>1, <3>3, <4>1, <4>2 DEF TypeOK
    <3>5. admission' = {q \in Peers : stage'[q] \in Admitted}
      BY <3>1, <3>2, <3>3 DEF Owned, Admitted, Handshake
    <3>6. Owned'
      BY <2>2, <3>5 DEF Owned
    <3>7. ASSUME NEW q \in Peers, HoldsSlot(q)' PROVE HoldsSlot(q)
      BY <2>2, <2>5, <3>1, <3>3, <3>7 DEF HoldsSlot
    <3>8. ASSUME NEW q \in Peers, HoldsPending(q)' PROVE HoldsPending(q)
      BY <2>2, <3>3, <3>8 DEF HoldsPending, Handshake
    <3> QED
      BY <3>4, <3>6, <3>7, <3>8 DEF Shrinks
  <2> QED
    BY <2>4, <2>5
<1>8. CASE HubDrained
  BY <1>8, <1>e, TakeStep DEF HubDrained, TypeOK, workVars
<1>9. CASE HubGone
  <2>1. Envelopes' \subseteq Envelopes /\ queue' \in Seq(Envelope)
    BY <1>9, EnvelopesNone DEF HubGone
  <2>2. reply' \in [Peers -> {"none", "queued", "held", "accept", "reject", "dropped"}]
    BY <1>9 DEF HubGone, TypeOK
  <2> QED
    BY <1>9, <2>1, <2>2, TakeStep DEF HubGone, TypeOK
<1>10. ASSUME NEW c \in Closers, Close(c) PROVE TypeOK' /\ Owned' /\ Shrinks
  BY <1>10, <1>e, TakeStep DEF Close, TypeOK, workVars
<1>11. ASSUME NEW c \in Closers, CloseReturns(c) PROVE TypeOK' /\ Owned' /\ Shrinks
  BY <1>11, <1>e, TakeStep DEF CloseReturns, TypeOK, workVars
<1> QED
  BY <1>1, <1>2, <1>3, <1>4, <1>5, <1>6, <1>7, <1>8, <1>9, <1>10, <1>11

\* Accept keeps the ownership, and only the accepted peer may come to hold
\* slots, both of them, when both were free.
LEMMA AcceptStep ==
    ASSUME TypeOK, Owned, NEW p \in Peers, Accept(p)
    PROVE  /\ TypeOK' /\ Owned'
           /\ Shrinks \/ /\ Connections < MaxConnections /\ Pending < MaxPending
                         /\ \A q \in Peers \ {p} : HoldsSlot(q)' => HoldsSlot(q)
                         /\ \A q \in Peers \ {p} : HoldsPending(q)' => HoldsPending(q)
<1>1. Envelopes' = Envelopes /\ stage[p] = "away"
  BY DEF Accept, Envelopes
<1>2. CASE Acquire(Connections, MaxConnections) /\ Acquire(Pending, MaxPending)
  <2>1. /\ stage' = [stage EXCEPT ![p] = "head"] /\ admission' = admission \cup {p}
        /\ acceptor' = "top" /\ UNCHANGED <<stop, hub, reply, queue, closing>>
    BY <1>2 DEF Accept, At
  <2>2. TypeOK'
    BY <2>1 DEF TypeOK, Stages
  <2>3. Owned'
    BY <1>1, <2>1 DEF Owned, TypeOK, Admitted, Handshake
  <2>4. \A q \in Peers \ {p} : HoldsSlot(q)' => HoldsSlot(q)
    BY <1>1, <2>1 DEF HoldsSlot, TypeOK
  <2>5. \A q \in Peers \ {p} : HoldsPending(q)' => HoldsPending(q)
    BY <1>1, <2>1 DEF HoldsPending, TypeOK
  <2> QED
    BY <1>2, <2>2, <2>3, <2>4, <2>5 DEF Acquire
<1>3. CASE ~(Acquire(Connections, MaxConnections) /\ Acquire(Pending, MaxPending))
  <2>1. /\ stage' = [stage EXCEPT ![p] = "over"] /\ admission' = admission
        /\ acceptor' = "top" /\ UNCHANGED <<stop, hub, reply, queue, closing>>
    BY <1>3 DEF Accept, At
  <2>2. TypeOK'
    BY <2>1 DEF TypeOK, Stages
  <2>3. Owned'
    BY <1>1, <2>1 DEF Owned, TypeOK, Admitted, Handshake
  <2>4. \A q \in Peers : HoldsSlot(q)' => HoldsSlot(q)
    BY <1>1, <2>1 DEF HoldsSlot, TypeOK
  <2>5. \A q \in Peers : HoldsPending(q)' => HoldsPending(q)
    BY <1>1, <2>1 DEF HoldsPending, TypeOK, Handshake
  <2> QED
    BY <2>2, <2>3, <2>4, <2>5 DEF Shrinks
<1> QED
  BY <1>2, <1>3

\* Counting: a set of holders that does not grow, or grows by one below the
\* limit, stays within the limit.
LEMMA HoldersBounded ==
    ASSUME NEW S, NEW T, NEW x, NEW n \in Nat, IsFiniteSet(S),
           \/ T \subseteq S /\ Cardinality(S) <= n
           \/ T \subseteq S \cup {x} /\ Cardinality(S) < n
    PROVE  Cardinality(T) <= n
<1>1. Cardinality(S) \in Nat
  BY FS_CardinalityType
<1>2. CASE T \subseteq S /\ Cardinality(S) <= n
  <2>1. IsFiniteSet(T) /\ Cardinality(T) <= Cardinality(S)
    BY <1>2, FS_Subset
  <2>2. Cardinality(T) \in Nat
    BY <2>1, FS_CardinalityType
  <2> QED
    BY <1>1, <1>2, <2>1, <2>2
<1>3. CASE T \subseteq S \cup {x} /\ Cardinality(S) < n
  <2>1. /\ IsFiniteSet(S \cup {x})
        /\ Cardinality(S \cup {x}) = Cardinality(S) \/ Cardinality(S \cup {x}) = Cardinality(S) + 1
    BY FS_AddElement
  <2>2. IsFiniteSet(T) /\ Cardinality(T) <= Cardinality(S \cup {x})
    BY <1>3, <2>1, FS_Subset
  <2>3. Cardinality(T) \in Nat
    BY <2>2, FS_CardinalityType
  <2> QED
    BY <1>1, <1>3, <2>1, <2>2, <2>3
<1> QED
  BY <1>2, <1>3

\* Initially nobody holds a slot.
LEMMA InitAdmission == Init => AdmissionInv
<1> SUFFICES ASSUME Init PROVE AdmissionInv
  OBVIOUS
<1>1. Envelopes = {}
  BY DEF Init, Envelopes
<1>2. stop \in BOOLEAN
  BY Zenon DEF Init
<1>3. TypeOK
  BY <1>2 DEF Init, TypeOK, Stages
<1>4. Owned
  BY <1>1 DEF Init, Owned, Admitted, Handshake
<1>5. {p \in Peers : HoldsSlot(p)} = {} /\ {p \in Peers : HoldsPending(p)} = {}
  BY <1>1 DEF Init, HoldsSlot, HoldsPending, Handshake
<1>6. Connections = 0 /\ Pending = 0
  BY <1>5, FS_EmptySet DEF Connections, Pending
<1>7. AdmissionBounded
  BY <1>6, AdmissionAssumption DEF AdmissionBounded
<1> QED
  BY <1>3, <1>4, <1>7 DEF AdmissionInv

\* Every step preserves the invariant.
LEMMA StepAdmission == AdmissionInv /\ [Next]_vars => AdmissionInv'
<1> SUFFICES ASSUME AdmissionInv, [Next]_vars PROVE AdmissionInv'
  OBVIOUS
<1> DEFINE S == {p \in Peers : HoldsSlot(p)}
           P == {p \in Peers : HoldsPending(p)}
<1>a. /\ TypeOK /\ Owned /\ Cardinality(S) <= MaxConnections /\ Cardinality(P) <= MaxPending
      /\ Connections = Cardinality(S) /\ Pending = Cardinality(P)
  BY DEF AdmissionInv, AdmissionBounded, Connections, Pending
<1>b. IsFiniteSet(S) /\ IsFiniteSet(P) /\ MaxConnections \in Nat /\ MaxPending \in Nat
  BY AdmissionAssumption, FS_Subset
<1>c. ASSUME Shrinks PROVE AdmissionBounded'
  <2>1. S' \subseteq S /\ P' \subseteq P
    BY <1>c DEF Shrinks
  <2>2. Cardinality(S') <= MaxConnections /\ Cardinality(P') <= MaxPending
    <3> HIDE DEF S, P
    <3> QED
      BY <1>a, <1>b, <2>1, HoldersBounded
  <2> QED
    BY <2>2 DEF AdmissionBounded, Connections, Pending
<1>1. ASSUME NEW p \in Peers, Accept(p) PROVE AdmissionInv'
  <2>1. CASE Shrinks
    BY <1>1, <1>a, <1>c, <2>1, AcceptStep DEF AdmissionInv
  <2>2. CASE ~Shrinks
    <3>1. S' \subseteq S \cup {p} /\ P' \subseteq P \cup {p}
      BY <1>1, <1>a, <2>2, AcceptStep
    <3>2. Cardinality(S) < MaxConnections /\ Cardinality(P) < MaxPending
      BY <1>1, <1>a, <2>2, AcceptStep
    <3>3. Cardinality(S') <= MaxConnections /\ Cardinality(P') <= MaxPending
      <4> HIDE DEF S, P
      <4> QED
        BY <1>b, <3>1, <3>2, HoldersBounded
    <3>4. AdmissionBounded'
      BY <3>3 DEF AdmissionBounded, Connections, Pending
    <3> QED
      BY <1>1, <1>a, <3>4, AcceptStep DEF AdmissionInv
  <2> QED
    BY <2>1, <2>2
<1>2. ASSUME NEW p \in Peers, Serve(p) \/ Traffic(p) \/ Finish(p) PROVE AdmissionInv'
  BY <1>2, <1>a, <1>c, ServeStep DEF AdmissionInv
<1>3. CASE UNCHANGED vars
  <2>1. TypeOK' /\ Owned'
    BY <1>3, <1>a DEF vars, workVars, TypeOK, Owned, Envelopes
  <2>2. Shrinks
    BY <1>3 DEF vars, workVars, Shrinks, HoldsSlot, HoldsPending, Envelopes
  <2> QED
    BY <1>c, <2>1, <2>2 DEF AdmissionInv
<1>4. CASE \/ Poll \/ AcceptFails \/ AcceptEnds
           \/ \E p \in Peers, decision \in {"accept", "reject", "dropped"} : Answer(p, decision)
           \/ Recv \/ HubClose \/ HubDrain \/ HubDrained \/ HubGone
           \/ \E c \in Closers : Close(c) \/ CloseReturns(c)
  BY <1>4, <1>a, <1>c, OtherStep DEF AdmissionInv
<1> QED
  BY <1>1, <1>2, <1>3, <1>4 DEF Next

-----------------------------------------------------------------------------
(* The invariant of admission holds always.                                *)
THEOREM AdmissionInvariance == Spec => []AdmissionInv
  BY InitAdmission, StepAdmission, PTL DEF Spec

(* limits.connections and MAX_PENDING are never exceeded, for any number   *)
(* of peers and any limits.                                                *)
THEOREM SlotsBounded == Spec => []AdmissionBounded
<1>1. AdmissionInv => AdmissionBounded
  BY DEF AdmissionInv
<1> QED
  BY <1>1, AdmissionInvariance, PTL

(* Undelivered events belong to at most max_connections connections.       *)
THEOREM EventsBounded == Spec => []UndeliveredBounded
<1>1. AdmissionInv => UndeliveredBounded
  <2> SUFFICES ASSUME AdmissionInv PROVE UndeliveredBounded
    OBVIOUS
  <2> DEFINE S == {p \in Peers : HoldsSlot(p)}
             T == {env.peer : env \in Envelopes}
  <2>1. \A env \in Envelopes : env.peer \in Peers
    BY EnvelopePeers DEF AdmissionInv
  <2>2. T \subseteq S
    BY <2>1 DEF AdmissionInv, Owned, HoldsSlot
  <2>3. IsFiniteSet(S) /\ MaxConnections \in Nat
    BY AdmissionAssumption, FS_Subset
  <2>4. Cardinality(S) <= MaxConnections
    BY DEF AdmissionInv, AdmissionBounded, Connections
  <2>5. Cardinality(T) <= MaxConnections
    <3> HIDE DEF S, T
    <3> QED
      BY <2>2, <2>3, <2>4, HoldersBounded
  <2> QED
    BY <2>5 DEF UndeliveredBounded
<1> QED
  BY <1>1, AdmissionInvariance, PTL

(* At most MAX_PENDING requests wait to be received, whatever became of    *)
(* the handshakes that asked.                                              *)
THEOREM PendingRequestsBounded == Spec => []RequestsBounded
<1>1. AdmissionInv => RequestsBounded
  <2> SUFFICES ASSUME AdmissionInv PROVE RequestsBounded
    OBVIOUS
  <2> DEFINE S == {p \in Peers : HoldsPending(p)}
             T == {env.peer : env \in {e \in Envelopes : e.kind = "request"}}
  <2>1. \A env \in Envelopes : env.peer \in Peers
    BY EnvelopePeers DEF AdmissionInv
  <2>2. T \subseteq S
    BY <2>1 DEF AdmissionInv, Owned, HoldsPending
  <2>3. IsFiniteSet(S) /\ MaxPending \in Nat
    BY AdmissionAssumption, FS_Subset
  <2>4. Cardinality(S) <= MaxPending
    BY DEF AdmissionInv, AdmissionBounded, Pending
  <2>5. Cardinality(T) <= MaxPending
    <3> HIDE DEF S, T
    <3> QED
      BY <2>2, <2>3, <2>4, HoldersBounded
  <2> QED
    BY <2>5 DEF RequestsBounded
<1> QED
  BY <1>1, AdmissionInvariance, PTL

(* A connection that ended and was fully received holds no slot, although  *)
(* the application may keep its Conn.                                      *)
THEOREM RetainedFrees == Spec => []RetainedConnFrees
<1>1. AdmissionInv => RetainedConnFrees
  BY DEF AdmissionInv, Owned, RetainedConnFrees, HoldsSlot, HoldsPending, Admitted, Handshake
<1> QED
  BY <1>1, AdmissionInvariance, PTL

=============================================================================
