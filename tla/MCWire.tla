------------------------------- MODULE MCWire -------------------------------
(* Reader and Handshake for model checking: what the two ends make of the  *)
(* bytes they receive.  A connection reads its head and then, from another *)
(* state, its frames; a behaviour is one of the two while the other's      *)
(* state is one in which it is over.                                       *)
EXTENDS Handshake

CONSTANTS Short, Medium, Top, Limit, Wires, Texts
VARIABLES server, sent, frames, got, pos, next, partial, out, fail
frameVars == <<server, sent, frames, got, pos, next, partial, out, fail>>

R == INSTANCE Reader WITH wire <- frames

HeadOver ==
    /\ opts = NoOptions /\ head = NoHead /\ phase = "failed" /\ wire = <<>>
    /\ buf = 0 /\ status = 0 /\ chosen = None /\ agreed = None /\ rest = 0
\* Nothing was sent, and nothing will be.
FramesOver ==
    /\ server = TRUE /\ sent = <<>> /\ frames = <<>> /\ got = 0 /\ pos = 0 /\ next = 1
    /\ partial = R!NoPartial /\ out = <<>> /\ fail = 0

WireInit == (R!Init /\ HeadOver) \/ (Init /\ FramesOver)
WireNext == (R!Next /\ UNCHANGED vars) \/ (Next /\ UNCHANGED frameVars)
WireSpec == WireInit /\ [][WireNext]_<<vars, frameVars>>

(* The properties of Reader.                                               *)
ReadsWhatWasSent == R!ReadsWhatWasSent
BufferBounded == R!BufferBounded

(***************************************************************************)
(* Frames.                                                                 *)
(***************************************************************************)
Runs(byte) == {[i \in 1..n |-> byte] : n \in 0..Short + 3}
Framed(op, fin, payload) ==
    [fin |-> fin, rsv |-> FALSE, op |-> op, masked |-> TRUE,
     form |-> IF Len(payload) <= Short THEN 2 ELSE IF Len(payload) <= Medium THEN 4 ELSE 10,
     len |-> Len(payload), payload |-> payload]

Good == {Framed("ping", TRUE, <<"a">>), Framed("text", TRUE, <<"a", "l", "c", "c">>),
         Framed("binary", FALSE, <<"l">>), Framed("text", FALSE, <<"a", "l">>),
         Framed("text", FALSE, <<"l", "c">>), Framed("continuation", FALSE, <<"c">>),
         Framed("continuation", TRUE, <<"c", "c">>), Framed("continuation", TRUE, <<"c">>),
         Framed("continuation", FALSE, <<>>),
         Framed("continuation", TRUE, <<"c", "c", "a", "a", "a">>), Framed("close", TRUE, <<"a", "a">>)}
\* One frame for every way to break the protocol.
Broken == {[Framed("text", TRUE, <<"a">>) EXCEPT !.rsv = TRUE],
           [Framed("text", TRUE, <<"a">>) EXCEPT !.op = "reserved"],
           [Framed("text", TRUE, <<"a">>) EXCEPT !.masked = FALSE],
           [Framed("text", TRUE, <<"a">>) EXCEPT !.form = 4],
           [Framed("text", TRUE, <<"a", "a", "a">>) EXCEPT !.form = 10],
           [Framed("text", TRUE, <<>>) EXCEPT !.form = 10, !.len = Top],
           [Framed("binary", TRUE, <<>>) EXCEPT !.form = 10, !.len = Top - 1],
           Framed("binary", TRUE, [i \in 1..16 |-> "a"]),
           [Framed("binary", TRUE, <<"a">>) EXCEPT !.len = 2],
           Framed("ping", FALSE, <<"a">>), Framed("ping", TRUE, <<"a", "a", "a">>),
           Framed("text", TRUE, <<"a", "l">>), Framed("text", FALSE, <<"l", "a">>),
           Framed("close", TRUE, <<"a">>), Framed("close", TRUE, <<"c", "a">>),
           Framed("close", TRUE, <<"a", "a", "l">>), Framed("close", TRUE, <<>>)}
SomeWires ==
    {<<a>> : a \in Good \cup Broken} \cup {<<a, b>> : a \in Good, b \in Good \cup Broken}
        \* a third frame tells nothing new unless the second goes on with a message
        \cup {<<a, b, c>> : a \in {f \in Good : ~f.fin /\ f.op # "continuation"},
                             b \in {f \in Good : f.op \in {"continuation", "ping"}},
                             c \in Good}
SomeTexts ==
    {<<[op |-> "binary", data |-> a], [op |-> op, data |-> b]>> :
        op \in {"ping", "text"}, a \in Runs("a"), b \in {<<>>, <<"a", "a">>}}

\* The length fields can hold what they claim.
ASSUME WiresAssumption ==
    /\ 0 < Short /\ Short < Medium /\ Medium < Top /\ 0 < Limit /\ Limit < Top
    /\ \A sequence \in Wires : \A i \in 1..Len(sequence) :
          /\ sequence[i].form \in {2, 4, 10}
          /\ sequence[i].form = 2 => sequence[i].len <= Short
          /\ sequence[i].form = 4 => sequence[i].len <= Medium
          /\ Len(sequence[i].payload) <= sequence[i].len

(***************************************************************************)
(* Heads.                                                                  *)
(***************************************************************************)
Extra == {H("origin", <<"o1">>), H("cookie", <<"c">>), H("host", <<"other">>)}
Ones == [i \in 1..KeyBytes |-> 255]
MCOptions ==
    {[protocols |-> p, headers |-> h, nonce |-> Ones] : p \in {<<>>, <<"a">>}, h \in SeqOf(Extra, 2)}
    \cup {[protocols |-> p, headers |-> <<>>, nonce |-> Ones] : p \in {<<"a", "b">>, <<"a", "a">>}}
    \cup {[protocols |-> <<>>, headers |-> <<>>, nonce |-> n] : n \in [1..KeyBytes -> {0, 255}]}

\* Other clients: the request of this one with a header left out, doubled or changed.
PlainHead == ClientRequest([protocols |-> <<"a">>, headers |-> <<>>])
Changes == {H("host", <<"bad">>), H("origin", <<"o2">>), H("connection", <<"keep-alive", "upgrade">>),
            H("sec-websocket-version", <<"12">>), H("sec-websocket-key", <<Key>>),
            H("sec-websocket-protocol", <<"b", "a">>), H("content-length", <<"0">>),
            H("content-length", <<"5">>), H("transfer-encoding", <<"chunked">>)}
Variants ==
    {PlainHead} \cup {RemoveAt(PlainHead, i) : i \in DOMAIN PlainHead}
    \cup {Append(PlainHead, h) : h \in Changes}
    \cup UNION {{Append(RemoveAt(PlainHead, i), h) : h \in {c \in Changes : c.name = PlainHead[i].name}} :
                   i \in DOMAIN PlainHead}
\* Keys around the borders of the encoding: the padding, the bits before it, the length.
GoodKey == Encode(Ones)
Keys == {SubSeq(GoodKey, 1, Len(GoodKey) - 3) \o <<c, p, q>> :
            c \in {0, 1, 16, 47}, p, q \in {0, Pad, Alien}}
        \cup {SubSeq(GoodKey, 1, n) : n \in 0..Len(GoodKey)} \cup {Append(GoodKey, Pad)}
MCStrangers ==
    {[start |-> "GET", headers |-> hs, key |-> GoodKey] : hs \in Variants}
    \cup {[start |-> s, headers |-> PlainHead, key |-> GoodKey] : s \in {"POST", "bad"}}
    \cup {[start |-> "GET", headers |-> PlainHead, key |-> k] : k \in Keys}

\* Other servers: the 101 of this one, changed in the same way.
Switched == Switching("a")
Differences == {H("sec-websocket-accept", <<"stale">>), H("sec-websocket-protocol", <<"b">>),
                H("sec-websocket-protocol", <<"a", "b">>), H("sec-websocket-extensions", <<"deflate">>)}
MCReplies ==
    {[status |-> 101, headers |-> hs] :
        hs \in {RemoveAt(Switched, i) : i \in DOMAIN Switched}
               \cup {Append(Switched, h) : h \in Differences}
               \cup {Append(RemoveAt(Switched, i), h) : i \in {3, 4}, h \in Differences}
               \cup {Switched \o Switched}}
    \cup {[status |-> 200, headers |-> Switched]}

MCDecisions ==
    {[accept |-> TRUE, protocol |-> p, status |-> 0] : p \in {None, "a", "b"}}
    \cup {[accept |-> FALSE, protocol |-> None, status |-> s] : s \in {403, 200}}
=============================================================================
