----------------------------- MODULE Handshake -----------------------------
(***************************************************************************)
(* The opening handshake between a client and a server of this library, or *)
(* a stranger's request: the request head the client builds, read_head on  *)
(* a byte stream that arrives in any pieces, the checks of the server, the *)
(* answer and the checks of the client.  A header is its name and the      *)
(* comma-separated items of its value; names and tokens are compared       *)
(* without case.  The text of a key is kept beside the headers.  On the    *)
(* wire every line is one "x" and its CRLF.                                *)
(***************************************************************************)
EXTENDS Base64, FiniteSetsExt

CONSTANTS
    Options,     \* client options: protocols, extra headers and random bytes
    Strangers,   \* request heads of other clients
    Replies,     \* answers of other servers: a status and headers
    Decisions,   \* what the application answers
    MaxHead,     \* http::MAX_HEAD
    MaxHeaders,  \* MAX_HEADERS
    KeyBytes,    \* how many random bytes a key is made of
    Chunk,       \* the read buffer of read_head
    Frames       \* how many bytes follow a stranger's request, or a 101

VARIABLES
    opts,     \* the client's options, or NoOptions for a stranger
    head,     \* the head under way: its start line, its headers and its key
    phase,    \* who has the word
    wire,     \* what the peer has written
    buf,      \* how many bytes of it read_head has
    status,   \* the status of the answer
    chosen,   \* the subprotocol the server opened with, or Foreign for another server
    agreed,   \* the one the client opened with
    rest      \* the bytes read_head left over

vars == <<opts, head, phase, wire, buf, status, chosen, agreed, rest>>

None == "none"
Foreign == "foreign"
NoOptions == [protocols |-> <<"">>, headers |-> <<>>, nonce |-> <<>>]
NoHead == [start |-> "", headers |-> <<>>, key |-> <<>>]
H(name, items) == [name |-> name, items |-> items]

(***************************************************************************)
(* http.rs                                                                 *)
(***************************************************************************)
Reserved == {"host", "upgrade", "connection", "content-length", "transfer-encoding",
             "sec-websocket-key", "sec-websocket-version", "sec-websocket-protocol",
             "sec-websocket-extensions", "sec-websocket-accept"}
CheckHeader(h) == h.name \notin Reserved

All(hs, name) == SelectSeq(hs, LAMBDA h : h.name = name)
Items(hs, name) == FlattenSeq([i \in DOMAIN All(hs, name) |-> All(hs, name)[i].items])
One(hs, name) == IF Len(All(hs, name)) = 1 THEN All(hs, name)[1].items ELSE <<>>
HasToken(hs, name, token) == token \in ToSet(Items(hs, name))
IsToken(item) == item # ""
Distinct(items) == IsInjective(items) /\ \A i \in DOMAIN items : IsToken(items[i])

\* Index just past the first blank line of a piece of the wire, or 0.
End(bytes) ==
    LET ends == {i \in 4..Len(bytes) : SubSeq(bytes, i - 3, i) = <<"CR", "LF", "CR", "LF">>}
    IN  IF ends = {} THEN 0 ELSE Min(ends)

(***************************************************************************)
(* handshake.rs and handshake/request.rs                                   *)
(***************************************************************************)
Key == "key"
AcceptKey(key) == "accept-" \o key

\* 24 characters that decode to 16 bytes.
ValidKey(text) ==
    Len(text) = 4 * ((KeyBytes + 2) \div 3) /\ Decode(text).ok /\ Len(Decode(text).out) = KeyBytes

ClientRequest(o) ==
    <<H("host", <<"host">>), H("upgrade", <<"websocket">>), H("connection", <<"upgrade">>),
      H("sec-websocket-key", <<Key>>), H("sec-websocket-version", <<"13">>)>>
    \o (IF o.protocols = <<>> THEN <<>> ELSE <<H("sec-websocket-protocol", o.protocols)>>)
    \o o.headers

\* The status that request() rejects with, or 0.
RequestStatus(start, hs, key) ==
    CASE Len(hs) > MaxHeaders \/ start = "bad" -> 400
      [] start # "GET" -> 405
      [] One(hs, "host") # <<"host">> -> 400
      [] Len(All(hs, "origin")) > 1 -> 400
      [] All(hs, "transfer-encoding") # <<>> -> 400
      [] \E h \in ToSet(All(hs, "content-length")) : h.items # <<"0">> -> 400
      [] ~HasToken(hs, "upgrade", "websocket") -> 426
      [] ~HasToken(hs, "connection", "upgrade") -> 400
      [] One(hs, "sec-websocket-version") # <<"13">> -> 426
      [] One(hs, "sec-websocket-key") # <<Key>> \/ ~ValidKey(key) -> 400
      [] ~Distinct(Items(hs, "sec-websocket-protocol")) -> 400
      [] OTHER -> 0

Switching(protocol) ==
    <<H("upgrade", <<"websocket">>), H("connection", <<"upgrade">>),
      H("sec-websocket-accept", <<AcceptKey(Key)>>)>>
    \o (IF protocol = None THEN <<>> ELSE <<H("sec-websocket-protocol", <<protocol>>)>>)

Reject(code) ==
    <<H("connection", <<"close">>), H("content-length", <<"0">>)>>
    \o (IF code = 426 THEN <<H("upgrade", <<"websocket">>), H("sec-websocket-version", <<"13">>)>>
        ELSE IF code = 405 THEN <<H("allow", <<"GET">>)>> ELSE <<>>)

\* What response() makes of an answer: the subprotocol, or a refusal.
Response(code, hs, protocols) ==
    LET p == All(hs, "sec-websocket-protocol") IN
    CASE \/ code # 101
         \/ ~HasToken(hs, "upgrade", "websocket") \/ ~HasToken(hs, "connection", "upgrade")
         \/ One(hs, "sec-websocket-accept") # <<AcceptKey(Key)>>
         \/ All(hs, "sec-websocket-extensions") # <<>> -> "refused"
      [] OTHER -> IF p = <<>> THEN None
                  ELSE IF Len(p) = 1 /\ \E o \in ToSet(protocols) : p[1].items = <<o>>
                  THEN p[1].items[1] ELSE "refused"

(***************************************************************************)
(* The exchange.                                                           *)
(***************************************************************************)
\* A head of some lines, and the frames behind it.
Bytes(lines, frames) ==
    [i \in 1..(3 * lines + 2 + frames) |->
        CASE i > 3 * lines + 2 -> "f"
          [] i = 3 * lines + 1 -> "CR"
          [] i = 3 * lines + 2 -> "LF"
          [] OTHER -> <<"x", "CR", "LF">>[((i - 1) % 3) + 1]]
Writes(start, hs, key, frames) ==
    /\ head' = [start |-> start, headers |-> hs, key |-> key]
    /\ wire' = Bytes(1 + Len(hs), frames)
    /\ buf' = 0

Init ==
    /\ \/ opts \in Options /\ phase = "new" /\ head = NoHead /\ wire = <<>>
       \/ /\ opts = NoOptions /\ phase = "request" /\ head \in Strangers
          /\ wire = Bytes(1 + Len(head.headers), Frames)
    /\ buf = 0 /\ status = 0 /\ chosen = None /\ agreed = None /\ rest = 0

\* connect() checks its options, and its task writes the request.
Connect ==
    /\ phase = "new"
    /\ \/ /\ Distinct(opts.protocols) /\ \A h \in ToSet(opts.headers) : CheckHeader(h)
          /\ phase' = "request" /\ Writes("GET", ClientRequest(opts), Encode(opts.nonce), 0)
       \/ /\ ~Distinct(opts.protocols) \/ \E h \in ToSet(opts.headers) : ~CheckHeader(h)
          /\ phase' = "invalid" /\ UNCHANGED <<head, wire, buf>>
    /\ UNCHANGED <<opts, status, chosen, agreed, rest>>

\* read_head: where it looks for the blank line after a read, what it finds once it
\* has n bytes, and whether that is too much.
From_New(b) == b
From(b) == IF b < 3 THEN 0 ELSE b - 3
Found(n) == LET end == End(SubSeq(wire, From(buf) + 1, n)) IN IF end = 0 THEN 0 ELSE end + From(buf)
TooLarge_Read(n) == n > MaxHead
TooLarge(n) == (IF Found(n) = 0 THEN n ELSE Found(n)) > MaxHead
Receives(n) == n \in (buf + 1)..Len(wire) /\ n - buf <= Chunk
More(n) == Found(n) = 0 /\ ~TooLarge(n) /\ buf' = n

\* The server's answer, with the first frames of an opened connection behind it.
Answers(code, hs) ==
    /\ status' = code /\ phase' = "response"
    /\ Writes("status", hs, <<>>, IF code = 101 THEN Frames ELSE 0)
Rejects(code) == Answers(code, Reject(code))

ServerReads(n) ==
    LET code == RequestStatus(head.start, head.headers, head.key) IN
    /\ phase = "request" /\ Receives(n)
    /\ \/ More(n) /\ UNCHANGED <<phase, status, head, wire>>
       \/ TooLarge(n) /\ Rejects(431)
       \/ Found(n) > 0 /\ ~TooLarge(n) /\ code # 0 /\ Rejects(code)
       \/ /\ Found(n) > 0 /\ ~TooLarge(n) /\ code = 0
          /\ phase' = "decide" /\ buf' = n /\ UNCHANGED <<status, head, wire>>
    /\ rest' = IF phase' = "decide" THEN n - Found(n) ELSE rest
    /\ UNCHANGED <<opts, chosen, agreed>>

\* The deadline passes before the head is there, or before the application's
\* decision; a decision that is dropped counts as one that is late.
ServerTimesOut ==
    /\ \/ phase = "request" /\ Rejects(408)
       \/ phase = "decide" /\ Rejects(503)
    /\ UNCHANGED <<opts, chosen, agreed, rest>>

\* handshake() in serve.rs does not pass on a subprotocol the client did not offer.
Offered_Unchecked(p) == TRUE
Offered(p) == p = None \/ p \in ToSet(Items(head.headers, "sec-websocket-protocol"))

Decide(decision) ==
    /\ phase = "decide"
    /\ \/ /\ decision.accept /\ Offered(decision.protocol)
          /\ Answers(101, Switching(decision.protocol)) /\ chosen' = decision.protocol
       \/ decision.accept /\ ~Offered(decision.protocol) /\ Rejects(500) /\ UNCHANGED chosen
       \/ /\ ~decision.accept /\ UNCHANGED chosen
          /\ Rejects(IF decision.status \in 400..599 THEN decision.status ELSE 500)
    /\ UNCHANGED <<opts, agreed, rest>>

\* Another server answers instead.
OtherServer(reply) ==
    /\ phase = "request" /\ opts # NoOptions /\ buf = 0
    /\ Answers(reply.status, reply.headers) /\ chosen' = Foreign
    /\ UNCHANGED <<opts, agreed, rest>>

ClientReads(n) ==
    LET result == Response(status, head.headers, opts.protocols) IN
    /\ phase = "response" /\ opts # NoOptions /\ Receives(n)
    /\ \/ More(n) /\ UNCHANGED <<phase, agreed, rest>>
       \/ TooLarge(n) /\ phase' = "failed" /\ UNCHANGED <<buf, agreed, rest>>
       \/ /\ Found(n) > 0 /\ ~TooLarge(n)
          /\ phase' = IF result = "refused" THEN "refused" ELSE "open"
          /\ agreed' = result /\ rest' = n - Found(n) /\ buf' = n
    /\ UNCHANGED <<opts, head, wire, status, chosen>>

\* The other end is gone, or the client's deadline passes.
Fails ==
    /\ phase \in {"request", "decide", "response"} /\ phase' = "failed"
    /\ UNCHANGED <<opts, head, wire, buf, status, chosen, agreed, rest>>

Next ==
    \/ Connect \/ ServerTimesOut \/ Fails
    \/ \E n \in DOMAIN wire : ServerReads(n) \/ ClientReads(n)
    \/ \E decision \in Decisions : Decide(decision)
    \/ \E reply \in Replies : OtherServer(reply)

Spec == Init /\ [][Next]_vars

(***************************************************************************)
(* Correctness.                                                            *)
(***************************************************************************)

HeadLen == 3 * (1 + Len(head.headers)) + 2

\* However the bytes are cut into reads, read_head ends at the first blank line: a head
\* that is all there is never still awaited, and the bytes of the first frames that came
\* with it are kept for the link, none lost and none taken into the head.
HeadExact ==
    /\ phase \in {"request", "response"} => buf < HeadLen
    /\ phase \in {"decide", "open"} => buf - rest = HeadLen

\* 431 answers exactly the heads above the limit, whatever came in the same read.
LimitExact ==
    [][phase = "request" /\ chosen' # Foreign /\ phase' \notin {"request", "failed"} /\ status' # 408
        => (status' = 431 <=> HeadLen > MaxHead)]_vars


\* The client opens only with a subprotocol it offered, or with none; a server of this
\* library opened with the same one, and its 101 is never refused.
Agreement ==
    /\ phase = "open" => status = 101 /\ agreed \in ToSet(opts.protocols) \cup {None}
    /\ phase = "open" /\ chosen # Foreign => agreed = chosen
    /\ phase = "refused" => status # 101 \/ chosen = Foreign

\* A request gets to the application only with the one spelling that encode() gives
\* to 16 bytes, so that two keys are never taken for the same.
KeysCanonical ==
    phase = "decide" => \E bytes \in {Decode(head.key).out} : Len(bytes) = KeyBytes /\ Encode(bytes) = head.key

=============================================================================
