------------------------------- MODULE Reader -------------------------------
(***************************************************************************)
(* The incremental frame reader (core/src/proto/reader.rs) and the encoder *)
(* it must agree with (core/src/proto/frame.rs).  The wire is a sequence   *)
(* of frames; the transport delivers its bytes in arbitrary pieces.  The   *)
(* reader looks at a frame again with every piece and may judge it only by *)
(* the bytes that arrived.  Payload bytes are abstract: "a" a character of *)
(* its own, "l" the lead byte of a three-byte character, "c" one of its    *)
(* continuation bytes.                                                     *)
(***************************************************************************)
EXTENDS Integers, Sequences, FiniteSets, SequencesExt

CONSTANTS
    Short,   \* the longest payload of the short length form (125)
    Medium,  \* the longest one of the 16-bit form (65535)
    Top,     \* the first length whose top bit is set (2^63)
    Limit,   \* Reader.max
    Wires,   \* frame sequences of a peer that may break the protocol
    Texts    \* message sequences of a peer that uses frame.rs

VARIABLES
    server,   \* Reader.server: expects masked frames
    sent,     \* what an encoding peer sent, <<>> for another one
    wire,     \* everything the peer will send
    got,      \* bytes received
    pos,      \* bytes consumed: Reader.pos, were the buffer never compacted
    next,     \* the frame that starts at pos
    partial,  \* Reader.partial; op "none" is None
    out,      \* messages returned
    fail      \* the close code of the violation found, or 0

vars == <<server, sent, wire, got, pos, next, partial, out, fail>>

Data == {"text", "binary", "continuation"}
Control == {"close", "ping", "pong"}
NoPartial == [op |-> "none", data |-> <<>>, checked |-> 0]
Message(op, data) == [op |-> op, data |-> data]

(***************************************************************************)
(* Frames.  form is the number of header bytes before the mask: 2, 4 or 10 *)
(* for the three length encodings.  len is what the header claims; the     *)
(* last frame of a wire may carry less.                                    *)
(***************************************************************************)
HeaderLen(frame) == frame.form + (IF frame.masked THEN 4 ELSE 0)
Size(frame) == HeaderLen(frame) + Len(frame.payload)
Total == FoldLeft(LAMBDA sum, frame : sum + Size(frame), 0, wire)

\* encode_into()
Form(len) == IF len <= Short THEN 2 ELSE IF len <= Medium THEN 4 ELSE 10
Encode(msg, masked) ==
    [fin |-> TRUE, rsv |-> FALSE, op |-> msg.op, masked |-> masked,
     form |-> Form(Len(msg.data)), len |-> Len(msg.data), payload |-> msg.data]

Init ==
    /\ server \in BOOLEAN
    /\ \/ sent = <<>> /\ wire \in Wires
       \/ sent \in Texts /\ wire = [i \in 1..Len(sent) |-> Encode(sent[i], server)]
    /\ got = 0 /\ pos = 0 /\ next = 1 /\ partial = NoPartial
    /\ out = <<>> /\ fail = 0

(***************************************************************************)
(* UTF-8.  Owed[n] is the number of continuation bytes the first n bytes   *)
(* still wait for, or -1 once they cannot be part of any text.             *)
(***************************************************************************)
Owed(data) ==
    LET owed[n \in 0..Len(data)] ==
            IF n = 0 THEN 0
            ELSE IF owed[n - 1] = 0
                 THEN CASE data[n] = "a" -> 0 [] data[n] = "l" -> 2 [] data[n] = "c" -> -1
                 ELSE IF owed[n - 1] > 0 /\ data[n] = "c" THEN owed[n - 1] - 1 ELSE -1
    IN owed
\* Utf8Error::valid_up_to, and error_len() = None: only the end is missing.
ValidUpTo(data) == CHOOSE n \in 0..Len(data) :
    /\ Owed(data)[n] = 0
    /\ \A m \in 0..Len(data) : Owed(data)[m] = 0 => m <= n
WellFormed(data) == Owed(data)[Len(data)] = 0
Incomplete(data) == Owed(data)[Len(data)] > 0

(***************************************************************************)
(* frame(): its checks in the order of the code, each as soon as the bytes *)
(* it needs are there.                                                     *)
(***************************************************************************)
Frame == wire[next]
Have == got - pos

BadStart ==
    \/ Frame.rsv
    \/ Frame.op \notin Data \cup Control
    \/ Frame.masked # server

BadSequence ==
    \/ Frame.op = "continuation" /\ partial.op = "none"
    \/ Frame.op \in {"text", "binary"} /\ partial.op # "none"

BadLength ==
    \/ Frame.form = 4 /\ Frame.len <= Short
    \/ Frame.form = 10 /\ (Frame.len <= Medium \/ Frame.len >= Top)

BadControl == Frame.op \in Control /\ (~Frame.fin \/ Frame.len > Short)

TooBig_Late == Frame.op \in Data /\ Frame.len + Len(partial.data) > Limit /\ Have >= Size(Frame)
TooBig == Frame.op \in Data /\ Frame.len + Len(partial.data) > Limit

\* "more" input is needed, the frame is "whole", or the violation's code.
Verdict ==
    IF next > Len(wire) \/ Have < 2 THEN "more"
    ELSE IF BadStart \/ BadSequence THEN "1002"
    ELSE IF Have < Frame.form THEN "more"
    ELSE IF BadLength \/ BadControl THEN "1002"
    ELSE IF TooBig THEN "1009"
    ELSE IF Have < HeaderLen(Frame) + Frame.len THEN "more"
    ELSE "whole"

Code(verdict) == CASE verdict = "1002" -> 1002 [] verdict = "1009" -> 1009
Running == fail = 0 /\ \A i \in 1..Len(out) : out[i].op # "close"

(***************************************************************************)
(* assemble() of a control frame.  Of a close frame's code only its being  *)
(* valid matters, which the first byte tells here.                         *)
(***************************************************************************)
CloseFails(data) ==
    IF data = <<>> THEN 0
    ELSE IF Len(data) = 1 \/ data[1] # "a" THEN 1002
    ELSE IF ~WellFormed(SubSeq(data, 3, Len(data))) THEN 1007 ELSE 0

Consume == pos' = pos + Size(Frame) /\ next' = next + 1

ControlFrame ==
    /\ Running /\ Verdict = "whole" /\ Frame.op \in Control
    /\ Consume
    /\ fail' = IF Frame.op = "close" THEN CloseFails(Frame.payload) ELSE 0
    /\ out' = IF fail' = 0 THEN Append(out, Message(Frame.op, Frame.payload)) ELSE out
    /\ UNCHANGED <<server, sent, wire, got, partial>>

(***************************************************************************)
(* assemble() of a data frame: text is checked as it comes, from where the *)
(* last check ended inside a character.                                    *)
(***************************************************************************)
Checked_All(checked, rest, data) == Len(data)
Checked(checked, rest, data) ==
    IF WellFormed(rest) THEN Len(data) ELSE checked + ValidUpTo(rest)

DataFrame ==
    /\ Running /\ Verdict = "whole" /\ Frame.op \in Data
    /\ Consume
    /\ LET op == IF partial.op = "none" THEN Frame.op ELSE partial.op
           data == partial.data \o Frame.payload
           rest == SubSeq(data, partial.checked + 1, Len(data))
           valid == op # "text" \/ WellFormed(rest) \/ (Incomplete(rest) /\ ~Frame.fin)
           checked == IF op = "text" THEN Checked(partial.checked, rest, data) ELSE 0
       IN IF ~valid
          THEN /\ fail' = 1007
               /\ partial' = [op |-> op, data |-> data, checked |-> partial.checked]
               /\ UNCHANGED out
          ELSE /\ partial' = IF Frame.fin THEN NoPartial
                             ELSE [op |-> op, data |-> data, checked |-> checked]
               /\ out' = IF Frame.fin THEN Append(out, Message(op, data)) ELSE out
               /\ UNCHANGED fail
    /\ UNCHANGED <<server, sent, wire, got>>

Violate ==
    /\ Running /\ Verdict \in {"1002", "1009"}
    /\ fail' = Code(Verdict)
    /\ UNCHANGED <<server, sent, wire, got, pos, next, partial, out>>

\* read_loop reads more only after dispatch() has used up what is there.
Push(n) ==
    /\ Running /\ Verdict = "more"
    /\ got + n <= Total
    /\ got' = got + n
    /\ UNCHANGED <<server, sent, wire, pos, next, partial, out, fail>>

Next == ControlFrame \/ DataFrame \/ Violate \/ \E n \in 1..Total : Push(n)
Spec == Init /\ [][Next]_vars

-----------------------------------------------------------------------------
(***************************************************************************)
(* What a wire means, without pieces, positions or incremental checks: one *)
(* pass over whole frames that keeps the fragments of the open message.    *)
(***************************************************************************)
Meaning(frame, open) ==
    LET data == FoldLeft(LAMBDA all, part : all \o part.payload, <<>>, open) \o frame.payload
        first == IF open = <<>> THEN frame ELSE Head(open)
        misplaced == (frame.op = "continuation") = (open = <<>>)
    IN IF \/ frame.rsv \/ frame.op \notin Data \cup Control \/ frame.masked # server
          \/ frame.op \in Data /\ misplaced
          \/ frame.form # (IF frame.len <= Short THEN 2 ELSE IF frame.len <= Medium THEN 4 ELSE 10)
          \/ frame.len >= Top
          \/ frame.op \in Control /\ (~frame.fin \/ frame.len > Short)
       THEN 1002
       ELSE IF frame.op \in Data /\ Len(data) - Len(frame.payload) + frame.len > Limit THEN 1009
       ELSE IF Len(frame.payload) < frame.len THEN -1
       ELSE IF frame.op = "close" THEN CloseFails(frame.payload)
       ELSE IF /\ frame.op \in Data /\ first.op = "text"
               /\ Owed(data)[Len(data)] < 0 \/ (frame.fin /\ ~WellFormed(data))
            THEN 1007 ELSE 0

Reference ==
    LET step(acc, frame) ==
            IF acc.end # 0 THEN acc
            ELSE LET code == Meaning(frame, acc.open)
                     whole == Append(acc.open, frame)
                 IN IF code # 0 THEN [acc EXCEPT !.end = code]
                    ELSE IF frame.op \in Control
                         THEN [acc EXCEPT !.out = Append(@, Message(frame.op, frame.payload)),
                                          !.end = IF frame.op = "close" THEN -1 ELSE 0]
                    ELSE IF ~frame.fin THEN [acc EXCEPT !.open = whole]
                    ELSE [acc EXCEPT !.open = <<>>,
                             !.out = Append(@, Message(Head(whole).op,
                                 FoldLeft(LAMBDA all, part : all \o part.payload, <<>>, whole)))]
    IN FoldLeft(step, [out |-> <<>>, open |-> <<>>, end |-> 0], wire)

(* The pieces do not matter: what the reader returned is a prefix of what  *)
(* the wire means; it fails exactly where and how the wire does; and once  *)
(* everything arrived and is used up nothing is missing.  What frame.rs    *)
(* encoded within the limit means the messages it was given, at every      *)
(* length around the borders of the encodings.                             *)
ReadsWhatWasSent ==
    /\ sent # <<>> /\ (\A i \in 1..Len(sent) : Len(sent[i].data) <= Limit)
           => Reference.out = sent /\ fail = 0
    /\ IsPrefix(out, Reference.out)
    /\ fail # 0 => fail = Reference.end /\ out = Reference.out
    /\ got = Total /\ Running /\ Verdict = "more" => out = Reference.out /\ Reference.end <= 0

(* limits.message bounds memory, not only messages: an open message and    *)
(* the frame that is waited for stay within Limit, or a control frame, plus  *)
(* one header, whatever length a header claims (comments in frame()).      *)
BufferBounded ==
    /\ Len(partial.data) <= Limit
    /\ \A i \in 1..Len(out) : out[i].op \notin Control => Len(out[i].data) <= Limit
    /\ Running /\ Verdict = "more" =>
           Have < 14 + (IF Limit - Len(partial.data) > Short THEN Limit - Len(partial.data) ELSE Short)

=============================================================================
