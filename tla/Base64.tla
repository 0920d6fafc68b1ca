------------------------------- MODULE Base64 -------------------------------
(***************************************************************************)
(* The encoder and the strict decoder of handshake keys.  A character is   *)
(* its position in ALPHABET; Pad is '=' and Alien anything else.           *)
(***************************************************************************)
EXTENDS Integers, Sequences, SequencesExt

Pad == 64
Alien == 65

\* One chunk of the input, short at its end, and its four characters.
EncodeChunk(b) ==
    LET at(j) == IF j <= Len(b) THEN b[j] ELSE 0
        bits == at(1) * 2^16 + at(2) * 2^8 + at(3)
    IN  [j \in 1..4 |-> IF j - 1 <= Len(b) THEN (bits \div 2^(24 - 6 * j)) % 64 ELSE Pad]
Chunks(bytes) == (Len(bytes) + 2) \div 3
Encode(bytes) ==
    FlattenSeq([k \in 1..Chunks(bytes) |->
        EncodeChunk(SubSeq(bytes, 3 * k - 2, IF 3 * k < Len(bytes) THEN 3 * k ELSE Len(bytes)))])

\* How many '=' the text ends with.
Padding(s) == CHOOSE p \in 0..Len(s) :
    /\ \A j \in (Len(s) - p + 1)..Len(s) : s[j] = Pad
    /\ p < Len(s) => s[Len(s) - p] # Pad

\* The characters before the padding: whole groups become bytes, n keeps the
\* bits of the group under way.
Start == [ok |-> TRUE, i |-> 0, n |-> 0, out |-> <<>>]
Step(acc, c) ==
    LET m == acc.n * 64 + c IN
    IF ~acc.ok \/ c \in {Pad, Alien} THEN [acc EXCEPT !.ok = FALSE]
    ELSE IF acc.i = 3
    THEN [acc EXCEPT !.i = 0, !.n = 0,
                     !.out = @ \o <<(m \div 2^16) % 256, (m \div 2^8) % 256, m % 256>>]
    ELSE [acc EXCEPT !.i = @ + 1, !.n = m]

\* The bits that the padding leaves over, and the bytes it cuts short.
Trailing_Ignored(n, pad) == 0
Trailing(n, pad) == CASE pad = 1 -> n % 4 [] pad = 2 -> n % 16 [] OTHER -> 0
Rest(n, pad) == CASE pad = 1 -> <<(n \div 2^10) % 256, (n \div 2^2) % 256>>
                  [] pad = 2 -> <<(n \div 2^4) % 256>>
                  [] OTHER -> <<>>

\* Some(out) or None.
Decode(s) ==
    LET pad == Padding(s)
        acc == FoldLeft(Step, Start, SubSeq(s, 1, Len(s) - pad))
    IN  IF Len(s) % 4 # 0 \/ pad > 2 \/ ~acc.ok \/ Trailing(acc.n, pad) # 0
        THEN [ok |-> FALSE, out |-> <<>>]
        ELSE [ok |-> TRUE, out |-> acc.out \o Rest(acc.n, pad)]

=============================================================================
