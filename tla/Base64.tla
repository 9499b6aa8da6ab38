-------------------------------- MODULE Base64 --------------------------------
(***************************************************************************)
(* Base64 as utils_base64.c encodes and decodes it.  A character of the    *)
(* alphabet is its index 0..63, what base64_dec_map makes of the character *)
(* base64_enc_map has there; "=" is 64, as in that table.                  *)
(***************************************************************************)
EXTENDS Integers, Sequences, SequencesExt

Equals  == 64
Space   == 65
Newline == 66
Return  == 67
Blank   == {Space, Newline, Return}
Other   == 127                               \* any other character

Refused == [rc |-> -1, out |-> <<>>]

-------------------------------------------------------------------------------
\* Three bytes make four characters of six bits.
Group(b1, b2, b3) ==
    <<b1 \div 4, (b1 % 4) * 16 + b2 \div 16, (b2 % 16) * 4 + b3 \div 64, b3 % 64>>

\* utils_base64encode.  Room is needed for a zero at the end.
Encode(size, src) ==
    LET whole == Len(src) \div 3
        rest  == SubSeq(src, 3 * whole + 1, Len(src))
        chars == FlattenSeq([k \in 1..whole |-> Group(src[3 * k - 2], src[3 * k - 1], src[3 * k])])
        tail  == CASE Len(rest) = 0 -> <<>>
                   [] Len(rest) = 1 -> SubSeq(Group(rest[1], 0, 0), 1, 2) \o <<Equals, Equals>>
                   [] Len(rest) = 2 -> SubSeq(Group(rest[1], rest[2], 0), 1, 3) \o <<Equals>>
    IN  IF src = <<>> THEN [rc |-> 0, out |-> <<>>]
        ELSE IF size < Len(chars \o tail) + 1 THEN Refused
        ELSE [rc |-> 0, out |-> chars \o tail]

\* The first pass of _utils_base64_check_valid over the text, from character i on,
\* after j signs of equality and n characters: the number of both, or -1.  Spaces are
\* allowed at the end of a line only.
Invalid == [j |-> -1, n |-> -1]
Checked(src) ==
    LET At(i) == IF i \in DOMAIN src THEN src[i] ELSE Other
        Pass[i \in Nat, j \in Nat, n \in Nat] ==
            LET k == CHOOSE x \in i..(Len(src) + 1) : /\ At(x) # Space
                                                      /\ \A y \in i..(x - 1) : At(y) = Space
            IN  IF k > Len(src) THEN [j |-> j, n |-> n]
                ELSE IF src[k] = Newline \/ (src[k] = Return /\ At(k + 1) = Newline) THEN Pass[k + 1, j, n]
                ELSE IF k > i \/ src[k] > Equals THEN Invalid
                ELSE IF src[k] = Equals THEN IF j = 2 THEN Invalid ELSE Pass[k + 1, j + 1, n + 1]
                ELSE IF j > 0 THEN Invalid ELSE Pass[k + 1, j, n + 1]
    IN  Pass[1, 0, 0]

\* The bytes the text stands for: six bits a character, eight a byte.
Needed(check) == 6 * (check.n \div 8) + (6 * (check.n % 8) + 7) \div 8 - check.j

CheckValid(size, src) ==
    LET check == Checked(src) IN check.n > 0 /\ size >= Needed(check)

\* Of each four characters 3 bytes, but one less for each "=" there has been.
BytesOf_Whole(four)   == 3
BytesOf(four)         == 3 - Len(SelectSeq(four, LAMBDA c : c = Equals))
DecodedGroup(four) ==
    LET x == FoldLeft(LAMBDA acc, c : acc * 64 + (c % 64), 0, four)
    IN  SubSeq(<<x \div 65536, (x \div 256) % 256, x % 256>>, 1, BytesOf(four))

\* utils_base64decode.
Decode(size, src) ==
    LET chars == SelectSeq(src, LAMBDA c : c \notin Blank)
    IN  IF ~CheckValid(size, src) THEN Refused
        ELSE [rc  |-> 0,
              out |-> FlattenSeq([k \in 1..(Len(chars) \div 4) |-> DecodedGroup(SubSeq(chars, 4 * k - 3, 4 * k))])]

-------------------------------------------------------------------------------
\* What has been encoded is decoded to the same bytes, into a buffer of just their
\* number, also after the text has been broken into lines, and not into a shorter one.
RoundTrip(src, break) ==
    LET text  == Encode(4 * Len(src) + 1, src)
        lines == FlattenSeq([i \in DOMAIN text.out |->
                    IF i % 4 = 0 THEN <<text.out[i]>> \o break ELSE <<text.out[i]>>])
    IN  src # <<>> =>
          /\ text.rc = 0
          /\ Decode(Len(src), lines) = [rc |-> 0, out |-> src]
          /\ Decode(Len(src) - 1, lines) = Refused
          /\ Encode(Len(text.out), src) = Refused
===============================================================================
