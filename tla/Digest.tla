-------------------------------- MODULE Digest --------------------------------
(***************************************************************************)
(* MD5 and SHA-1 fed with a message piece by piece (a firmware arrives in  *)
(* pieces of any length), and HMAC on top of them.  What the compression   *)
(* function computes is left out: it takes the blocks one after the other, *)
(* so that the state is the sequence of blocks it has been given, and two  *)
(* digests are equal when the sequences are.                               *)
(***************************************************************************)
EXTENDS Integers, Sequences

CONSTANTS
    BlockSize,      \* 64
    LengthSize,     \* 8, the bytes of the length at the end of the last block
    Word,           \* 2^32, a word of the counter of bytes
    Pieces,         \* the lengths of the pieces a message comes in
    MaxLength       \* bound of the model: length of the message

VARIABLES
    ctx,            \* the context: total, buffer, state
    length,         \* history: the length of the message
    finished

vars == <<ctx, length, finished>>

\* Bytes: of the message, of the padding (0x80, then zeros), of the length in bits at
\* the end, and those of a buffer that nothing has been copied to.
Message(n)          == <<"message", n>>
First               == <<"padding", 1>>
Zero                == <<"padding", 0>>
LengthByte(bits, i) == <<"length", i, bits>>
Stale               == <<"stale">>

-------------------------------------------------------------------------------
\* utils_md5_reset; utils_sha1_init and utils_sha1_starts.
Started ==
    [total |-> <<0, 0>>, buffer |-> [i \in 1..BlockSize |-> Stale], state |-> <<>>]

\* _utils_md5_process of one block after the other: the state is made of the state and
\* the blocks.
Process(state, blocks) == state \o blocks

\* memcpy to the buffer from position left + 1 on.
Copied(buffer, left, input) ==
    [i \in 1..BlockSize |-> IF i - left \in DOMAIN input THEN input[i - left] ELSE buffer[i]]

\* Whole blocks of the input are processed where they are.
Blocks(input) == [k \in 1..(Len(input) \div BlockSize) |->
                     SubSeq(input, (k - 1) * BlockSize + 1, k * BlockSize)]
Rest(input)   == SubSeq(input, BlockSize * (Len(input) \div BlockSize) + 1, Len(input))

\* The counter of bytes, in two words, the carry found from the lower one.
Counted(total, n) ==
    LET low == (total[1] + n) % Word
    IN  <<low, (total[2] + (IF low < n % Word THEN 1 ELSE 0)) % Word>>

\* The buffer is filled up first, when the input is long enough for that.
FillsUp_Longer(left, n) == left > 0 /\ n > BlockSize - left
FillsUp(left, n)        == left > 0 /\ n >= BlockSize - left

\* utils_md5_update.
Update(c, input) ==
    LET left == c.total[1] % BlockSize
        fill == BlockSize - left
        more == SubSeq(input, fill + 1, Len(input))
        full == Copied(c.buffer, left, SubSeq(input, 1, fill))
    IN  IF input = <<>> THEN c
        ELSE IF FillsUp(left, Len(input))
        THEN [total  |-> Counted(c.total, Len(input)),
              buffer |-> Copied(full, 0, Rest(more)),
              state  |-> Process(c.state, <<full>> \o Blocks(more))]
        ELSE [total  |-> Counted(c.total, Len(input)),
              buffer |-> Copied(c.buffer, left, Rest(input)),
              state  |-> Process(c.state, Blocks(input))]

\* utils_sha1_update does the same, with utils_sha1_process.
Sha1Update(c, input) == Update(c, input)

\* The length in bits, in two words.
Bits(total) == <<(8 * total[1]) % Word, ((8 * total[1]) \div Word + 8 * total[2]) % Word>>

PaddingLength(last) ==
    LET room == BlockSize - LengthSize IN
    IF last < room THEN room - last ELSE BlockSize + room - last

Padding(c) == [i \in 1..PaddingLength(c.total[1] % BlockSize) |-> IF i = 1 THEN First ELSE Zero]

\* utils_md5_finish ends with the low byte of the length first, utils_sha1_finish with
\* the high one.
LowFirst(bits)  == [i \in 1..LengthSize |-> LengthByte(bits, i)]
HighFirst(bits) == [i \in 1..LengthSize |-> LengthByte(bits, LengthSize + 1 - i)]

Finish(c)     == Update(Update(c, Padding(c)), LowFirst(Bits(c.total)))
Sha1Finish(c) == Sha1Update(Sha1Update(c, Padding(c)), HighFirst(Bits(c.total)))

\* utils_sha1.
Sha1(input) == Sha1Finish(Sha1Update(Started, input)).state

\* utils_hmac_sha1: a key longer than a block is refused, a shorter one is filled up
\* with zeros; the digest of the first pass is written as one byte.
Hmac(key, msg) ==
    LET pad(mask) == [i \in 1..BlockSize |-> <<mask, IF i <= Len(key) THEN key[i] ELSE 0>>]
        out       == Sha1Finish(Sha1Update(Sha1Update(Started, pad("ipad")), msg)).state
    IN  IF Len(key) > BlockSize THEN <<>>
        ELSE Sha1Finish(Sha1Update(Sha1Update(Started, pad("opad")), <<<<"digest", out>>>>)).state

-------------------------------------------------------------------------------
Init == ctx = Started /\ length = 0 /\ finished = FALSE

Feed(n) ==
    /\ ~finished
    /\ length + n <= MaxLength
    /\ ctx' = Update(ctx, [i \in 1..n |-> Message(length + i)])
    /\ length' = length + n
    /\ UNCHANGED finished

Finished ==
    /\ ~finished
    /\ ctx' = Finish(ctx)
    /\ finished' = TRUE
    /\ UNCHANGED length

Next == Finished \/ \E n \in Pieces : Feed(n)

Spec == Init /\ [][Next]_vars

-------------------------------------------------------------------------------
(* Properties. *)

\* RFC 1321 and RFC 3174: behind the message a bit, then zeros up to the length in
\* bits, which ends a block; the digest is that of the blocks of all this.
BitsOf(n) == <<(8 * n) % Word, ((8 * n) \div Word) % Word>>

Zeros(n) == CHOOSE z \in 0..(BlockSize - 1) : (n + 1 + z + LengthSize) % BlockSize = 0

Padded(msg) == msg \o <<First>> \o [i \in 1..Zeros(Len(msg)) |-> Zero]

Md5Of(msg)  == Blocks(Padded(msg) \o LowFirst(BitsOf(Len(msg))))
Sha1Of(msg) == Blocks(Padded(msg) \o HighFirst(BitsOf(Len(msg))))

\* RFC 2104: H(K xor opad, H(K xor ipad, message)), K filled up with zeros.
HmacOf(key, msg) ==
    LET pad(mask) == [i \in 1..BlockSize |-> <<mask, IF i <= Len(key) THEN key[i] ELSE 0>>]
    IN  Sha1Of(pad("opad") \o <<<<"digest", Sha1Of(pad("ipad") \o msg)>>>>)

\* Whatever pieces a message comes in, the digest is that of the whole message.  So is
\* SHA-1 of a message at once, and HMAC is that of RFC 2104 for any key up to a block,
\* for messages of an int's length.
OfWhole ==
    finished =>
        LET message == [i \in 1..length |-> Message(i)] IN
        /\ ctx.state = Md5Of(message)
        /\ length < Word =>
               /\ Sha1(message) = Sha1Of(message)
               /\ \A k \in 0..BlockSize :
                      LET key == [i \in 1..k |-> i] IN Hmac(key, message) = HmacOf(key, message)
===============================================================================
