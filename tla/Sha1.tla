--------------------------------- MODULE Sha1 ---------------------------------
(***************************************************************************)
(* The digest that answers a WebSocket handshake (httpserver/sha1.cpp,     *)
(* webSockets.cpp): a message comes in pieces, which a buffer cuts into    *)
(* blocks; the last of them is padded; each block is mixed into a digest   *)
(* of five words. The code's words may be wider than 32 bits: what is in   *)
(* the rest of them never comes back. A word is a pair of halves here.     *)
(***************************************************************************)
EXTENDS Integers, Sequences, SequencesExt, Bitwise

BLOCK_BYTES == 64
Half == 65536

Add(a, b) == <<(a[1] + b[1] + ((a[2] + b[2]) \div Half)) % Half, (a[2] + b[2]) % Half>>
XorWord(a, b) == <<a[1] ^^ b[1], a[2] ^^ b[2]>>
AndWord(a, b) == <<a[1] & b[1], a[2] & b[2]>>
OrWord(a, b) == <<a[1] | b[1], a[2] | b[2]>>
Complement(a) == <<Half - 1 - a[1], Half - 1 - a[2]>>

Rol(a, n) ==
    LET swapped == IF n < 16 THEN a ELSE <<a[2], a[1]>>
        shift == 2^(n % 16)
        over == 2^(16 - (n % 16))
    IN  <<((swapped[1] * shift) % Half) + (swapped[2] \div over),
          ((swapped[2] * shift) % Half) + (swapped[1] \div over)>>

-----------------------------------------------------------------------------
(* A hash under way: the bytes not yet mixed in, and the blocks that are.  *)
Reset == [buffer |-> <<>>, blocks |-> <<>>]

RECURSIVE Update(_, _)
Update(sha, bytes) ==
    LET room == BLOCK_BYTES - Len(sha.buffer)
    IN  IF Len(bytes) < room THEN [sha EXCEPT !.buffer = @ \o bytes]
        ELSE Update([buffer |-> <<>>,
                     blocks |-> Append(sha.blocks, sha.buffer \o SubSeq(bytes, 1, room))],
                    SubSeq(bytes, room + 1, Len(bytes)))

Zeros(n) == [i \in 1..n |-> 0]
TotalBits(n) == [i \in 1..8 |-> IF i < 6 THEN 0 ELSE ((8 * n) \div (256^(8 - i))) % 256]

(* The blocks that final() makes of the rest: the number of bits does not  *)
(* fit behind a long one.                                                  *)
Padded(sha) ==
    LET rest == Append(sha.buffer, 128)
        full == rest \o Zeros(BLOCK_BYTES - Len(rest))
        bits == TotalBits(Len(sha.blocks) * BLOCK_BYTES + Len(sha.buffer))
    IN  IF Len(rest) > BLOCK_BYTES - 8
        THEN sha.blocks \o <<full, Zeros(BLOCK_BYTES - 8) \o bits>>
        ELSE Append(sha.blocks, SubSeq(full, 1, BLOCK_BYTES - 8) \o bits)

BufferToBlock(bytes) ==
    [i \in 0..15 |-> <<bytes[4 * i + 1] * 256 + bytes[4 * i + 2], bytes[4 * i + 3] * 256 + bytes[4 * i + 4]>>]

(* One round on the working words <<v, w, x, y, z>>, which change their    *)
(* names from line to line of the code. The block is overwritten as it is  *)
(* used up: blk(i).                                                        *)
Blk(block, i) ==
    Rol(XorWord(XorWord(block[(i + 13) % 16], block[(i + 8) % 16]),
                XorWord(block[(i + 2) % 16], block[i % 16])), 1)

Mix(i, w, x, y) ==
    CASE i < 20 -> XorWord(AndWord(w, XorWord(x, y)), y)
      [] i \in 40..59 -> OrWord(AndWord(OrWord(w, x), y), AndWord(w, x))
      [] OTHER -> XorWord(XorWord(w, x), y)

RoundConstant(i) ==
    CASE i < 20 -> <<23170, 31129>>         \* 5a827999
      [] i \in 20..39 -> <<28377, 60321>>   \* 6ed9eba1
      [] i \in 40..59 -> <<36635, 48348>>   \* 8f1bbcdc
      [] OTHER -> <<51810, 49622>>          \* ca62c1d6

Round(state, i) ==
    LET block == IF i < 16 THEN state.block
                 ELSE [state.block EXCEPT ![i % 16] = Blk(state.block, i)]
        s == state.words
    IN  [block |-> block,
         words |-> <<Add(Add(Add(Add(s[5], Mix(i, s[2], s[3], s[4])), block[i % 16]), RoundConstant(i)), Rol(s[1], 5)),
                     s[1], Rol(s[2], 30), s[3], s[4]>>]

(* Op(x), with x evaluated first: a tool may carry it on as an expression. *)
Now(Op(_), x) == CHOOSE y \in {Op(value) : value \in {x}} : TRUE

(* 4 rounds of 20 operations each: the states of round q, from its first. *)
Rounds(first, q) ==
    LET after[i \in 0..20] ==
            IF i = 0 THEN first ELSE Now(LAMBDA state : Round(state, 20 * q + i - 1), after[i - 1])
    IN  after

Entry(digest, bytes) ==
    LET entry[q \in 0..4] ==
            IF q = 0 THEN [block |-> BufferToBlock(bytes), words |-> digest]
            ELSE Now(LAMBDA state : Rounds(state, q - 1)[20], entry[q - 1])
    IN  entry

Transform(digest, bytes) ==
    Now(LAMBDA end : [n \in 1..5 |-> Add(digest[n], end.words[n])], Entry(digest, bytes)[4])

InitialDigest == <<<<26437, 8961>>, <<61389, 43913>>, <<39098, 56574>>, <<4146, 21622>>, <<50130, 57840>>>>

Final(sha) ==
    LET blocks == Padded(sha)
        after[i \in 0..Len(blocks)] ==
            IF i = 0 THEN InitialDigest
            ELSE Now(LAMBDA digest : Transform(digest, blocks[i]), after[i - 1])
    IN  after[Len(blocks)]

Bytes(digest) ==
    FlattenSeq([n \in 1..5 |-> <<digest[n][1] \div 256, digest[n][1] % 256, digest[n][2] \div 256, digest[n][2] % 256>>])

(* Sec-WebSocket-Accept, before it is encoded: of the key and a constant.  *)
Accept(key, guid) == Bytes(Final(Update(Reset, key \o guid)))

-----------------------------------------------------------------------------
(* FIPS 180-4: the message padded as a whole; the schedule of a block, all *)
(* of it; and the functions by their definitions.                          *)
Whole(message) ==
    LET n == Len(message)
        zeros == CHOOSE z \in 0..63 : (n + 1 + z + 8) % 64 = 0
        all == Append(message, 128) \o Zeros(zeros) \o TotalBits(n)
    IN  [b \in 1..Len(all) \div 64 |-> SubSeq(all, 64 * b - 63, 64 * b)]

Schedule(bytes) ==
    LET W[t \in 16..80] ==     \* the first t words, from 1
            IF t = 16 THEN [i \in 1..16 |-> BufferToBlock(bytes)[i - 1]]
            ELSE Now(LAMBDA w : Append(w, Rol(XorWord(XorWord(w[t - 3], w[t - 8]), XorWord(w[t - 14], w[t - 16])), 1)),
                     W[t - 1])
    IN  W[80]

Ch(x, y, z) == XorWord(AndWord(x, y), AndWord(Complement(x), z))
Parity(x, y, z) == XorWord(x, XorWord(y, z))
Maj(x, y, z) == XorWord(AndWord(x, y), XorWord(AndWord(x, z), AndWord(y, z)))

(* However a message is cut into pieces, the blocks are those of the whole *)
(* message.                                                                *)
PiecesRight(message, cuts) ==
    LET pieces == [i \in 1..Len(cuts) + 1 |->
                      SubSeq(message, IF i = 1 THEN 1 ELSE cuts[i - 1] + 1,
                                      IF i > Len(cuts) THEN Len(message) ELSE cuts[i])]
    IN  Padded(FoldLeft(Update, Reset, pieces)) = Whole(message)

(* The block that is overwritten as it is used holds the schedule's word   *)
(* in each round.                                                          *)
ScheduleRight(bytes) ==
    LET entry == Entry(InitialDigest, bytes)
    IN  \A W \in {Schedule(bytes)} : \A q \in 0..3 :
           \A after \in {Rounds(entry[q], q)} :
               \A i \in 0..19 : after[i + 1].block[(20 * q + i) % 16] = W[20 * q + i + 1]

(* The functions in their shorter form.                                    *)
MixRight(w, x, y) ==
    \A i \in {0, 20, 40, 60} :
        Mix(i, w, x, y) = (CASE i = 0 -> Ch(w, x, y) [] i = 40 -> Maj(w, x, y) [] OTHER -> Parity(w, x, y))
=============================================================================
