------------------------------- MODULE Crc32 -------------------------------
(***************************************************************************)
(* crc32.rs: the IEEE CRC-32 by a table of 256 words.  A word is the       *)
(* sequence of its four bytes, the lowest first.                           *)
(***************************************************************************)
EXTENDS Integers, Sequences

\* Exclusive or of half-bytes, bit by bit, and from them of bytes and words
NibbleXor ==
    [a, b \in 0 .. 15 |->
        LET bit(x, k) == (x \div k) % 2
            sum(k)    == k * ((bit(a, k) + bit(b, k)) % 2)
        IN  sum(1) + sum(2) + sum(4) + sum(8)]
ByteXor(a, b) == (16 * NibbleXor[a \div 16, b \div 16]) + NibbleXor[a % 16, b % 16]
WordXor(u, v) == [k \in 1 .. 4 |-> ByteXor(u[k], v[k])]

Polynomial == <<32, 131, 184, 237>>                           \* 0xedb88320
Ones       == <<255, 255, 255, 255>>

\* c >> 1 and c >> 8
ShiftBit(w) ==
    [k \in 1 .. 4 |-> (w[k] \div 2) + (128 * IF k = 4 THEN 0 ELSE w[k + 1] % 2)]
ShiftByte(w) == <<w[2], w[3], w[4], 0>>

\* One bit of the division by the polynomial
Divide(w) == IF w[1] % 2 = 1 THEN WordXor(Polynomial, ShiftBit(w)) ELSE ShiftBit(w)

\* TABLE
Table == [i \in 0 .. 255 |->
             LET after[k \in 0 .. 8] == IF k = 0 THEN <<i, 0, 0, 0>> ELSE Divide(after[k - 1])
             IN  after[8]]

\* crc32
Step(w, byte) == WordXor(Table[ByteXor(w[1], byte)], ShiftByte(w))
Crc(data) ==
    LET after[k \in 0 .. Len(data)] ==
            IF k = 0 THEN Ones ELSE Step(after[k - 1], data[k])
    IN  WordXor(Ones, after[Len(data)])

\* The same by the definition of the code: one division per bit of the data
CrcByBits(data) ==
    LET after[k \in 0 .. 8 * Len(data)] ==
            IF k = 0 THEN Ones
            ELSE LET w == after[k - 1]
                 IN  Divide(IF k % 8 # 1 THEN w
                            ELSE [w EXCEPT ![1] = ByteXor(@, data[((k - 1) \div 8) + 1])])
    IN  WordXor(Ones, after[8 * Len(data)])

\* The test of crc32.rs: the checksums of nothing and of "123456789"
ASSUME KnownAnswers ==
    /\ Crc(<<>>) = <<0, 0, 0, 0>>
    /\ Crc([k \in 1 .. 9 |-> 48 + k]) = <<38, 57, 244, 203>>    \* 0xcbf43926

\* The table does what eight divisions do, whatever the byte.
ASSUME TableDividesBytes ==
    \A byte \in 0 .. 255 : Crc(<<byte>>) = CrcByBits(<<byte>>)

\* A change of one bit, wherever it is, changes the checksum.
ASSUME FindsOneBit ==
    \A at \in 1 .. 4, bit \in 0 .. 7 :
        Crc([<<0, 0, 0, 0>> EXCEPT ![at] = 2 ^ bit]) # Crc(<<0, 0, 0, 0>>)
=============================================================================
