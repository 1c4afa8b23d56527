------------------------------- MODULE Bytes -------------------------------
(* Strings of bytes, and the little-endian numbers in them. *)
EXTENDS Integers, Sequences

Byte == 0 .. 255

\* `as u16', `as u32' and to_le_bytes: what does not fit is cut off.
LE16Uncut(n) == <<n, n \div 256>>                                    \* mutant
LE16(n) == <<n % 256, (n \div 256) % 256>>
LE32(n) == LE16(n % 65536) \o LE16(n \div 65536)

\* `n' bytes from offset `o', and the numbers that stand there
Take(buf, o, n) == SubSeq(buf, o + 1, o + n)
N16(buf, o) == buf[o + 1] + (256 * buf[o + 2])
N32(buf, o) == N16(buf, o) + (65536 * N16(buf, o + 2))
=============================================================================
