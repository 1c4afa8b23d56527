------------------------------- MODULE Codec -------------------------------
(***************************************************************************)
(* codec.rs: the tuples of the five domains as bytes.  A row is a record   *)
(* whose `kind' is its domain; fields that a page only carries (ids,       *)
(* times, scores) are the little-endian bytes they are there, and strings  *)
(* are their UTF-8 bytes.  Where a decoder returns an error, or indexes    *)
(* past the end of its input and panics, its row is not `Decodable'.       *)
(***************************************************************************)
EXTENDS Bytes

CONSTANT RECALL_DIM        \* 384 in the code

ASSUME RecallDimAssumption == RECALL_DIM \in Nat \ {0}

-----------------------------------------------------------------------------
(* Rows.  No text is as long as 2^32 bytes. *)

BytesOf(n) == {s \in Seq(Byte) : Len(s) = n}
Text == {s \in Seq(Byte) : Len(s) \div 65536 < 65536}

ChatTuple == [kind : {"chat"}, id : BytesOf(4), ts : BytesOf(8), uid : BytesOf(4),
              role : Byte, text : Text, json : BOOLEAN]
HotTuple == [kind : {"hot"}, key : Seq(Byte), expires : BytesOf(8), value : Seq(Byte)]
ImpulseTuple == [kind : {"impulse"}, id : Seq(Byte), chat : BytesOf(8), at : BytesOf(8),
                 what : Seq(Byte), payload : Seq(Byte)]
BondTuple == [kind : {"bond"}, uid : BytesOf(4), chat : BytesOf(8), score : BytesOf(4),
              note : Seq(Byte)]
\* encode_recall refuses a vector of another dimension.
Vector == {v \in Seq(BytesOf(4)) : Len(v) = RECALL_DIM}
RecallRec == [kind : {"recall"}, chat : BytesOf(8), id : BytesOf(4), visibility : Byte,
              vector : Vector]
Row == ChatTuple \cup HotTuple \cup ImpulseTuple \cup BondTuple \cup RecallRec

-----------------------------------------------------------------------------
(* zstd, from outside: a text of one repeated byte becomes short, any other *)
(* one grows by a byte.                                                     *)

Repeats(s) == \A k \in DOMAIN s : s[k] = s[1]
Compress(s) == IF s # <<>> /\ Repeats(s) THEN <<1, s[1]>> \o LE32(Len(s)) ELSE <<0>> \o s
Decompress(z) == IF z[1] = 1 THEN [k \in 1 .. N32(z, 2) |-> z[2]] ELSE Tail(z)

-----------------------------------------------------------------------------
(* Chat messages. *)

\* Short texts stay as they are, and so do those that compression does not shorten.
Compresses(text) == Len(text) >= 64 /\ Len(Compress(text)) < Len(text)
Algo(json, compressed) == (IF json THEN 2 ELSE 0) + (IF compressed THEN 1 ELSE 0)

EncodeChat(t) ==
    LET body == IF Compresses(t.text) THEN Compress(t.text) ELSE t.text
    IN  <<Algo(t.json, Compresses(t.text))>> \o t.id \o t.ts \o t.uid \o <<t.role>>
        \o LE32(Len(body)) \o body

\* From 18 to 21 bytes the decoder reads a length that is not there.
ChatDecodable(buf) == Len(buf) >= 22 /\ 22 + N32(buf, 18) <= Len(buf)
DecodeChatRaw(buf) ==                                                 \* mutant
    [kind |-> "chat", id |-> Take(buf, 1, 4), ts |-> Take(buf, 5, 8),
     uid  |-> Take(buf, 13, 4), role |-> buf[18],
     text |-> IF buf[1] = 1 THEN Decompress(Take(buf, 22, N32(buf, 18)))
              ELSE Take(buf, 22, N32(buf, 18)),
     json |-> buf[1] \in {2, 3}]
DecodeChat(buf) ==
    LET raw == Take(buf, 22, N32(buf, 18))
    IN  [kind |-> "chat", id |-> Take(buf, 1, 4), ts |-> Take(buf, 5, 8),
         uid  |-> Take(buf, 13, 4), role |-> buf[18],
         text |-> IF buf[1] \in {1, 3} THEN Decompress(raw) ELSE raw,
         json |-> buf[1] \in {2, 3}]

\* role_name
RoleName(role) == CASE role = 1 -> "assistant" [] role = 2 -> "system" [] OTHER -> "user"

-----------------------------------------------------------------------------
(* Hot values. *)

EncodeHot(t) ==
    LE16(Len(t.key)) \o t.key \o t.expires \o LE32(Len(t.value)) \o t.value

HotDecodable(buf) ==
    /\ Len(buf) >= 2 /\ Len(buf) >= 14 + N16(buf, 0)
    /\ 14 + N16(buf, 0) + N32(buf, 10 + N16(buf, 0)) <= Len(buf)
DecodeHot(buf) ==
    LET klen == N16(buf, 0)
    IN  [kind |-> "hot", key |-> Take(buf, 2, klen), expires |-> Take(buf, 2 + klen, 8),
         value |-> Take(buf, 14 + klen, N32(buf, 10 + klen))]

-----------------------------------------------------------------------------
(* Jobs. *)

EncodeImpulse(t) ==
    LE16(Len(t.id)) \o t.id \o t.chat \o t.at \o LE16(Len(t.what)) \o t.what
    \o LE32(Len(t.payload)) \o t.payload

ImpulseDecodable(buf) ==
    LET il == N16(buf, 0)
        kl == N16(buf, 18 + il)
    IN  /\ Len(buf) >= 2 /\ Len(buf) >= 20 + il
        /\ Len(buf) >= 24 + il + kl
        /\ Len(buf) >= 24 + il + kl + N32(buf, 20 + il + kl)
DecodeImpulse(buf) ==
    LET il == N16(buf, 0)
        kl == N16(buf, 18 + il)
    IN  [kind |-> "impulse", id |-> Take(buf, 2, il), chat |-> Take(buf, 2 + il, 8),
         at |-> Take(buf, 10 + il, 8), what |-> Take(buf, 20 + il, kl),
         payload |-> Take(buf, 24 + il + kl, N32(buf, 20 + il + kl))]

-----------------------------------------------------------------------------
(* Bonds and recalls. *)

EncodeBond(t) == t.uid \o t.chat \o t.score \o LE16(Len(t.note)) \o t.note

BondDecodable(buf) == Len(buf) >= 18 /\ Len(buf) >= 18 + N16(buf, 16)
DecodeBond(buf) ==
    [kind |-> "bond", uid |-> Take(buf, 0, 4), chat |-> Take(buf, 4, 8),
     score |-> Take(buf, 12, 4), note |-> Take(buf, 18, N16(buf, 16))]

Floats(vector) ==
    [k \in 1 .. 4 * Len(vector) |-> vector[((k - 1) \div 4) + 1][((k - 1) % 4) + 1]]
EncodeRecall(t) == t.chat \o t.id \o <<t.visibility>> \o Floats(t.vector)

RecallDecodable(buf) == Len(buf) >= 13 + (4 * RECALL_DIM)
DecodeRecall(buf) ==
    [kind |-> "recall", chat |-> Take(buf, 0, 8), id |-> Take(buf, 8, 4),
     visibility |-> buf[13],
     vector |-> [k \in 1 .. RECALL_DIM |-> Take(buf, 9 + (4 * k), 4)]]

-----------------------------------------------------------------------------
(* By domain. *)

Encode(t) ==
    CASE t.kind = "chat"    -> EncodeChat(t)
      [] t.kind = "hot"     -> EncodeHot(t)
      [] t.kind = "impulse" -> EncodeImpulse(t)
      [] t.kind = "bond"    -> EncodeBond(t)
      [] t.kind = "recall"  -> EncodeRecall(t)

Decodable(kind, buf) ==
    CASE kind = "chat"    -> ChatDecodable(buf)
      [] kind = "hot"     -> HotDecodable(buf)
      [] kind = "impulse" -> ImpulseDecodable(buf)
      [] kind = "bond"    -> BondDecodable(buf)
      [] kind = "recall"  -> RecallDecodable(buf)
Decode(kind, buf) ==
    CASE kind = "chat"    -> DecodeChat(buf)
      [] kind = "hot"     -> DecodeHot(buf)
      [] kind = "impulse" -> DecodeImpulse(buf)
      [] kind = "bond"    -> DecodeBond(buf)
      [] kind = "recall"  -> DecodeRecall(buf)
=============================================================================
