---------------------------- MODULE SlottedPage ----------------------------
(***************************************************************************)
(* page.rs: a page as the bytes it has in memory and in heap.ndb.  Behind  *)
(* a header of 64 bytes the tuples grow upwards to `lower', and from the   *)
(* end of the page a directory of four bytes per tuple grows downwards to  *)
(* `upper'.  Numbers are little-endian; those that only travel through a   *)
(* page (ids, LSNs) stay the strings of bytes that they are there.         *)
(***************************************************************************)
EXTENDS Bytes

CONSTANT PAGE_SIZE        \* 4096 in the code

ASSUME PageSizeAssumption == PAGE_SIZE \in Nat /\ 64 <= PAGE_SIZE /\ PAGE_SIZE < 65536

PAGE_HEADER_SIZE == 64
PAGE_MAGIC == <<78, 89, 80, 49>>                                  \* "NYP1"

\* PageType
TypeCode == [free |-> 0, super |-> 1, chat |-> 2, hot |-> 3, impulse |-> 4,
             bond |-> 5, recall |-> 6, catalog |-> 7]

Offsets == 0 .. PAGE_SIZE - 1

-----------------------------------------------------------------------------
(* Reading and writing fields. *)

\* The first `width' bytes of `s' at offset `off'
WriteField(buf, off, width, s) ==
    [i \in DOMAIN buf |-> IF i \in off .. off + width - 1 THEN s[i - off + 1] ELSE buf[i]]
ReadField(buf, off, width) == [k \in 1 .. width |-> buf[off + k - 1]]

WriteU16(buf, off, n) == WriteField(buf, off, 2, LE16(n))
U16(buf, off) == buf[off] + (256 * buf[off + 1])

\* The header: where each field is, and how wide
NSlots(buf) == U16(buf, 18)
Lower(buf)  == U16(buf, 20)
Upper(buf)  == U16(buf, 22)

SetType(buf, ty)   == [buf EXCEPT ![4] = TypeCode[ty]]
SetPageId(buf, id) == WriteField(buf, 6, 4, id)
SetLsn(buf, lsn)   == WriteField(buf, 10, 8, lsn)
SetNext(buf, id)   == WriteField(buf, 28, 4, id)
WriteI64At32(buf, v) == WriteField(buf, 32, 8, v)        \* a chat id
WriteU32At32(buf, v) == WriteField(buf, 32, 4, v)        \* the head of the freelist

\* page_type: a byte that is no type counts as free.
TypeOf(buf) ==
    IF \E ty \in DOMAIN TypeCode : TypeCode[ty] = buf[4]
    THEN CHOOSE ty \in DOMAIN TypeCode : TypeCode[ty] = buf[4] ELSE "free"

\* verify_magic
HasMagic(buf) == ReadField(buf, 0, 4) = PAGE_MAGIC

-----------------------------------------------------------------------------
(* Tuples. *)

\* new_empty
Empty ==
    LET blank  == [i \in Offsets |-> 0]
        magic  == WriteField(blank, 0, 4, PAGE_MAGIC)
    IN  WriteU16(WriteU16(magic, 20, PAGE_HEADER_SIZE), 22, PAGE_SIZE)

\* insert refuses a tuple that does not fit with its directory entry.
FreeSpace(buf) == Upper(buf) - Lower(buf) - 4
FitsTight(buf, tuple) == FreeSpace(buf) > Len(tuple)                  \* mutant
FitsLoose(buf, tuple) == FreeSpace(buf) + 4 >= Len(tuple)             \* mutant
Fits(buf, tuple) == FreeSpace(buf) >= Len(tuple)

Insert(buf, tuple) ==
    LET off    == Lower(buf)
        dir    == Upper(buf) - 4
        stored == WriteField(buf, off, Len(tuple), tuple)
        listed == WriteU16(WriteU16(stored, dir, off), dir + 2, Len(tuple))
        raised == WriteU16(listed, 20, off + Len(tuple))
    IN  WriteU16(WriteU16(raised, 22, dir), 18, NSlots(buf) + 1)

\* tuple_range: the directory entry of a slot, which counts from 0, and whether
\* it can be followed
Dir(slot) == PAGE_SIZE - ((slot + 1) * 4)
SlotOff(buf, slot) == U16(buf, Dir(slot))
SlotLen(buf, slot) == U16(buf, Dir(slot) + 2)
HasTupleBelow(buf, slot) ==                                           \* mutant
    /\ slot < NSlots(buf)
    /\ SlotOff(buf, slot) >= PAGE_HEADER_SIZE
    /\ SlotOff(buf, slot) + SlotLen(buf, slot) < Lower(buf)
HasTuple(buf, slot) ==
    /\ slot < NSlots(buf)
    /\ SlotOff(buf, slot) >= PAGE_HEADER_SIZE
    /\ SlotOff(buf, slot) + SlotLen(buf, slot) <= Lower(buf)

\* get_tuple, where there is one
GetTuple(buf, slot) == ReadField(buf, SlotOff(buf, slot), SlotLen(buf, slot))

\* all_tuples
AllTuples(buf) ==
    LET upto[n \in 0 .. NSlots(buf)] ==
            IF n = 0 THEN <<>>
            ELSE IF HasTuple(buf, n - 1) THEN Append(upto[n - 1], GetTuple(buf, n - 1))
            ELSE upto[n - 1]
    IN  upto[NSlots(buf)]

-----------------------------------------------------------------------------
(* What the bytes of a page with these tuples look like: the tuples lie one *)
(* behind the other, without gaps, below the directory.                     *)

HoldsTuple(buf, slot, tuple) ==
    /\ SlotLen(buf, slot) = Len(tuple)
    /\ SlotOff(buf, slot) \in PAGE_HEADER_SIZE .. Lower(buf)
    /\ SlotOff(buf, slot) + Len(tuple) <= Lower(buf)
    /\ GetTuple(buf, slot) = tuple

\* Where the first k tuples end
End(buf, k) == IF k = 0 THEN PAGE_HEADER_SIZE ELSE SlotOff(buf, k - 1) + SlotLen(buf, k - 1)

Layout(buf, tuples) ==
    LET n == Len(tuples)
    IN  /\ DOMAIN buf = Offsets
        /\ NSlots(buf) = n
        /\ Upper(buf) = PAGE_SIZE - (4 * n)
        /\ Lower(buf) \in PAGE_HEADER_SIZE .. Upper(buf)
        /\ Lower(buf) = End(buf, n)
        /\ \A k \in 1 .. n : /\ SlotOff(buf, k - 1) = End(buf, k - 1)
                             /\ HoldsTuple(buf, k - 1, tuples[k])
=============================================================================
